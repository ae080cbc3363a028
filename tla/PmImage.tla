------------------------------ MODULE PmImage ------------------------------
(***************************************************************************)
(* The headers of PDI images (rtems/pm/pm-image.c) and what `pm acap load` *)
(* and `pm acap info` make of them.                                        *)
(*                                                                         *)
(* An image begins with the SMAP bus width pattern.  Behind it a partial   *)
(* PDI has its image header table, a boot PDI the boot header, and its     *)
(* table follows where MetaHdrOfst says; that field is the constant Meta   *)
(* and none of the modelled words.  Words are numbered from behind the     *)
(* pattern.  The file may be damaged, one word at a time, between two      *)
(* commands.                                                               *)
(***************************************************************************)
EXTENDS Naturals

CONSTANTS
  Modulus,     \* 2^32: the values of a word
  TableWords,  \* XIH_IHT_LEN in words
  BootSize,    \* the length of the boot header that its checksum word follows
  IdentAt,     \* the word ImgIden of the boot header
  Ident,       \* XIH_BH_IMAGE_IDENT
  Meta         \* MetaHdrOfst, as a word

Words == 0..Meta + TableWords - 1
Patterns == {"X8", "X16", "X32", "other"}
Images == [smap : Patterns, word : [Words -> 0..Modulus - 1]]

ASSUME SizesAssumption ==
  /\ Modulus \in Nat \ {0}
  /\ TableWords \in Nat /\ TableWords >= 3
  /\ BootSize \in Nat /\ BootSize >= 2
  /\ Meta \in Nat /\ Meta > BootSize
  /\ IdentAt \in 0..BootSize - 1
  /\ Ident \in 0..Modulus - 1

VARIABLES
  image,  \* the file
  load,   \* what `pm acap load` last made of it
  info    \* what `pm acap info` last made of it

imageVars == <<image, load, info>>

\* checksum ^ 0xffffffff
Complement(sum) == (Modulus - 1) - (sum % Modulus)

\* The loop over n words
Sum(word, first, n) ==
  LET sum[k \in Nat] == IF k = 0 THEN 0 ELSE sum[k - 1] + word[first + k - 1]
  IN  sum[n]

\* A loop that begins with the second word.
ChecksumFromOne(word, first, n) == Complement(Sum(word, first + 1, n - 1))

\* rtems_pm_checksum
Checksum(word, first, n) == Complement(Sum(word, first, n))

\* The last of the words that were summed is taken for the checksum.
HeaderChecksumBefore(word, first, n) ==
  IF n < 2 THEN "invalid_length"
  ELSE IF word[first + n - 1] = Checksum(word, first, n - 1) THEN "success"
  ELSE "invalid_csum"

\* rtems_pm_image_header_checksum for n words: the word after them holds the
\* checksum, and one word less than n is summed.
HeaderChecksum(word, first, n) ==
  IF n < 2 THEN "invalid_length"
  ELSE IF word[first + n] = Checksum(word, first, n - 1) THEN "success"
  ELSE "invalid_csum"

VerifyImageHeader(i, first) == HeaderChecksum(i.word, first, TableWords - 1)

VerifyPdiHeader(i) ==
  CASE i.smap \in {"X8", "X16"} -> "not_supported"
    [] i.smap = "X32" -> "success"
    [] OTHER -> "invalid_header"

VerifyBootHeader(i) ==
  CASE VerifyPdiHeader(i) # "success" -> VerifyPdiHeader(i)
    [] i.word[IdentAt] # Ident -> "invalid_ident"
    [] OTHER -> HeaderChecksum(i.word, 0, BootSize)

\* rtems_pm_acap_load up to the firmware: the image header, then the reason
\* for the refusal.
LoadVerdict(i) ==
  CASE VerifyImageHeader(i, 0) = "success" -> "firmware"
    [] VerifyBootHeader(i) = "success" -> "boot"
    [] OTHER -> "corrupt"

\* A report that looks for the table behind the pattern first.
InfoVerdictTableFirst(i) ==
  CASE VerifyImageHeader(i, 0) = "success" /\ VerifyBootHeader(i) # "success" -> "partial"
    [] OTHER -> IF VerifyImageHeader(i, Meta) = "success" THEN "boot" ELSE "error"

\* rtems_pm_acap_print: a boot PDI, a partial PDI or an error.
InfoVerdict(i) ==
  LET boot == VerifyBootHeader(i) = "success"
      table == IF boot THEN Meta ELSE 0 IN
  CASE VerifyImageHeader(i, table) # "success" -> "error"
    [] boot -> "boot"
    [] OTHER -> "partial"

ImageInit ==
  /\ image \in Images
  /\ load = "none"
  /\ info = "none"

LoadFile ==
  /\ load' = LoadVerdict(image)
  /\ UNCHANGED <<image, info>>

AcapInfo ==
  /\ info' = InfoVerdict(image)
  /\ UNCHANGED <<image, load>>

Damage(w, value) ==
  /\ value # image.word[w]
  /\ image' = [image EXCEPT !.word[w] = value]
  /\ load' = "none"
  /\ info' = "none"

ImageNext ==
  \/ LoadFile \/ AcapInfo
  \/ \E w \in Words, value \in 0..Modulus - 1 : Damage(w, value)

ImageSpec == ImageInit /\ [][ImageNext]_imageVars

(***************************************************************************)
(* Properties                                                              *)
(***************************************************************************)
ImageTypeOK ==
  /\ image \in Images
  /\ load \in {"none", "firmware", "boot", "corrupt"}
  /\ info \in {"none", "boot", "partial", "error"}

\* The checksum word of a table as the format defines it: over all the others.
TableIntact(i, first) ==
  i.word[first + TableWords - 1] = Checksum(i.word, first, TableWords - 1)

\* While the last reserved word is zero, as it is in the images that bootgen
\* writes, a table is accepted exactly if it is intact.
AcceptedIntact ==
  \A first \in {0, Meta} : image.word[first + TableWords - 2] = 0 =>
    (VerifyImageHeader(image, first) = "success" <=> TableIntact(image, first))

\* One damaged word of the image header table, or of its checksum, makes the
\* load refuse a partial PDI, unless it is the last reserved word: that one is
\* taken off the length twice, and the load accepts it with any value.
DamageFound ==
  [][\A w \in 0..TableWords - 1 :
       /\ VerifyImageHeader(image, 0) = "success"
       /\ \A v \in Words : image'.word[v] # image.word[v] <=> v = w
       => VerifyImageHeader(image', 0) =
            IF w = TableWords - 2 THEN "success" ELSE "invalid_csum"]_image

\* A boot header and the table of a partial PDI in one file: the load takes it
\* for a partial PDI and the report for a boot PDI.
Ambiguous(i) ==
  VerifyBootHeader(i) = "success" /\ VerifyImageHeader(i, 0) = "success"

\* The load looks for the table first, the report for the boot header.  Only an
\* ambiguous file goes to the firmware without being reported as a partial PDI;
\* of any other file the two say the same: what is loaded is reported as
\* partial and the reverse, a file refused as a boot PDI is reported as one or
\* its table is not intact, and a file refused as corrupt has no report.
CommandsAgree ==
  load # "none" /\ info # "none" =>
    \/ load = "firmware" /\ info = "partial"
    \/ load = "boot" /\ info \in {"boot", "error"}
    \/ load = "corrupt" /\ info = "error"
    \/ load = "firmware" /\ info # "partial" /\ Ambiguous(image)
=============================================================================
