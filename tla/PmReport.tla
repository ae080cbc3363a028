------------------------------ MODULE PmReport ------------------------------
(***************************************************************************)
(* The lists at the end of `pm acap info` (rtems/pm/pm-image.c).  A first  *)
(* pass over the image headers measures their names, a second one prints   *)
(* them in a column of the greatest length.  A name is a field of 16       *)
(* characters which has no NUL when the name fills it; the fields behind   *)
(* it are then taken for a part of the name up to the first byte of zero.  *)
(***************************************************************************)
EXTENDS Naturals, Sequences

CONSTANTS
  ImageLists,     \* the image headers of a file: their names
  PartitionCounts \* NoOfPrtns

NameField == 16   \* XILPDI_IMG_NAME_ARRAY_SIZE
NameLimit == 64   \* of strnlen
TitleLen == 4     \* of the title "name"

\* A name that does not fill its field, or one that does, with the number of
\* bytes of other fields in front of the first zero.
NameRecords == [own : 0..NameField, spill : Nat]

ASSUME ReportAssumption ==
  /\ \A list \in ImageLists : list \in Seq(NameRecords)
  /\ PartitionCounts \subseteq Nat

VARIABLES
  images,      \* ihdr[0..NoOfImgs - 1]
  partitions,  \* NoOfPrtns
  list,        \* the loop that runs, "off" when there is no report
  u,           \* its index
  max,
  widths       \* history: the width of the name in each line of the list

imageVars == <<images, partitions, list, u, max, widths>>

MaxOf(a, b) == IF a >= b THEN a ELSE b

StrLen(name) == IF name.own < NameField THEN name.own ELSE NameField + name.spill
StrNLen(name) == IF StrLen(name) <= NameLimit THEN StrLen(name) ELSE NameLimit

\* What %-*s prints: padded to the width, never cut.
Padded(width, length) == MaxOf(width, length)

NoReport ==
  /\ images = <<>> /\ partitions = 0 /\ list = "off" /\ u = 0 /\ max = 0 /\ widths = <<>>

ReportInit ==
  /\ images \in ImageLists
  /\ partitions \in PartitionCounts
  /\ list = "measure"
  /\ u = 0
  /\ max = 0
  /\ widths = <<>>

\* Without the comparison the last name decides.
MeasureLast ==
  /\ list = "measure"
  /\ u < Len(images)
  /\ max' = StrNLen(images[u + 1])
  /\ u' = u + 1
  /\ UNCHANGED <<images, partitions, list, widths>>

Measure ==
  /\ list = "measure"
  /\ u < Len(images)
  /\ max' = MaxOf(max, StrNLen(images[u + 1]))
  /\ u' = u + 1
  /\ UNCHANGED <<images, partitions, list, widths>>

ImageTitle ==
  /\ list = "measure"
  /\ u >= Len(images)
  /\ widths' = <<Padded(max, TitleLen)>>
  /\ u' = 0
  /\ list' = "images"
  /\ UNCHANGED <<images, partitions, max>>

ImageLine ==
  /\ list = "images"
  /\ u < Len(images)
  /\ widths' = Append(widths, Padded(max, StrLen(images[u + 1])))
  /\ u' = u + 1
  /\ UNCHANGED <<images, partitions, list, max>>

PartitionTitle ==
  /\ list = "images"
  /\ u >= Len(images)
  /\ u' = 0
  /\ list' = "partitions"
  /\ UNCHANGED <<images, partitions, max, widths>>

PartitionLine ==
  /\ list = "partitions"
  /\ u < partitions
  /\ u' = u + 1
  /\ UNCHANGED <<images, partitions, list, max, widths>>

ReportNext ==
  Measure \/ ImageTitle \/ ImageLine \/ PartitionTitle \/ PartitionLine

ReportSpec == ReportInit /\ [][ReportNext]_imageVars

(***************************************************************************)
(* Properties                                                              *)
(***************************************************************************)
\* The columns behind the names line up, with the title as well if there is a
\* name as long as it, even when names fill their fields and run into the
\* next ones; only a name that goes on behind the limit of strnlen breaks the
\* column, and then it is that line which is longer.
ColumnsAligned ==
  list \in {"images", "partitions"} =>
    /\ max >= TitleLen => widths[1] = max
    /\ \A k \in 2..Len(widths) :
         IF StrLen(images[k - 1]) <= NameLimit
         THEN widths[k] = max
         ELSE max = NameLimit /\ widths[k] > max
=============================================================================
