------------------------- MODULE SpreadsheetIntake -------------------------
(***************************************************************************)
(* What the intake promises to those who upload spreadsheets of prices and *)
(* to those who read the knowledge made of them.  There are no workers, no *)
(* queues and no deaths: a file gets one document that never vanishes, is  *)
(* read once, its rows are judged once and all together, and whenever it   *)
(* is announced every row that waits for it is told, none twice, in any    *)
(* order.  What is told stays told, and only told prices whose resource is *)
(* known are submitted.                                                    *)
(*                                                                         *)
(* Four promises are not made, because the code does not keep them: that a *)
(* file is announced once, that its rows are told in the file's order,     *)
(* that what was told is submitted once, and that FAILED is never written  *)
(* over an announcement.                                                   *)
(*                                                                         *)
(* IntakePipeline, whose overlapping workers claim, look, write and die,   *)
(* is shown to implement this specification.                               *)
(***************************************************************************)
EXTENDS Integers, Sequences

CONSTANTS Files, Uploads,
          Rows,        \* data rows of all files
          RowsOf,      \* [file -> its rows]
          Valid,       \* rows that pass validation
          Null

VARIABLES standing,      \* [file -> what its uploader is told]
          document,      \* [file -> the upload whose bytes can be opened]
          read,          \* [file -> how often it was read]
          judged,        \* [file -> how often its rows were judged]
          ready,         \* rows that passed and are not told yet
          held,          \* rows a person has to look at
          knowledge,     \* the rows told, in the order told
          linked,        \* rows whose resource is known
          submissions    \* the places in knowledge that were submitted

vars == <<standing, document, read, judged, ready, held, knowledge, linked, submissions>>
reading == <<document, read, judged>>
telling == <<knowledge, linked, submissions>>

Told(r) == \E e \in DOMAIN knowledge : knowledge[e] = r

Init ==
  /\ standing = [f \in Files |-> "UNKNOWN"]
  /\ document = [f \in Files |-> Null]
  /\ read = [f \in Files |-> 0] /\ judged = [f \in Files |-> 0]
  /\ ready = {} /\ held = {} /\ linked = {}
  /\ knowledge = <<>> /\ submissions = <<>>

Take(f, u) ==
  /\ standing[f] = "UNKNOWN" /\ document[f] = Null
  /\ standing' = [standing EXCEPT ![f] = "WAITING"]
  /\ document' = [document EXCEPT ![f] = u]
  /\ UNCHANGED <<read, judged, ready, held, telling>>

Read(f) ==
  /\ standing[f] = "WAITING" /\ read[f] = 0
  /\ read' = [read EXCEPT ![f] = 1]
  /\ UNCHANGED <<standing, document, judged, ready, held, telling>>

(* All rows of the file at once.                                           *)
Judge(f) ==
  /\ standing[f] = "WAITING" /\ read[f] = 1 /\ judged[f] = 0
  /\ standing' = [standing EXCEPT ![f] = "NEEDS_REVIEW"]
  /\ judged' = [judged EXCEPT ![f] = 1]
  /\ ready' = ready \cup (RowsOf[f] \cap Valid)
  /\ held' = held \cup (RowsOf[f] \ Valid)
  /\ UNCHANGED <<document, read, telling>>

(* The knowledge grows by rows of the file that passed, each told once;    *)
(* whatever was ready is among them.                                       *)
Tells(f) ==
  LET news == Len(knowledge) + 1 .. Len(knowledge') IN
  /\ Len(knowledge) <= Len(knowledge')
  /\ \A e \in 1 .. Len(knowledge) : knowledge'[e] = knowledge[e]
  /\ \A e \in news : knowledge'[e] \in RowsOf[f] \cap Valid
  /\ \A d, e \in news : knowledge'[d] = knowledge'[e] => d = e
  /\ \A r \in ready \cap RowsOf[f] : \E e \in news : knowledge'[e] = r

Announce(f) ==
  /\ judged[f] = 1
  /\ Tells(f)
  /\ ready' = ready \ RowsOf[f]
  /\ standing' = [standing EXCEPT ![f] =
       IF held \cap RowsOf[f] = {} THEN "PUBLISHED" ELSE "NEEDS_REVIEW"]
  /\ UNCHANGED <<reading, held, linked, submissions>>

Fail(f) ==
  /\ standing[f] # "UNKNOWN"
  /\ standing' = [standing EXCEPT ![f] = "FAILED"]
  /\ UNCHANGED <<reading, ready, held, telling>>

Link(r) ==
  /\ r \in ready \/ Told(r)
  /\ linked' = linked \cup {r}
  /\ UNCHANGED <<standing, reading, ready, held, knowledge, submissions>>

Submit(e) ==
  /\ knowledge[e] \in linked
  /\ submissions' = Append(submissions, e)
  /\ UNCHANGED <<standing, reading, ready, held, knowledge, linked>>

Next ==
  \/ \E f \in Files : \/ \E u \in Uploads : Take(f, u)
                      \/ Read(f) \/ Judge(f) \/ Announce(f) \/ Fail(f)
  \/ \E r \in Rows : Link(r)
  \/ \E e \in DOMAIN knowledge : Submit(e)

Spec == Init /\ [][Next]_vars

=============================================================================
