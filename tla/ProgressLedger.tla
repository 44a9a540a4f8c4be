--------------------------- MODULE ProgressLedger ---------------------------
(***************************************************************************)
(* What the actuals of a project promise to whoever reads them: that every *)
(* report, correction, verification, acceptance and attestation happened   *)
(* at one moment, by somebody entitled to it, on the entries and events    *)
(* that stood at that moment and no others.  There are no requests, no     *)
(* locks and no transactions.                                              *)
(*                                                                         *)
(* ProgressEntries, where each of these is a transaction that takes its    *)
(* row locks one by one and decides before it writes, is shown to          *)
(* implement this specification: the handlers are serialisable, although   *)
(* they run under READ COMMITTED.                                          *)
(***************************************************************************)
EXTENDS Integers, Sequences

CONSTANTS Holders,      \* [kind of act -> accounts entitled to it]
          MayCombine,   \* [kind of act -> accounts that may do it on their own work]
          Items,        \* work items
          Commands      \* command ids

VARIABLES entries,   \* the entries in the order they were written
          events     \* what was verified, accepted and attested

vars == <<entries, events>>

Init == entries = <<>> /\ events = {}

Ids == 1..Len(entries)

(* An entry speaks for its item until another one corrects it.             *)
Current(e) == e \in Ids /\ \A f \in Ids : entries[f].parent # e
Standing(item) == {e \in Ids : entries[e].item = item}

FreshReport(command) == \A e \in Ids : entries[e].command # command
FreshEvent(command) == \A v \in events : v.command # command

(* Whoever vouches did not have a hand in what he vouches for.             *)
Recorder(e) == entries[e].by
Verifier(e, p) ==
  \E v \in events : v.act = "VERIFY" /\ v.entry = e /\ v.by = p
Impartial(act, p, e) == p \in MayCombine[act] \/ p # Recorder(e)

Quantity(command, by, item, parent) ==
  [item |-> item, by |-> by, command |-> command,
   parent |-> parent, status |-> "SUBMITTED"]

Report(command, by, item) ==
  /\ FreshReport(command)
  /\ entries' = Append(entries, Quantity(command, by, item, 0))
  /\ UNCHANGED events

(* The corrected entry is returned if nobody had verified it yet; one that *)
(* had been keeps the status it had.                                       *)
Correct(command, by, e) ==
  /\ FreshReport(command)
  /\ Current(e) /\ entries[e].status # "RETURNED"
  /\ entries' = Append(
       [f \in Ids |-> IF f = e /\ entries[e].status = "SUBMITTED"
                      THEN [entries[e] EXCEPT !.status = "RETURNED"] ELSE entries[f]],
       Quantity(command, by, entries[e].item, e))
  /\ UNCHANGED events

(* The entry changes its status and the trail says by whom, in one step.   *)
Promote(act, from, to, command, by, e) ==
  /\ FreshEvent(command)
  /\ Current(e) /\ entries[e].status = from
  /\ entries' = [entries EXCEPT ![e].status = to]
  /\ events' = events \cup {[act |-> act, command |-> command, by |-> by,
                             entry |-> e, context |-> {}]}

Verify(command, by, e) ==
  /\ Impartial("VERIFY", by, e)
  /\ Promote("VERIFY", "SUBMITTED", "VERIFIED", command, by, e)

Accept(command, by, e) ==
  /\ Impartial("ACCEPT", by, e)
  /\ by \in MayCombine["ACCEPT"] \/ ~Verifier(e, by)
  /\ Promote("ACCEPT", "VERIFIED", "ACCEPTED", command, by, e)

(* An attestation names the entries of the item that stand as it is given, *)
(* and is given by whoever could have verified.                            *)
Attest(command, by, e) ==
  /\ FreshEvent(command)
  /\ Current(e) /\ entries[e].status \in {"VERIFIED", "ACCEPTED"}
  /\ Impartial("VERIFY", by, e)
  /\ events' = events \cup {[act |-> "ATTEST", command |-> command, by |-> by,
                             entry |-> e, context |-> Standing(entries[e].item)]}
  /\ UNCHANGED entries

Next == \E command \in Commands :
  \/ \E by \in Holders["SUBMIT"], item \in Items : Report(command, by, item)
  \/ \E e \in Ids :
       \/ \E by \in Holders["CORRECT"] : Correct(command, by, e)
       \/ \E by \in Holders["VERIFY"] : Verify(command, by, e)
       \/ \E by \in Holders["ACCEPT"] : Accept(command, by, e)
       \/ \E by \in Holders["VERIFY"] : Attest(command, by, e)

Spec == Init /\ [][Next]_vars

=============================================================================
