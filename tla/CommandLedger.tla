---------------------------- MODULE CommandLedger ----------------------------
(***************************************************************************)
(* What the mutation pipeline promises its callers, with no transactions,   *)
(* locks or failures: a command is applied in one step that records its     *)
(* response, replaces the row version it names and appends one activity     *)
(* record above every earlier one; a success is only ever answered from the *)
(* record; a consumer receives its scope's activity in order, without gaps. *)
(***************************************************************************)
EXTENDS Naturals

CONSTANTS Keys, Entities, Nothing, Requests, Consumers, Scope

VARIABLES ledger, rows, feed, answers, delivered

ledgerVars == <<ledger, rows, feed, answers, delivered>>

\* The row after an operation, and the rows it accepts.
Effect(row, r) ==
  [revision |-> row.revision + 1,
   closed   |-> CASE r.op \in {"archive_project", "archive_issue"} -> r.closed
                  [] r.op = "delete_comment" -> TRUE
                  [] OTHER -> row.closed,
   content  |-> CASE r.op \in {"set_issue_assignee", "update_comment"} -> r.content
                  [] r.op = "delete_comment" -> Nothing
                  [] OTHER -> row.content]

Accepts(row, r) ==
  row.revision = r.expected /\ (r.op = "update_comment" => ~row.closed)

LedgerInit ==
  /\ ledger = {}
  /\ rows = [e \in Entities |-> [revision |-> 1, closed |-> FALSE, content |-> Nothing]]
  /\ feed = {}
  /\ answers = {}
  /\ delivered = [c \in Consumers |-> {}]

\* A command whose key is unused takes effect.
Apply(r, k) ==
  LET command == <<r.op, k>>
      after == Effect(rows[r.entity], r)
  IN  /\ \A x \in ledger : x.command # command
      /\ Accepts(rows[r.entity], r)
      /\ ledger' = ledger \cup {[command |-> command, request |-> r, response |-> after]}
      /\ rows' = [rows EXCEPT ![r.entity] = after]
      /\ \E a \in feed' :
           /\ feed' = feed \cup {a}
           /\ a.command = command
           /\ a.entity = r.entity
           /\ a.revision = after.revision
           /\ \A b \in feed : b.id < a.id
      /\ UNCHANGED <<answers, delivered>>

\* A client is answered, for the first time or again.
Answer(x) ==
  /\ answers' = answers \cup {x}
  /\ UNCHANGED <<ledger, rows, feed, delivered>>

\* A consumer receives the next records of its scope.
Deliver(c) ==
  /\ \E items \in SUBSET {a \in feed : a.entity \in Scope[c]} :
       /\ delivered' = [delivered EXCEPT ![c] = @ \cup items]
       /\ \A a \in items, b \in feed :
            b.entity \in Scope[c] /\ b.id < a.id => b \in delivered'[c]
  /\ UNCHANGED <<ledger, rows, feed, answers>>

LedgerNext ==
  \/ \E r \in Requests, k \in Keys : Apply(r, k)
  \/ \E x \in ledger : Answer(x)
  \/ \E c \in Consumers : Deliver(c)

Spec == LedgerInit /\ [][LedgerNext]_ledgerVars

=============================================================================
