------------------------- MODULE MCProjectStatuses -------------------------
(***************************************************************************)
(* An instance of ProjectStatuses for TLC.                                  *)
(***************************************************************************)
EXTENDS ProjectStatuses, TLC

CONSTANTS w1, w2, own, b1, c1, x1, b2, c2, x2, launch,
          backlog, completed, canceled

\* The client-chosen id and the ids each worker draws.
MCStatuses == {own, b1, c1, x1, b2, c2, x2}

MCFresh ==
  (w1 :> ((backlog :> b1) @@ (completed :> c1) @@ (canceled :> x1)))
    @@ (w2 :> ((backlog :> b2) @@ (completed :> c2) @@ (canceled :> x2)))

MCRank == (own :> 4) @@ (b1 :> 1) @@ (c1 :> 2) @@ (x1 :> 3)
            @@ (b2 :> 7) @@ (c2 :> 6) @@ (x2 :> 5)

\* Every kind of command, from the first one of the organization on.
MCRequests ==
  [op : {"insert_status", "update_status"}, status : {own}, category : {completed}]
    \cup [op : {"update_status"}, status : {c1}, category : {backlog}]
    \cup [op : {"archive_status"}, status : {own, x1}, archived : BOOLEAN]
    \cup [op : {"delete_status"}, status : {own, b1}]
    \cup [op : {"get_status"}, status : {own}]
    \cup [op : {"reorder_statuses", "list_statuses"}]
    \cup [op : {"create_project"}, project : {launch}, status : {DefaultStatus, own}]
    \cup [op : {"update_project"}, project : {launch}, status : {own, b1, c1, x1}]

=============================================================================
