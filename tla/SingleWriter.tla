---------------------------- MODULE SingleWriter ----------------------------
(***************************************************************************)
(* What the workspace authority promises its callers: writers take turns.  *)
(* At any time at most one node owns the workspace, ownership is handed    *)
(* out in consecutive epochs, and only the owner of the current epoch adds *)
(* to what was written, under that epoch.                                  *)
(***************************************************************************)
EXTENDS Naturals

CONSTANTS Writers, NoWriter

VARIABLES
  epoch,    \* the last epoch handed out
  owner,    \* the writer that owns it, or NoWriter
  written   \* the <<epoch, writer>> pairs under which something was written

vars == <<epoch, owner, written>>

Init == epoch = 0 /\ owner = NoWriter /\ written = {}

\* A new epoch begins; whoever owned the old one has lost it.
Grant(w) == epoch' = epoch + 1 /\ owner' = w /\ UNCHANGED written

\* The owner loses the epoch before another one begins.
Revoke == owner' = NoWriter /\ UNCHANGED <<epoch, written>>

Write(w) ==
  /\ owner = w
  /\ written' = written \union {<<epoch, w>>}
  /\ UNCHANGED <<epoch, owner>>

Next == Revoke \/ \E w \in Writers : Grant(w) \/ Write(w)

Spec == Init /\ [][Next]_vars
=============================================================================
