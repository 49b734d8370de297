---------------------------- MODULE ReplyStream ----------------------------
(***************************************************************************)
(* What one TCP server of the demonware emulator promises the game: its    *)
(* requests are handled one after the other, in the order they were sent,  *)
(* and the bytes the game reads are the replies to them, whole and in that *)
(* order, however it cuts its reads.  Closing a connection and opening     *)
(* another changes nothing.                                                *)
(***************************************************************************)
EXTENDS Replies

VARIABLES
  asked,     \* requests sent, records with a field kind
  served,    \* how many of them have been handled
  heard,     \* bytes the game has read
  closed     \* the server's thread has ended

streamVars == <<asked, served, heard, closed>>

Init == asked = << >> /\ served = 0 /\ heard = << >> /\ closed = FALSE

Ask ==
  /\ Len(asked') = Len(asked) + 1 /\ IsPrefix(asked, asked')
  /\ UNCHANGED <<served, heard, closed>>

Serve ==
  /\ ~closed
  /\ served < Len(asked) /\ served' = served + 1
  /\ UNCHANGED <<asked, heard, closed>>

Hear ==
  /\ IsStrictPrefix(heard, heard') /\ IsPrefix(heard', Stream(asked, served))
  /\ UNCHANGED <<asked, served, closed>>

Close == closed' = TRUE /\ UNCHANGED <<asked, served, heard>>

Next == Ask \/ Serve \/ Hear \/ Close

Safe == Init /\ [][Next]_streamVars

(* Every request is handled in the end, unless the thread ends before.      *)
Spec == Safe /\ WF_streamVars(Serve)
=============================================================================
