------------------------------ MODULE Replies ------------------------------
(***************************************************************************)
(* What the TCP servers of the demonware emulator reply to requests, given *)
(* as a sequence.  What a reply says depends on the requests before it     *)
(* only: an authentication covers every packet of every key exchange of    *)
(* this process, a task is encrypted under the last key and numbered.      *)
(***************************************************************************)
EXTENDS Naturals, Sequences, SequencesExt, FiniteSetsExt

CONSTANTS
  ReplyBytes   \* bytes of a reply, not 0

IsHandshake(m) == m.kind \in {"header", "auth"}

(* The encrypted messages a task sends: a service_reply or a remote_reply.  *)
Sends(kind) ==
  CASE kind = "task" -> <<"reply">>
    [] kind = "reward" -> <<"push", "reply">>
    [] kind = "bandwidth" -> <<"message">>
    [] OTHER -> << >>

Handshakes(a, k) ==
  FlattenSeq([i \in 1..k |-> IF IsHandshake(a[i]) THEN <<a[i]>> ELSE << >>])
Sent(a, k) == FlattenSeq([i \in 1..k |-> Sends(a[i].kind)])
LastAuth(a, k) == Max({0} \cup {i \in 1..k : a[i].kind = "auth"})

RepliesIn(all, i) == Cardinality({j \in 1..i : all[j] = "reply"})

(* Every encrypted message has the number of its place among all of them, a *)
(* service_reply also that among the replies.                               *)
Number(a, k, i) ==
  LET all == Sent(a, k) IN
  [kind |-> all[i], key |-> Handshakes(a, LastAuth(a, k)), count |-> i,
   transaction |-> IF all[i] = "reply" THEN RepliesIn(all, i) ELSE 0]

Replies(a, k) ==
  LET kind == a[k].kind IN
  CASE kind \in {"zero", "header", "json"} -> <<[kind |-> kind]>>
    [] kind = "auth" -> <<[kind |-> kind, response |-> Handshakes(a, k)]>>
    [] OTHER -> [i \in 1..Len(Sends(kind)) |-> Number(a, k, Len(Sent(a, k - 1)) + i)]

Bytes(replies) ==
  FlattenSeq([i \in 1..Len(replies) |-> [b \in 1..ReplyBytes |-> <<replies[i], b>>]])

Stream(a, k) == FlattenSeq([i \in 1..k |-> Bytes(Replies(a, i))])
=============================================================================
