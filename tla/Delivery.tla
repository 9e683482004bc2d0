------------------------------- MODULE Delivery -------------------------------
(***************************************************************************)
(* What upstreamChunks of openai.go promises its callers, without channels *)
(* and goroutines: the client of a request is given what upstream sent,    *)
(* one chunk after the other, and then upstream's own end of the answer;   *)
(* only a client that has left may be given less or another end.           *)
(*                                                                         *)
(* The n-th chunk of an answer is the number n.                            *)
(***************************************************************************)
EXTENDS Naturals, Sequences

VARIABLES
  sent,      \* chunks upstream has sent
  fate,      \* how upstream's answer ended
  received,  \* chunks the client's handler has been given
  verdict,   \* how the client's answer ended
  away       \* the client has left

vars == <<sent, fate, received, verdict, away>>

Init ==
  /\ sent = <<>> /\ fate = "none"
  /\ received = <<>> /\ verdict = "none"
  /\ away = FALSE

Produce ==
  /\ fate = "none"
  /\ sent' = Append(sent, Len(sent) + 1)
  /\ UNCHANGED <<fate, received, verdict, away>>

\* Upstream's answer is only given up when nobody wants it any more.
End ==
  /\ fate = "none"
  /\ fate' \in {"clean", "failed", "abandoned"}
  /\ fate' = "abandoned" => away \/ verdict # "none"
  /\ UNCHANGED <<sent, received, verdict, away>>

Deliver ==
  /\ verdict = "none"
  /\ Len(received) < Len(sent)
  /\ received' = Append(received, sent[Len(received) + 1])
  /\ UNCHANGED <<sent, fate, verdict, away>>

\* The answer ends as upstream's did, after every chunk.
Conclude ==
  /\ verdict = "none"
  /\ fate # "none"
  /\ verdict' \in {"complete", "failed"}
  /\ verdict' = "failed" <=> fate = "failed"
  /\ ~away => received = sent /\ fate # "abandoned"
  /\ UNCHANGED <<sent, fate, received, away>>

\* A response that cannot be streamed is refused before its first chunk.
Refuse ==
  /\ verdict = "none" /\ received = <<>>
  /\ verdict' = "unsupported"
  /\ UNCHANGED <<sent, fate, received, away>>

Leave ==
  /\ verdict = "none" /\ ~away
  /\ away' = TRUE
  /\ UNCHANGED <<sent, fate, received, verdict>>

Next == Produce \/ End \/ Deliver \/ Conclude \/ Refuse \/ Leave

Spec == Init /\ [][Next]_vars

=============================================================================
