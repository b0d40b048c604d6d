-------------------------------- MODULE RawBody --------------------------------
(***************************************************************************)
(* readRawBody() of scripts/wrapper-github-webhook-verify.mjs: one promise *)
(* that four callbacks race to settle, the stream's data, end and error    *)
(* and the timer.  A body is the number of its bytes.                      *)
(***************************************************************************)
EXTENDS Naturals

CONSTANTS
  MaxBytes,    \* the cap
  ChunkSizes,  \* sizes of the chunks a stream delivers
  MaxSent      \* bound on what one stream delivers

\* A cap and chunk sizes are positive.
ASSUME BytesAssumption ==
  MaxBytes \in Nat \ {0} /\ ChunkSizes \subseteq Nat \ {0} /\ MaxSent \in Nat

VARIABLES
  stream,  \* what the request stream has come to
  sent,    \* bytes it has delivered, listened to or not
  total,   \* the callback's counter
  chunks,  \* bytes in the list of chunks
  armed,   \* the stream's listeners and the timer that are still set
  promise  \* pending, or the way it settled

vars == <<stream, sent, total, chunks, armed, promise>>

Callbacks == {"data", "end", "error", "timer"}

Rejections == {"already-ended", "timeout", "too-large", "error"}

TypeOK ==
  /\ stream \in {"open", "ended", "broken"}
  /\ sent \in 0..MaxSent
  /\ total \in Nat /\ chunks \in Nat
  /\ armed \in {{}, Callbacks}
  /\ promise \in {"uncalled", "pending", "resolved"} \cup Rejections
  /\ armed # {} => promise = "pending"

\* An earlier body parser may have consumed the stream.
Init ==
  /\ stream \in {"open", "ended"}
  /\ sent = 0 /\ total = 0 /\ chunks = 0
  /\ armed = {}
  /\ promise = "uncalled"

ReadRawBody ==
  /\ promise = "uncalled"
  /\ promise' = IF stream = "ended" THEN "already-ended" ELSE "pending"
  /\ armed' = IF stream = "ended" THEN {} ELSE Callbacks
  /\ UNCHANGED <<stream, sent, total, chunks>>

\* Mutant: neither the settled flag nor the cleanup.
SettleAgain(outcome) == promise' = outcome /\ UNCHANGED armed

\* settle(): the first outcome stands, and nothing stays armed.
Settle(outcome) ==
  IF promise = "pending" THEN promise' = outcome /\ armed' = {}
                         ELSE UNCHANGED <<promise, armed>>

\* Mutant: an oversized body is cut off silently.
OnDataTruncates(n) ==
  /\ total' = total + n
  /\ chunks' = IF total + n > MaxBytes THEN chunks ELSE chunks + n
  /\ UNCHANGED <<promise, armed>>

OnData(n) ==
  /\ total' = total + n
  /\ IF total + n > MaxBytes
     THEN Settle("too-large") /\ UNCHANGED chunks
     ELSE chunks' = chunks + n /\ UNCHANGED <<promise, armed>>

\* The stream delivers a chunk, ends or breaks; only an armed callback hears.
Data(n) ==
  /\ promise # "uncalled"
  /\ stream = "open"
  /\ sent + n <= MaxSent
  /\ sent' = sent + n
  /\ IF "data" \in armed THEN OnData(n) ELSE UNCHANGED <<total, chunks, promise, armed>>
  /\ UNCHANGED stream

Finish(callback, state, outcome) ==
  /\ promise # "uncalled"
  /\ stream = "open"
  /\ stream' = state
  /\ IF callback \in armed THEN Settle(outcome) ELSE UNCHANGED <<promise, armed>>
  /\ UNCHANGED <<sent, total, chunks>>

End   == Finish("end", "ended", "resolved")
Error == Finish("error", "broken", "error")

\* Mutant: no timer is ever set.
NoTimer == FALSE

Timeout ==
  /\ "timer" \in armed
  /\ Settle("timeout")
  /\ UNCHANGED <<stream, sent, total, chunks>>

Next == ReadRawBody \/ (\E n \in ChunkSizes : Data(n)) \/ End \/ Error \/ Timeout

\* The timer alone is certain: a client may stop sending without closing.
Spec == Init /\ [][Next]_vars /\ WF_vars(ReadRawBody) /\ WF_vars(Timeout)

-----------------------------------------------------------------------------
\* The promise never resolves with part of a body, nor with one over the cap,
\* however chunks, end, error and timer interleave; and it calls a body too
\* large only when it is.
NeverPartial ==
  /\ promise = "resolved" =>
       stream = "ended" /\ chunks = sent /\ sent <= MaxBytes
  /\ promise = "too-large" => sent > MaxBytes

\* What a reader keeps while it listens is all there was, within the cap.
ReadingInv ==
  armed # {} \/ promise = "uncalled" =>
    total = sent /\ chunks = sent /\ sent <= MaxBytes

\* Once settled, the promise keeps its outcome and the reader keeps its hands
\* off the stream, whatever the stream still delivers.
SettledOnce ==
  [][promise \notin {"uncalled", "pending"} =>
       UNCHANGED <<promise, armed, total, chunks>>]_vars

\* A reader that was called settles, even on a stream that just goes quiet.
AlwaysSettles == <>(promise \notin {"uncalled", "pending"})
=============================================================================
