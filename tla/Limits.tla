------------------------------- MODULE Limits -------------------------------
(***************************************************************************)
(* What passes, how much of it, and when: the filter of streamed answers,  *)
(* the rate limits of questions and the quotas of calls to the models      *)
(* (src/utils/stream_text.py, rate_limit.py, concurrency.py, retry.py).    *)
(*                                                                         *)
(* Each part is a record that operators take to the next one; the module   *)
(* that runs them decides when.                                            *)
(***************************************************************************)
EXTENDS Integers, Sequences, FiniteSets, SequencesExt

-----------------------------------------------------------------------------
(***************************************************************************)
(* strip_think_stream.  A text is a sequence of characters; the tags keep  *)
(* what matters of <think> and </think>: where one begins as the other     *)
(* does, and that the closing one takes three chunks at least to complete  *)
(* when it arrives by the character.                                       *)
(***************************************************************************)
Space == " "
Open  == <<"<", "o">>
Close == <<"<", "/", "o">>

Stripped(text) ==
    LET first == SelectInSeq(text, LAMBDA c : c # Space)
    IN IF first = 0 THEN <<>> ELSE SubSeq(text, first, Len(text))

\* what is kept of an unfinished block: a closing tag may have begun in it
Tail2(buf) == SubSeq(buf, IF Len(buf) < 2 THEN 1 ELSE Len(buf) - 1, Len(buf))

\* the first place of tag in buf, 0 if there is none
Find(tag, buf) ==
    LET at == {i \in 1 .. Len(buf) : i + Len(tag) - 1 <= Len(buf)
                                     /\ SubSeq(buf, i, i + Len(tag) - 1) = tag}
    IN IF at = {} THEN 0 ELSE CHOOSE i \in at : \A j \in at : i <= j

After(tag, buf) == SubSeq(buf, Find(tag, buf) + Len(tag), Len(buf))

Listening == [state |-> "probe", buf |-> <<>>, out |-> <<>>]

Passing(s, text) == [state |-> "passthrough", buf |-> <<>>, out |-> s.out \o text]

\* Seeded fault: nothing is kept between two chunks
InThinkForgetful(s, buf) ==
    IF Find(Close, buf) = 0 THEN [s EXCEPT !.state = "in_think", !.buf = <<>>]
    ELSE Passing(s, After(Close, buf))

InThink(s, buf) ==
    IF Find(Close, buf) = 0 THEN [s EXCEPT !.state = "in_think", !.buf = Tail2(buf)]
    ELSE Passing(s, After(Close, buf))

Probe(s, buf) ==
    LET probe == Stripped(buf)
    IN CASE IsPrefix(Open, probe) -> InThink(s, SubSeq(probe, Len(Open) + 1, Len(probe)))
         [] IsPrefix(probe, Open) /\ probe # Open -> [s EXCEPT !.buf = buf]
         [] OTHER -> Passing(s, buf)

\* the next chunk; a buffer that is left at the end is dropped
Feed(s, text) ==
    CASE text = <<>>               -> s
      [] s.state = "passthrough"   -> Passing(s, text)
      [] s.state = "in_think"      -> InThink(s, s.buf \o text)
      [] OTHER                     -> Probe(s, s.buf \o text)

-----------------------------------------------------------------------------
(***************************************************************************)
(* The limit of questions: TokenBucket in a process, RedisRateLimiter      *)
(* between processes.  A token is `unit` parts, of which `rate` are added  *)
(* in a tick.  allowed is when questions were let through, in order.       *)
(***************************************************************************)
FullBucket(capacity, unit) ==
    [tokens |-> capacity * unit, updated |-> 0, now |-> 0, allowed |-> <<>>]

Refilled(b, rate, capacity, unit) ==
    LET filled == b.tokens + (b.now - b.updated) * rate
    IN IF filled > capacity * unit THEN capacity * unit ELSE filled

\* acquire of TokenBucket
Acquire(b, rate, capacity, unit) ==
    LET tokens == Refilled(b, rate, capacity, unit)
    IN IF tokens >= unit
       THEN [b EXCEPT !.tokens = tokens - unit, !.updated = b.now, !.allowed = Append(@, b.now)]
       ELSE [b EXCEPT !.tokens = tokens, !.updated = b.now]

NewWindow == [count |-> <<0, 0>>, now |-> 0, allowed |-> <<>>]

\* acquire of RedisRateLimiter; count is <<window, count>> of the newest key.
\* answer "down": the pipeline did not run; "lost": it ran, its reply did not
\* arrive.  Either way the question is let through.
AcquireShared(w, window, maxRequests, answer) ==
    LET key   == w.now \div window
        count == IF w.count[1] = key THEN w.count[2] + 1 ELSE 1
    IN [w EXCEPT !.count = IF answer = "down" THEN @ ELSE <<key, count>>,
                 !.allowed = IF count <= maxRequests \/ answer # "ok"
                             THEN Append(@, <<w.now, answer>>) ELSE @]

-----------------------------------------------------------------------------
(***************************************************************************)
(* The quota of calls: get_semaphore under the phase of the caller, and    *)
(* call_with_retry around a permit.                                        *)
(*                                                                         *)
(* q: sems, the semaphores made so far, each [key, limit]; entry, the one  *)
(* a key stands for, 0 for none; calls, each [pc, sem, tries], where pc is *)
(* "out", "wait", "in", "backoff" or "done".                               *)
(***************************************************************************)
NoCalls(callers, keys) ==
    [sems  |-> <<>>,
     entry |-> [k \in keys |-> 0],
     calls |-> [c \in callers |-> [pc |-> "out", sem |-> 0, tries |-> 0]]]

Holders(q, s) == {c \in DOMAIN q.calls : q.calls[c].sem = s /\ q.calls[c].pc = "in"}

\* Seeded fault: a semaphore with a permit out looks like one of another limit
StaleByPermits(q, key, limit) ==
    q.entry[key] = 0 \/ q.sems[q.entry[key]].limit - Cardinality(Holders(q, q.entry[key])) # limit

Stale(q, key, limit) == q.entry[key] = 0 \/ q.sems[q.entry[key]].limit # limit

\* get_semaphore, and the call waits on what it got
EnterCall(q, c, key, limit) ==
    LET made == IF Stale(q, key, limit) THEN Append(q.sems, [key |-> key, limit |-> limit]) ELSE q.sems
        s    == IF Stale(q, key, limit) THEN Len(made) ELSE q.entry[key]
    IN [q EXCEPT !.sems = made, !.entry[key] = s,
                 !.calls[c] = [pc |-> "wait", sem |-> s, tries |-> 0]]

CanTake(q, c) ==
    q.calls[c].pc = "wait" /\ Cardinality(Holders(q, q.calls[c].sem)) < q.sems[q.calls[c].sem].limit

TakePermit(q, c) == [q EXCEPT !.calls[c].pc = "in", !.calls[c].tries = @ + 1]

\* a call that answered, or failed once more than it is repeated, is over; one
\* that is repeated gives its permit back while it waits
EndTry(q, c, ok, maxRetries) ==
    [q EXCEPT !.calls[c].pc = IF ok \/ q.calls[c].tries > maxRetries THEN "done" ELSE "backoff"]

TryAgain(q, c) == [q EXCEPT !.calls[c].pc = "wait"]
=============================================================================
