------------------------------ MODULE AiStream ------------------------------
(***************************************************************************)
(* maypop.ai.stream() (src/src/runtime.ts): a chat completion whose answer *)
(* is read while it is written.                                            *)
(*                                                                         *)
(* The answer is a sequence of bytes that arrives in pieces cut anywhere,  *)
(* in the middle of a line or of the JSON on it.  What has not been ended  *)
(* by a newline stays in a buffer; every line that is complete and carries *)
(* a delta is passed on at once.  The bytes are abstracted to the tokens a *)
(* line is made of: Data ("data:"), a payload, Noise, and Newline.         *)
(***************************************************************************)
EXTENDS Naturals, FiniteSets, Sequences, SequencesExt

CONSTANTS
  Deltas,  \* payloads that parse and have content
  Bodies,  \* answers, as sequences of tokens
  Data, Newline, Noise

VARIABLES
  can,      \* the session has ai:use
  call,     \* how far the call has got
  retried,  \* it has been refused once and renewed its token
  body,     \* what the provider answers
  taken,    \* how much of it has been read
  buf, text,
  error,    \* what the call was rejected with
  reported  \* the host has been told that the credits are used up

streamVars == <<can, call, retried, body, taken, buf, text, error, reported>>

Tokens == Deltas \cup {Data, Newline, Noise}
Errors == {"sign-in-required", "forbidden", "revoked", "no-token", "ai-limit", "ai-blocked",
           "unsupported", "storage-full", "error", "callback"}

\* A call by a viewer who may or may not use AI, and what the provider would answer.
InitWith(scope, answer) ==
  /\ can = scope
  /\ call = "new" /\ retried = FALSE
  /\ body = answer /\ taken = 0
  /\ buf = <<>> /\ text = <<>>
  /\ error = "none" /\ reported = FALSE

Init == \E scope \in BOOLEAN, answer \in Bodies : InitWith(scope, answer)

Reject(code) == call' = "failed" /\ error' = code
Reading == UNCHANGED <<can, body, taken, buf, text>>

-----------------------------------------------------------------------------
\* requireAi(), and the request of aiStream(): without a token there is none.
Stream ==
  /\ call = "new"
  /\ IF can THEN call' = "asked" /\ UNCHANGED error
     ELSE \E code \in {"sign-in-required", "forbidden"} : Reject(code)
  /\ UNCHANGED <<retried, reported>> /\ Reading

\* The token is gone when the request is made, at first or again.
Revoked ==
  /\ call = "asked"
  /\ Reject("revoked")
  /\ UNCHANGED <<retried, reported>> /\ Reading

\* A 401: the first is answered by a new token and the same request, the second is the end.
Unauthorized ==
  /\ call = "asked"
  /\ IF retried THEN Reject("revoked") ELSE call' = "renewing" /\ UNCHANGED error
  /\ UNCHANGED <<retried, reported>> /\ Reading

\* freshToken(): the host answers, or has not within ten seconds.
Renewed ==
  /\ call = "renewing"
  /\ call' = "asked" /\ retried' = TRUE
  /\ UNCHANGED <<error, reported>> /\ Reading
NotRenewed ==
  /\ call = "renewing"
  /\ Reject("no-token")
  /\ UNCHANGED <<retried, reported>> /\ Reading

\* Every other refusal, sorted by apiError(): out of credits is told to the host.
Refused ==
  /\ call = "asked"
  /\ \E code \in {"forbidden", "ai-limit", "ai-blocked", "unsupported", "storage-full", "error"} :
       Reject(code) /\ reported' = (reported \/ code = "ai-limit")
  /\ UNCHANGED retried /\ Reading

Accepted ==
  /\ call = "asked" /\ call' = "reading"
  /\ UNCHANGED <<retried, error, reported>> /\ Reading

\* The deltas on a line: none, unless it is "data:" and one payload that parses.
DeltasOn(line) ==
  IF Len(line) = 2 /\ line[1] = Data /\ line[2] \in Deltas THEN <<line[2]>> ELSE <<>>

\* The lines that are complete in a buffer are cut off its front, one after the other.
Lines(bytes) ==
  FoldLeft(LAMBDA cut, token :
             IF token = Newline THEN [text |-> cut.text \o DeltasOn(cut.rest), rest |-> <<>>]
             ELSE [cut EXCEPT !.rest = Append(@, token)],
           [text |-> <<>>, rest |-> <<>>], bytes)

\* Mutant: what is left of a line is dropped with the piece it came in.
ReadDropping ==
  /\ call = "reading"
  /\ \E upTo \in taken + 1..Len(body) :
       LET cut == Lines(buf \o SubSeq(body, taken + 1, upTo))
       IN  taken' = upTo /\ buf' = <<>> /\ text' = text \o cut.text
  /\ UNCHANGED <<can, call, retried, body, error, reported>>

\* A piece arrives, of any length.
Read ==
  /\ call = "reading"
  /\ \E upTo \in taken + 1..Len(body) :
       LET cut == Lines(buf \o SubSeq(body, taken + 1, upTo))
       IN  taken' = upTo /\ buf' = cut.rest /\ text' = text \o cut.text
  /\ UNCHANGED <<can, call, retried, body, error, reported>>

\* The app's callback throws at one of the deltas of a piece, or the connection breaks between two.
ThrowingCallback ==
  /\ call = "reading"
  /\ \E upTo \in taken + 1..Len(body) :
       LET cut == Lines(buf \o SubSeq(body, taken + 1, upTo))
       IN  \E n \in 1..Len(cut.text) : text' = text \o SubSeq(cut.text, 1, n)
  /\ Reject("callback")
  /\ UNCHANGED <<can, retried, body, taken, buf, reported>>
Broken ==
  /\ call = "reading"
  /\ Reject("error")
  /\ UNCHANGED <<retried, reported>> /\ Reading

\* The end; what has no newline is never read.
End ==
  /\ call = "reading" /\ taken = Len(body)
  /\ call' = "done"
  /\ UNCHANGED <<retried, error, reported>> /\ Reading

Next ==
  \/ Stream \/ Revoked \/ Unauthorized \/ Renewed \/ NotRenewed \/ Refused \/ Accepted
  \/ Read \/ ThrowingCallback \/ Broken \/ End

Spec == Init /\ [][Next]_streamVars

-----------------------------------------------------------------------------
\* Every variable keeps its type.
TypeOK ==
  /\ can \in BOOLEAN /\ retried \in BOOLEAN /\ reported \in BOOLEAN
  /\ call \in {"new", "asked", "renewing", "reading", "done", "failed"}
  /\ body \in Bodies /\ taken \in 0..Len(body)
  /\ buf \in Seq(Tokens) /\ text \in Seq(Deltas)
  /\ error \in Errors \cup {"none"}

\* Is there a line, its newline left out, from i to j of the answer's first n bytes?
IsLine(i, j, n) ==
  /\ i = 1 \/ body[i - 1] = Newline
  /\ j >= i - 1 /\ j < n /\ body[j + 1] = Newline
  /\ \A k \in i..j : body[k] # Newline

LinesWithin(n) == {l \in (1..n) \X (0..n) : IsLine(l[1], l[2], n)}

\* However the answer is cut into pieces, what the app has been given is, in order and once each, the
\* deltas of the lines that have come in completely: none lost at a cut, none repeated by the retry
\* of a refused request.
StreamExact ==
  call \in {"new", "asked", "renewing", "reading", "done"} =>
    LET carrying == {l \in LinesWithin(taken) : DeltasOn(SubSeq(body, l[1], l[2])) # <<>>}
    IN  /\ Len(text) = Cardinality(carrying)
        /\ \A l \in carrying :
             text[1 + Cardinality({k \in carrying : k[1] < l[1]})] = body[l[2]]
=============================================================================
