--------------------------- MODULE SentenceBuffer ---------------------------
(***************************************************************************)
(* How TTSAccumulator.OnToken cuts sentences out of a stream of tokens,    *)
(* and OnDone the rest.  Three kinds of characters tell all that the code  *)
(* tells apart: a "stop" is . ? or !, a "space" is a space or a newline,   *)
(* anything else is a "letter".                                            *)
(***************************************************************************)
EXTENDS Naturals, Sequences, FiniteSets

CONSTANT MaxText        \* bound of the model: characters of one reply

ASSUME SentenceBufferAssumption == MaxText \in Nat

VARIABLES
    text,       \* what the LLM has written so far
    buf,        \* TTSAccumulator.buf
    sentences,  \* what has been offered to sentCh
    phase       \* "open" between tokens, "cutting" inside OnToken, "done"

bufferVars == <<text, buf, sentences, phase>>

Chars == {"letter", "stop", "space"}
Tokens == UNION {[1..n -> Chars] : n \in 1..3}

BufferInit == text = <<>> /\ buf = <<>> /\ sentences = <<>> /\ phase = "open"

\* Where a sentence ends: the second character of a boundary.
Ends(s) == {i \in 2..Len(s) : s[i - 1] = "stop" /\ s[i] = "space"}

OnToken(token) ==
    /\ phase = "open" /\ Len(text) + Len(token) <= MaxText
    /\ text' = text \o token /\ buf' = buf \o token
    /\ phase' = "cutting"
    /\ UNCHANGED sentences

\* Mutant: the loop cuts one sentence for each token.
CutOne ==
    /\ phase = "cutting" /\ Ends(buf) # {}
    /\ LET end == CHOOSE i \in Ends(buf) : \A j \in Ends(buf) : i <= j IN
       /\ sentences' = Append(sentences, SubSeq(buf, 1, end))
       /\ buf' = SubSeq(buf, end + 1, Len(buf))
    /\ phase' = "open"
    /\ UNCHANGED text

\* One turn of the loop in OnToken: the first boundary in the buffer.
CutFirst ==
    /\ phase = "cutting" /\ Ends(buf) # {}
    /\ LET end == CHOOSE i \in Ends(buf) : \A j \in Ends(buf) : i <= j IN
       /\ sentences' = Append(sentences, SubSeq(buf, 1, end))
       /\ buf' = SubSeq(buf, end + 1, Len(buf))
    /\ UNCHANGED <<text, phase>>

NoBoundary ==
    /\ phase = "cutting" /\ Ends(buf) = {}
    /\ phase' = "open"
    /\ UNCHANGED <<text, buf, sentences>>

\* strings.TrimSpace
Solid(s) == {i \in 1..Len(s) : s[i] # "space"}
Trim(s) == IF Solid(s) = {} THEN <<>>
           ELSE SubSeq(s, CHOOSE i \in Solid(s) : \A j \in Solid(s) : i <= j,
                          CHOOSE i \in Solid(s) : \A j \in Solid(s) : j <= i)

\* OnDone offers what is left, if that is more than white space.
OnDone ==
    /\ phase = "open" /\ phase' = "done"
    /\ sentences' = IF Trim(buf) = <<>> THEN sentences ELSE Append(sentences, Trim(buf))
    /\ UNCHANGED <<text, buf>>

BufferNext == (\E token \in Tokens : OnToken(token)) \/ CutFirst \/ NoBoundary \/ OnDone

BufferSpec == BufferInit /\ [][BufferNext]_bufferVars
-----------------------------------------------------------------------------
\* The sentences of a whole text, found without any buffer: how many end in
\* it, and the k-th of them.
Before(s, k) == IF k = 0 THEN 0
                ELSE CHOOSE i \in Ends(s) : Cardinality({j \in Ends(s) : j <= i}) = k
SentencesOf(s) ==
    [k \in 1..Cardinality(Ends(s)) |-> SubSeq(s, Before(s, k - 1) + 1, Before(s, k))]
Remainder(s) == SubSeq(s, Before(s, Cardinality(Ends(s))) + 1, Len(s))

(***************************************************************************)
(* However the LLM's reply is chopped into tokens, the same sentences are  *)
(* read out and nothing but trailing white space is left unread.           *)
(***************************************************************************)
ChoppingIsInvisible ==
    /\ phase = "open" => sentences = SentencesOf(text) /\ buf = Remainder(text)
    /\ phase = "done" =>
          sentences = SentencesOf(text)
                      \o (IF Trim(Remainder(text)) = <<>> THEN <<>>
                          ELSE <<Trim(Remainder(text))>>)
=============================================================================
