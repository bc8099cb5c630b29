-------------------------- MODULE Serving_proofs ----------------------------
(***************************************************************************)
(* Proofs about what the server shows to pages, and about how it starts    *)
(* and stops: for any number of turns, loads, rows, page sizes, requests   *)
(* and jobs.                                                               *)
(***************************************************************************)
EXTENDS InterviewClient, Listings, Instance, Integers, FiniteSetTheorems, SequenceTheorems,
        TLAPS
-----------------------------------------------------------------------------
(***************************************************************************)
(* The interview page. InSync is about a page whose streams have ended;    *)
(* the invariant says, for each stage of a turn, which events are under    *)
(* way and what the page will show when they have arrived.                 *)
(***************************************************************************)
\* What a stream brings, and how far a turn may be.
Events == {"transcription", "token", "error", "refused", "done"}
Stages == Working \cup {"none", "sent", "stored", "released", "over", "dead"}
Generating == Working \cup {"stored"}

\* The types of which the argument speaks.
Entries == [role : {"candidate", "interviewer"}, text : Seq(Nat)]
ClientTypes ==
    /\ turnStage \in [Submits -> Stages] /\ wire \in [Submits -> Seq(Events)]
    /\ input \in [Submits -> {"none", "opening", "text", "voice"}]
    /\ sessionStatus \in {"active", "generating", "completed", "cancelled"}
    /\ streams \subseteq Submits /\ mishap \in Mishaps \cup {"none"}
    /\ load \in {"asked", "read", "done", "failed"}
MessageTypes ==
    /\ transcript \in Seq(Entries) /\ messages \in Seq(Entries) /\ streamingText \in Seq(Nat)
    /\ dropped \in 0..Len(messages)

\* A turn begins where no other may still write to the transcript, and holds
\* the status until the session is over.
StatusIsHeld ==
    /\ sessionStatus = "active" => \A k \in Submits : turnStage[k] \notin Generating
    /\ \A k, l \in Submits : turnStage[k] \in Generating /\ turnStage[l] \in Generating => k = l

\* Nothing is under way before a turn, and nothing after its "done".
WiresInOrder ==
    \A k \in Submits :
        /\ turnStage[k] = "none" => k \notin streams
        /\ turnStage[k] \in {"none", "sent", "acquired"} => wire[k] = <<>>
        /\ input[k] = "none" => turnStage[k] = "none"
        /\ \A i \in DOMAIN wire[k] :
              wire[k][i] = "done" => i = Len(wire[k]) /\ turnStage[k] = "over"

\* What a page has that may come to wait for the user: the status it has read
\* is that of a session that goes on, and no mishap has happened.
Over == {"completed", "cancelled"}
GoesOn ==
    /\ mishap = "none"
    /\ \/ load = "read" /\ read \notin Over \cup {"generating"}
       \/ load = "done" /\ (page \notin {"ended", "cancelled"} \/ streams # {})

\* A page that loads shows nothing; when it has read that nothing is being
\* generated, nothing is, but for its own calls.
LoadInOrder ==
    /\ load # "done" => streams = {} /\ messages = <<>> /\ streamingText = <<>> /\ dropped = 0
    /\ load = "failed" => mishap # "none"
    /\ GoesOn => \A k \in Submits \ streams : turnStage[k] \notin Generating

\* The stream of k will end in a failure.
Doomed(k) ==
    turnStage[k] = "dead" \/ \E i \in DOMAIN wire[k] : wire[k][i] \in {"error", "refused"}

\* The messages of the page when the transcription under way has arrived,
\* but for the text that the server has dropped.
Heard(k) ==
    IF wire[k] # <<>> /\ wire[k][1] = "transcription"
      THEN Append(RemoveAt(messages, dropped), Said(k)) ELSE RemoveAt(messages, dropped)

\* The events that are under way, at each stage of the turn, are those that
\* make the page show what the transcript holds by then.
InStep(k) ==
    /\ turnStage[k] \in {"sent", "acquired"} =>
          /\ streamingText = <<>>
          /\ dropped # 0 => ~Unanswered
          /\ RemoveAt(messages, dropped) =
                IF input[k] = "text" THEN Append(transcript, Said(k)) ELSE transcript
          /\ input[k] = "text" => messages # <<>> /\ messages[Len(messages)] = Said(k)
          /\ input[k] = "opening" => transcript = <<>>
    /\ turnStage[k] \in {"heard", "replying"} =>
          /\ wire[k] = <<>> \/ (Len(wire[k]) = 1 /\ wire[k][1] = "transcription")
          /\ streamingText = <<>>
          /\ Heard(k) = IF turnStage[k] = "heard" THEN Append(transcript, Said(k)) ELSE transcript
    /\ turnStage[k] \in {"replied", "stored", "released", "over"} =>
          LET last == IF turnStage[k] = "over" THEN 1 ELSE 0 IN
          /\ \/ /\ Len(wire[k]) = 2 + last /\ wire[k][1] = "transcription" /\ wire[k][2] = "token"
                /\ streamingText = <<>>
             \/ Len(wire[k]) = 1 + last /\ wire[k][1] = "token" /\ streamingText = <<>>
             \/ Len(wire[k]) = last /\ streamingText = <<k>>
          /\ turnStage[k] = "over" => wire[k][Len(wire[k])] = "done"
          /\ transcript = IF turnStage[k] = "replied" THEN Heard(k) ELSE Append(Heard(k), Replied(k))

\* One stream at most, in step or doomed; without one the page shows the
\* transcript. A text was dropped because an answer had no reply: it has one
\* when the page takes input again.
Shown ==
    /\ \A k, l \in streams : k = l
    /\ \A k \in streams : Doomed(k) \/ InStep(k)
    /\ streams = {} =>
          /\ RemoveAt(messages, dropped) = transcript /\ streamingText = <<>>
          /\ dropped # 0 => ~Unanswered
    /\ dropped # 0 => messages[dropped].role = "candidate"

\* It is so of a page that has loaded, and may come to wait for the user.
PageInStep == load = "done" /\ GoesOn => Shown

\* The inductive invariant.
ClientInv ==
    /\ ClientTypes /\ MessageTypes /\ StatusIsHeld /\ WiresInOrder /\ LoadInOrder /\ PageInStep
-----------------------------------------------------------------------------

\* The index that one more event brings.
LEMMA OneMore ==
    ASSUME NEW m \in Nat, NEW n, n = m + 1, NEW i \in 1..n, i \notin 1..m
    PROVE  i = m + 1 /\ i = n
  OBVIOUS

\* What Emits does to the wire of the call, and to the others.
LEMMA EmitsEffect ==
    ASSUME ClientTypes, NEW k \in Submits, NEW event \in Events, Emits(k, event)
    PROVE  /\ wire' \in [Submits -> Seq(Events)]
           /\ \A l \in Submits \ {k} : wire'[l] = wire[l]
           /\ k \notin streams => wire' = wire
           /\ k \in streams => /\ Len(wire'[k]) = Len(wire[k]) + 1
                               /\ wire'[k][Len(wire[k]) + 1] = event
                               /\ \A i \in 1..Len(wire[k]) : wire'[k][i] = wire[k][i]
  <1> USE DEF ClientTypes, Emits
  <1>1. CASE k \in streams
    <2>1. wire' = [wire EXCEPT ![k] = Append(wire[k], event)] /\ wire[k] \in Seq(Events)
      BY <1>1
    <2>2. Append(wire[k], event) \in Seq(Events)
      BY <2>1, AppendProperties
    <2>3. wire'[k] = Append(wire[k], event)
      BY <2>1
    <2>4. QED
      BY <1>1, <2>1, <2>2, <2>3, AppendProperties
  <1>2. CASE k \notin streams
    BY <1>2
  <1>3. QED
    BY <1>1, <1>2

\* What the page does with the first event of a stream.
LEMMA HandleEffect ==
    ASSUME ClientTypes, NEW k \in Submits, NEW event, Handle(k, event)
    PROVE  /\ k \in streams /\ wire[k] # <<>> /\ wire[k][1] = event
           /\ wire' \in [Submits -> Seq(Events)]
           /\ \A l \in Submits \ {k} : wire'[l] = wire[l]
           /\ Len(wire'[k]) = Len(wire[k]) - 1 /\ Len(wire[k]) \in Nat \ {0}
           /\ \A i \in 1..Len(wire'[k]) : wire'[k][i] = wire[k][i + 1]
  <1> USE DEF ClientTypes, Handle
  <1>1. wire' = [wire EXCEPT ![k] = Tail(wire[k])] /\ wire[k] \in Seq(Events) /\ wire[k] # <<>>
    OBVIOUS
  <1>2. Tail(wire[k]) \in Seq(Events) /\ wire'[k] = Tail(wire[k])
    BY <1>1
  <1>3. QED
    BY <1>1, <1>2

\* Nothing is at position 0; the last element; and one before the last.
LEMMA RemoveNothing == ASSUME NEW S, NEW s \in Seq(S) PROVE RemoveAt(s, 0) = s
  <1>1. SubSeq(s, 1, 0 - 1) = <<>>
    BY SubSeqEmpty
  <1>2. SubSeq(s, 0 + 1, Len(s)) = s
    BY SubSeqFull
  <1>3. QED
    BY <1>1, <1>2, ConcatEmptySeq DEF RemoveAt

LEMMA RemoveLast ==
    ASSUME NEW S, NEW s \in Seq(S), NEW e \in S
    PROVE  RemoveAt(Append(s, e), Len(s) + 1) = s
  <1> DEFINE t == Append(s, e)
             n == Len(s)
  <1>1. t \in Seq(S) /\ Len(t) = n + 1 /\ n \in Nat /\ \A j \in 1..n : t[j] = s[j]
    BY AppendProperties, LenProperties
  <1> HIDE DEF t
  <1>2. \A j \in 1..n : t[j] \in S
    BY <1>1, ElementOfSeq
  <1>3. /\ SubSeq(t, 1, n) \in Seq(S) /\ Len(SubSeq(t, 1, n)) = n
        /\ \A j \in 1..n : SubSeq(t, 1, n)[j] = t[j]
    <2>1. /\ SubSeq(t, 1, n) \in Seq(S) /\ Len(SubSeq(t, 1, n)) = IF 1 <= n THEN n - 1 + 1 ELSE 0
          /\ \A j \in 1..(n - 1 + 1) : SubSeq(t, 1, n)[j] = t[1 + j - 1]
      BY <1>1, <1>2, SubSeqProperties
    <2>2. QED
      BY <1>1, <2>1
  <1>4. SubSeq(t, 1, n) = s
    BY <1>1, <1>3, SeqEqual
  <1>5. SubSeq(t, n + 2, n + 1) = <<>>
    BY <1>1, SubSeqEmpty
  <1>6. RemoveAt(t, n + 1) = SubSeq(t, 1, (n + 1) - 1) \o SubSeq(t, (n + 1) + 1, Len(t))
    BY DEF RemoveAt
  <1>7. (n + 1) - 1 = n /\ (n + 1) + 1 = n + 2
    BY <1>1
  <1>8. RemoveAt(t, n + 1) = s
    BY <1>1, <1>4, <1>5, <1>6, <1>7, ConcatEmptySeq
  <1>9. QED
    BY <1>8 DEF t

LEMMA RemoveBefore ==
    ASSUME NEW S, NEW s \in Seq(S), NEW e \in S, NEW i \in 0..Len(s)
    PROVE  RemoveAt(Append(s, e), i) = Append(RemoveAt(s, i), e)
  <1> DEFINE t == Append(s, e)
             n == Len(s)
  <1>1. /\ t \in Seq(S) /\ Len(t) = n + 1 /\ n \in Nat /\ i \in Nat
        /\ t[n + 1] = e /\ \A j \in 1..n : t[j] = s[j]
    BY AppendProperties, LenProperties
  <1>2. CASE i = 0
    BY <1>1, <1>2, RemoveNothing
  <1>3. CASE i # 0
    <2> HIDE DEF t
    <2>1. i \in 1..n /\ \A j \in 1..n : t[j] \in S /\ s[j] \in S
      BY <1>1, <1>3, ElementOfSeq
    <2> DEFINE a == SubSeq(s, 1, i - 1)
               b == SubSeq(s, i + 1, n)
               c == SubSeq(t, i + 1, n + 1)
    <2>2. /\ a \in Seq(S) /\ Len(a) = i - 1 /\ \A j \in 1..(i - 1) : a[j] = s[j]
      <3>1. /\ a \in Seq(S) /\ Len(a) = IF 1 <= i - 1 THEN (i - 1) - 1 + 1 ELSE 0
            /\ \A j \in 1..((i - 1) - 1 + 1) : a[j] = s[1 + j - 1]
        BY <1>1, <2>1, SubSeqProperties
      <3>2. QED
        BY <2>1, <3>1
    <2>3. SubSeq(t, 1, i - 1) = a
      <3>1. /\ SubSeq(t, 1, i - 1) \in Seq(S)
            /\ Len(SubSeq(t, 1, i - 1)) = IF 1 <= i - 1 THEN (i - 1) - 1 + 1 ELSE 0
            /\ \A j \in 1..((i - 1) - 1 + 1) : SubSeq(t, 1, i - 1)[j] = t[1 + j - 1]
        BY <1>1, <2>1, SubSeqProperties
      <3>2. /\ Len(SubSeq(t, 1, i - 1)) = i - 1
            /\ \A j \in 1..(i - 1) : SubSeq(t, 1, i - 1)[j] = a[j]
        BY <1>1, <2>1, <2>2, <3>1
      <3>3. QED
        BY <2>2, <3>1, <3>2, SeqEqual
    <2>4. /\ b \in Seq(S) /\ Len(b) = n - i /\ \A j \in 1..(n - i) : b[j] = s[i + j]
      <3>1. /\ b \in Seq(S) /\ Len(b) = IF i + 1 <= n THEN n - (i + 1) + 1 ELSE 0
            /\ \A j \in 1..(n - (i + 1) + 1) : b[j] = s[(i + 1) + j - 1]
        BY <1>1, <2>1, SubSeqProperties
      <3>2. QED
        BY <1>1, <2>1, <3>1
    <2>5. c = Append(b, e)
      <3>1. \A j \in (i + 1)..(n + 1) : t[j] \in S
        BY <1>1, <2>1
      <3>2. /\ c \in Seq(S) /\ Len(c) = IF i + 1 <= n + 1 THEN (n + 1) - (i + 1) + 1 ELSE 0
            /\ \A j \in 1..((n + 1) - (i + 1) + 1) : c[j] = t[(i + 1) + j - 1]
        BY <1>1, <2>1, <3>1, SubSeqProperties
      <3>3. Len(c) = n - i + 1 /\ \A j \in 1..(n - i + 1) : c[j] = t[i + j]
        BY <1>1, <2>1, <3>2
      <3> HIDE DEF b, c
      <3>4. /\ Append(b, e) \in Seq(S) /\ Len(Append(b, e)) = n - i + 1
            /\ Append(b, e)[n - i + 1] = e /\ \A j \in 1..(n - i) : Append(b, e)[j] = b[j]
        BY <2>4, AppendProperties
      <3>5. ASSUME NEW j \in 1..(n - i + 1) PROVE c[j] = Append(b, e)[j]
        <4>1. CASE j = n - i + 1
          BY <1>1, <2>1, <3>3, <3>4, <4>1
        <4>2. CASE j \in 1..(n - i)
          <5>1. i + j \in 1..n /\ j \in 1..(n - i + 1)
            BY <1>1, <2>1, <4>2
          <5>2. c[j] = t[i + j] /\ t[i + j] = s[i + j]
            BY <1>1, <3>3, <5>1
          <5>3. b[j] = s[i + j] /\ Append(b, e)[j] = b[j]
            BY <2>4, <3>4, <4>2
          <5>4. QED
            BY <5>2, <5>3
        <4>3. j = n - i + 1 \/ j \in 1..(n - i)
          BY <1>1, <2>1
        <4>4. QED
          BY <4>1, <4>2, <4>3
      <3>6. QED
        BY <3>2, <3>3, <3>4, <3>5, SeqEqual
    <2>6. RemoveAt(s, i) = a \o b /\ RemoveAt(t, i) = a \o c
      BY <1>1, <2>3 DEF RemoveAt
    <2> HIDE DEF a, b, c
    <2>7. a \o Append(b, e) = Append(a \o b, e)
      BY <2>2, <2>4
    <2>8. RemoveAt(t, i) = Append(RemoveAt(s, i), e)
      BY <2>5, <2>6, <2>7
    <2>9. QED
      BY <2>8 DEF t
  <1>4. QED
    BY <1>2, <1>3

LEMMA RemoveType ==
    ASSUME NEW S, NEW s \in Seq(S), NEW i \in 0..Len(s)
    PROVE  RemoveAt(s, i) \in Seq(S)
  <1>1. Len(s) \in Nat /\ i \in Nat /\ \A j \in 1..Len(s) : s[j] \in S
    BY LenProperties, ElementOfSeq
  <1>2. SubSeq(s, 1, i - 1) \in Seq(S) /\ SubSeq(s, i + 1, Len(s)) \in Seq(S)
    BY <1>1, SubSeqProperties
  <1>3. QED
    BY <1>2, ConcatProperties DEF RemoveAt
-----------------------------------------------------------------------------
\* The page begins with a load.
LEMMA ClientInitInv == ClientInit => ClientInv
  <1> SUFFICES ASSUME ClientInit PROVE ClientInv
    OBVIOUS
  <1> <<>> \in Seq(Events)
    OBVIOUS
  <1> USE DEF ClientInit
  <1>1. ClientTypes
    BY DEF ClientTypes, Stages
  <1>2. MessageTypes
    <2>1. Said(0) \in Entries /\ Replied(0) \in Entries
      BY DEF Said, Replied, Entries
    <2>2. <<>> \in Seq(Entries) /\ \A a, b \in Entries : <<a, b>> \in Seq(Entries)
      OBVIOUS
    <2>3. PICK a \in Entries, b \in Entries : transcript = <<>> \/ transcript = <<a, b>>
      BY <2>1
    <2>4. transcript \in Seq(Entries)
      BY <2>2, <2>3
    <2>5. messages = <<>> /\ streamingText = <<>> /\ dropped = 0 /\ Len(<<>>) = 0
      OBVIOUS
    <2>6. QED
      BY <2>4, <2>5 DEF MessageTypes
  <1>3. StatusIsHeld /\ WiresInOrder /\ LoadInOrder /\ PageInStep
    BY DEF StatusIsHeld, WiresInOrder, LoadInOrder, PageInStep, GoesOn, Generating, Working
  <1>4. QED
    BY <1>1, <1>2, <1>3 DEF ClientInv

\* Every step keeps the types.
LEMMA ClientTypesKept == ClientTypes /\ [ClientNext]_clientVars => ClientTypes'
  <1> SUFFICES ASSUME ClientTypes, [ClientNext]_clientVars PROVE ClientTypes'
    OBVIOUS
  <1> <<>> \in Seq(Events)
    OBVIOUS
  <1> USE DEF ClientTypes, Stages, Working, Mishaps, Suffers, serverVars, pageVars, loadVars, endVars,
              historyVars, TurnVars
  <1>1. CASE LoadStep
    <2>1. CASE Reload
      <3>1. wire' \in [Submits -> Seq(Events)]
        BY <2>1 DEF Reload
      <3>2. QED
        BY <2>1, <3>1 DEF Reload
    <2>2. CASE GetMessagesBySession
      <3>1. /\ turnStage' \in [Submits -> Stages] /\ streams' \subseteq Submits
            /\ input' \in [Submits -> {"none", "opening", "text", "voice"}]
        <4>1. CASE \E k \in Submits : Call(k, "opening")
          <5>1. PICK k \in Submits : Call(k, "opening")
            BY <4>1
          <5>2. QED
            BY <5>1 DEF Call
        <4>2. CASE UNCHANGED <<turnStage, input, streams>>
          BY <4>2
        <4>3. QED
          BY <2>2, <4>1, <4>2, Zenon DEF GetMessagesBySession
      <3>2. QED
        BY <2>2, <3>1 DEF GetMessagesBySession
    <2>3. CASE GetSessionForTurn \/ PollAgain \/ LoadFails
      BY <2>3 DEF GetSessionForTurn, PollAgain, LoadFails
    <2>4. QED
      BY <1>1, <2>1, <2>2, <2>3 DEF LoadStep
  <1>2. CASE EndStep \/ CleanupStaleGenerating
    BY <1>2 DEF EndStep, DoEndSession, DoCancelSession, WaitForGeneration, SessionOver, EndFails,
          CleanupStaleGenerating
  <1>3. ASSUME NEW k \in Submits, SendText(k) \/ SendAudio(k) PROVE ClientTypes'
    BY <1>3 DEF SendText, SendAudio, Call, Hurried
  <1>4. ASSUME NEW k \in Submits, ServerStep(k) PROVE ClientTypes'
    <2>1. wire' \in [Submits -> Seq(Events)]
      BY <1>4, EmitsEffect DEF ServerStep, Acquire, Refuse, SkipInput, Transcribe,
         PersistCandidate, Token,
            TurnFails, SynthesisFails, PersistReply, Release, Done, InstanceDies, Events
    <2>2. turnStage' \in [Submits -> Stages]
      BY <1>4 DEF ServerStep, Acquire, Refuse, SkipInput, Transcribe, PersistCandidate, Token,
            TurnFails, SynthesisFails, PersistReply, Release, Done, InstanceDies, Stage
    <2>3. UNCHANGED <<input, streams, load>> /\ mishap' \in Mishaps \cup {"none"}
      BY <1>4 DEF ServerStep, Acquire, Refuse, SkipInput, Transcribe, PersistCandidate, Token,
            TurnFails, SynthesisFails, PersistReply, Release, Done, InstanceDies
    <2>4. sessionStatus' \in {"active", "generating", "completed", "cancelled"}
      BY <1>4 DEF ServerStep, Acquire, Refuse, SkipInput, Transcribe, PersistCandidate, Token,
            TurnFails, SynthesisFails, PersistReply, Release, Done, InstanceDies, ReleaseStatus
    <2>5. QED
      BY <2>1, <2>2, <2>3, <2>4
  <1>5. ASSUME NEW k \in Submits, EventStep(k) PROVE ClientTypes'
    <2>1. wire' \in [Submits -> Seq(Events)]
      BY <1>5, HandleEffect DEF EventStep, TranscriptionResult, InterviewerToken, InterviewerDone,
            TurnError, StreamBreaks
    <2>2. /\ UNCHANGED <<sessionStatus, turnStage, input, load>> /\ mishap' \in {mishap, "failure"}
          /\ streams' \subseteq streams
      BY <1>5 DEF EventStep, TranscriptionResult, InterviewerToken, InterviewerDone, TurnError,
            StreamBreaks, StreamThrows, Handle
    <2>3. QED
      BY <2>1, <2>2
  <1>6. CASE UNCHANGED clientVars
    BY <1>6 DEF clientVars
  <1>7. QED
    BY <1>1, <1>2, <1>3, <1>4, <1>5, <1>6 DEF ClientNext

\* Messages are only added, on both sides, while a page lasts.
LEMMA MessageTypesKept ==
    ClientTypes /\ MessageTypes /\ LoadInOrder /\ [ClientNext]_clientVars => MessageTypes'
  <1> SUFFICES ASSUME ClientTypes, MessageTypes, LoadInOrder, [ClientNext]_clientVars
               PROVE  MessageTypes'
    OBVIOUS
  <1> DEFINE Longer(old, new) == \E e \in Entries : new = Append(old, e)
  <1>1. \A k \in Submits : k \in Nat /\ Said(k) \in Entries /\ Replied(k) \in Entries
    BY ClientAssumption DEF Submits, Said, Replied, Entries
  <1>2. ASSUME NEW old \in Seq(Entries), NEW new, Longer(old, new)
        PROVE  new \in Seq(Entries) /\ Len(new) = Len(old) + 1 /\ Len(old) \in Nat
    BY <1>2, AppendProperties
  <1>3. ASSUME transcript' = transcript \/ Longer(transcript, transcript'),
               \/ messages' = messages /\ dropped' \in {dropped, Len(messages)}
               \/ Longer(messages, messages') /\ dropped' = dropped,
               streamingText' \in Seq(Nat)
        PROVE  MessageTypes'
    <2>1. transcript' \in Seq(Entries) /\ messages' \in Seq(Entries)
      BY <1>2, <1>3 DEF MessageTypes
    <2>2. Len(messages) \in Nat /\ dropped \in 0..Len(messages)
      BY DEF MessageTypes
    <2>3. dropped' \in 0..Len(messages')
      <3>1. CASE messages' = messages /\ dropped' \in {dropped, Len(messages)}
        BY <2>2, <3>1
      <3>2. CASE Longer(messages, messages') /\ dropped' = dropped
        <4>1. Len(messages') = Len(messages) + 1
          BY <1>2, <3>2 DEF MessageTypes
        <4>2. QED
          BY <2>2, <3>2, <4>1
      <3>3. QED
        BY <1>3, <3>1, <3>2
    <2>4. QED
      BY <1>3, <2>1, <2>3 DEF MessageTypes
  <1>4. streamingText \in Seq(Nat) /\ <<>> \in Seq(Nat)
    BY DEF MessageTypes
  <1> HIDE DEF Longer
  <1>5. CASE LoadStep
    <2>1. CASE Reload
      BY <1>4, <2>1 DEF Reload, MessageTypes, serverVars
    <2>2. CASE GetMessagesBySession
      <3>1. /\ messages' \in {messages, transcript} /\ transcript' = transcript
            /\ UNCHANGED <<streamingText, dropped>> /\ dropped = 0
        BY <2>2 DEF GetMessagesBySession, historyVars, LoadInOrder
      <3>2. messages' \in Seq(Entries) /\ Len(messages') \in Nat
        BY <3>1 DEF MessageTypes
      <3>3. QED
        BY <3>1, <3>2 DEF MessageTypes
    <2>3. CASE GetSessionForTurn \/ PollAgain \/ LoadFails
      BY <1>3, <1>4, <2>3 DEF GetSessionForTurn, PollAgain, LoadFails, serverVars, pageVars, historyVars
    <2>4. QED
      BY <1>5, <2>1, <2>2, <2>3 DEF LoadStep
  <1>6. CASE EndStep \/ CleanupStaleGenerating
    BY <1>3, <1>4, <1>6 DEF EndStep, DoEndSession, DoCancelSession, WaitForGeneration, SessionOver,
          EndFails, CleanupStaleGenerating, serverVars, pageVars, historyVars, TurnVars
  <1>7. ASSUME NEW k \in Submits, SendText(k) \/ SendAudio(k) PROVE MessageTypes'
    <2>1. Longer(messages, messages') \/ messages' = messages
      BY <1>1, <1>7 DEF SendText, SendAudio, Longer
    <2>2. UNCHANGED <<transcript, streamingText, dropped>>
      BY <1>7 DEF SendText, SendAudio, Hurried
    <2>3. QED
      BY <1>3, <1>4, <2>1, <2>2
  <1>8. ASSUME NEW k \in Submits, ServerStep(k) PROVE MessageTypes'
    <2>1. Longer(transcript, transcript') \/ transcript' = transcript
      BY <1>1, <1>8 DEF ServerStep, Acquire, Refuse, SkipInput, Transcribe, PersistCandidate, Token,
            TurnFails, SynthesisFails, PersistReply, Release, Done, InstanceDies, serverVars, Longer
    <2>2. UNCHANGED <<messages, streamingText>> /\ dropped' \in {dropped, Len(messages)}
      BY <1>8 DEF ServerStep, Acquire, Refuse, SkipInput, Transcribe, PersistCandidate, Token,
            TurnFails, SynthesisFails, PersistReply, Release, Done, InstanceDies, TurnVars, pageVars,
            historyVars
    <2>3. QED
      BY <1>3, <1>4, <2>1, <2>2
  <1>9. ASSUME NEW k \in Submits, EventStep(k) PROVE MessageTypes'
    <2>1. UNCHANGED <<transcript, dropped>>
      BY <1>9 DEF EventStep, TranscriptionResult, InterviewerToken, InterviewerDone, TurnError,
            StreamBreaks, StreamThrows, Handle, serverVars, historyVars
    <2>2. Longer(messages, messages') \/ messages' = messages
      <3>1. [role |-> "interviewer", text |-> streamingText] \in Entries
        BY <1>4 DEF Entries
      <3>2. QED
        BY <1>1, <1>9, <3>1 DEF EventStep, TranscriptionResult, InterviewerToken, InterviewerDone,
            TurnError, StreamBreaks, StreamThrows, Longer
    <2>3. streamingText' \in Seq(Nat)
      <3>1. streamingText' \in {streamingText, <<>>, Append(streamingText, k)}
        BY <1>9 DEF EventStep, TranscriptionResult, InterviewerToken, InterviewerDone, TurnError,
              StreamBreaks, StreamThrows
      <3>2. Append(streamingText, k) \in Seq(Nat)
        BY <1>1, <1>4, AppendProperties
      <3>3. QED
        BY <1>4, <3>1, <3>2
    <2>4. QED
      BY <1>3, <2>1, <2>2, <2>3
  <1>10. CASE UNCHANGED clientVars
    BY <1>3, <1>4, <1>10 DEF clientVars, serverVars, pageVars, historyVars
  <1>11. QED
    BY <1>5, <1>6, <1>7, <1>8, <1>9, <1>10 DEF ClientNext

\* A turn begins where none holds the status.
LEMMA StatusKept == ClientTypes /\ StatusIsHeld /\ [ClientNext]_clientVars => StatusIsHeld'
  <1> SUFFICES ASSUME ClientTypes, StatusIsHeld, [ClientNext]_clientVars PROVE StatusIsHeld'
    OBVIOUS
  <1> USE DEF ClientTypes, StatusIsHeld, Generating, Working, serverVars
  <1>1. CASE LoadStep
    BY <1>1 DEF LoadStep, Reload, GetSessionForTurn, PollAgain, GetMessagesBySession, LoadFails, Call
  <1>2. CASE EndStep \/ CleanupStaleGenerating
    BY <1>2 DEF EndStep, DoEndSession, DoCancelSession, WaitForGeneration, SessionOver, EndFails,
          CleanupStaleGenerating
  <1>3. ASSUME NEW k \in Submits, SendText(k) \/ SendAudio(k) PROVE StatusIsHeld'
    <2>1. sessionStatus' = sessionStatus /\ turnStage' = [turnStage EXCEPT ![k] = "sent"]
      BY <1>3 DEF SendText, SendAudio, Call
    <2>2. \A l \in Submits : turnStage'[l] \in Generating => turnStage[l] \in Generating
      BY <2>1
    <2>3. QED
      BY <2>1, <2>2, Zenon
  <1>4. ASSUME NEW k \in Submits, ServerStep(k) PROVE StatusIsHeld'
    <2>1. CASE Acquire(k) \/ Refuse(k) \/ SkipInput(k) \/ Transcribe(k) \/ PersistCandidate(k)
               \/ Token(k)
      BY <2>1 DEF Acquire, Refuse, SkipInput, Transcribe, PersistCandidate, Token, Stage
    <2>2. CASE TurnFails(k) \/ Release(k)
      BY <2>2 DEF TurnFails, Release, ReleaseStatus, Stage
    <2>3. CASE SynthesisFails(k)
      BY <2>3 DEF SynthesisFails
    <2>4. CASE PersistReply(k)
      BY <2>4 DEF PersistReply, Stage
    <2>5. CASE Done(k)
      BY <2>5 DEF Done, Stage
    <2>6. CASE InstanceDies(k)
      BY <2>6 DEF InstanceDies, Stage
    <2>7. QED
      BY <1>4, <2>1, <2>2, <2>3, <2>4, <2>5, <2>6 DEF ServerStep
  <1>5. ASSUME NEW k \in Submits, EventStep(k) PROVE StatusIsHeld'
    BY <1>5 DEF EventStep, TranscriptionResult, InterviewerToken, InterviewerDone, TurnError,
            StreamBreaks, Handle
  <1>6. CASE UNCHANGED clientVars
    BY <1>6 DEF clientVars
  <1>7. QED
    BY <1>1, <1>2, <1>3, <1>4, <1>5, <1>6 DEF ClientNext

\* The events of a call stay in order.
LEMMA WiresKept == ClientTypes /\ WiresInOrder /\ [ClientNext]_clientVars => WiresInOrder'
  <1> SUFFICES ASSUME ClientTypes, WiresInOrder, [ClientNext]_clientVars PROVE WiresInOrder'
    OBVIOUS
  <1> USE DEF ClientTypes, WiresInOrder, serverVars
  <1>0. CASE UNCHANGED <<turnStage, wire, streams, input>>
    BY <1>0
  <1>1. CASE LoadStep
    <2>1. CASE Reload
      BY <2>1 DEF Reload
    <2>2. CASE GetMessagesBySession
      <3>1. UNCHANGED wire
        BY <2>2 DEF GetMessagesBySession
      <3>2. CASE UNCHANGED <<turnStage, input, streams>>
        BY <3>1, <3>2, <1>0
      <3>3. ASSUME NEW k \in Submits, Call(k, "opening") PROVE WiresInOrder'
        BY <3>1, <3>3 DEF Call
      <3>4. QED
        BY <2>2, <3>2, <3>3 DEF GetMessagesBySession
    <2>3. CASE GetSessionForTurn \/ PollAgain \/ LoadFails
      BY <1>0, <2>3 DEF GetSessionForTurn, PollAgain, LoadFails
    <2>4. QED
      BY <1>1, <2>1, <2>2, <2>3 DEF LoadStep
  <1>2. CASE EndStep \/ CleanupStaleGenerating
    BY <1>0, <1>2 DEF EndStep, DoEndSession, DoCancelSession, WaitForGeneration, SessionOver, EndFails,
          CleanupStaleGenerating, TurnVars
  <1>3. ASSUME NEW k \in Submits, SendText(k) \/ SendAudio(k) PROVE WiresInOrder'
    BY <1>3 DEF SendText, SendAudio, Call
  <1>4. ASSUME NEW k \in Submits, ServerStep(k) PROVE WiresInOrder'
    <2> USE DEF Working, Stage
    <2>0. streams' = streams /\ input' = input
      BY <1>4 DEF ServerStep, Acquire, Refuse, SkipInput, Transcribe, PersistCandidate, Token,
            TurnFails, SynthesisFails, PersistReply, Release, Done, InstanceDies, TurnVars
    <2>1. CASE UNCHANGED wire
      BY <1>4, <2>0, <2>1 DEF ServerStep, Acquire, Refuse, SkipInput, Transcribe,
         PersistCandidate, Token,
            TurnFails, SynthesisFails, PersistReply, Release, Done, InstanceDies
    <2>2. ASSUME NEW event \in Events, Emits(k, event), turnStage[k] \notin {"none", "over"},
                 turnStage'[k] \notin {"none", "sent", "acquired"}, event = "done" => turnStage'[k] = "over",
                 \A l \in Submits \ {k} : turnStage'[l] = turnStage[l]
          PROVE  WiresInOrder'
      <3>1. /\ wire' \in [Submits -> Seq(Events)] /\ \A l \in Submits \ {k} : wire'[l] = wire[l]
            /\ k \notin streams => wire' = wire
            /\ k \in streams => /\ Len(wire'[k]) = Len(wire[k]) + 1
                                /\ wire'[k][Len(wire[k]) + 1] = event
                                /\ \A i \in 1..Len(wire[k]) : wire'[k][i] = wire[k][i]
        BY <2>2, EmitsEffect
      <3>2. PICK m \in Nat, n \in Nat : /\ DOMAIN wire[k] = 1..m /\ Len(wire[k]) = m
                                        /\ DOMAIN wire'[k] = 1..n /\ Len(wire'[k]) = n
        <4>1. wire[k] \in Seq(Events) /\ wire'[k] \in Seq(Events)
          BY <3>1
        <4>2. QED
          BY <4>1
      <3>3. \A i \in 1..m : wire[k][i] # "done"
        BY <2>2, <3>2
      <3>4. ASSUME NEW i \in DOMAIN wire'[k], wire'[k][i] = "done"
            PROVE  i = Len(wire'[k]) /\ turnStage'[k] = "over"
        <4> HIDE DEF ClientTypes, WiresInOrder, serverVars, Working, Stage
        <4>1. i \in 1..n
          BY <3>2, <3>4, Zenon
        <4>2. i \notin 1..m
          BY <3>1, <3>2, <3>3, <3>4, Zenon
        <4>3. k \in streams
          BY <3>1, <3>2, <4>1, <4>2, Zenon
        <4>4. n = m + 1 /\ wire'[k][m + 1] = event
          BY <3>1, <3>2, <4>3, Zenon
        <4>5. i = m + 1 /\ i = n
          BY <4>1, <4>2, <4>4, OneMore, Zenon
        <4>6. QED
          BY <2>2, <3>2, <3>4, <4>4, <4>5, Zenon
      <3>5. ASSUME NEW l \in Submits \ {k} PROVE wire'[l] = wire[l] /\ turnStage'[l] = turnStage[l]
        BY <2>2, <3>1
      <3>6. QED
        BY <2>0, <2>2, <3>4, <3>5
    <2>3. CASE Refuse(k) \/ Transcribe(k) \/ Token(k) \/ TurnFails(k) \/ SynthesisFails(k) \/ Done(k)
      BY <2>2, <2>3 DEF Refuse, Transcribe, Token, TurnFails, SynthesisFails, Done, Events
    <2>4. QED
      BY <1>4, <2>1, <2>3 DEF ServerStep, Acquire, SkipInput, PersistCandidate, PersistReply,
         Release, InstanceDies
  <1>5. ASSUME NEW k \in Submits, EventStep(k) PROVE WiresInOrder'
    <2>1. UNCHANGED <<turnStage, input>> /\ streams' \subseteq streams
      BY <1>5 DEF EventStep, TranscriptionResult, InterviewerToken, InterviewerDone, TurnError,
            StreamBreaks, StreamThrows, Handle
    <2>2. CASE wire' = [wire EXCEPT ![k] = <<>>]
      BY <2>1, <2>2
    <2>3. ASSUME NEW event \in Events, Handle(k, event) PROVE WiresInOrder'
      <3>1. /\ wire' \in [Submits -> Seq(Events)] /\ \A l \in Submits \ {k} : wire'[l] = wire[l]
            /\ Len(wire'[k]) = Len(wire[k]) - 1 /\ Len(wire[k]) \in Nat \ {0} /\ k \in streams
            /\ \A i \in 1..Len(wire'[k]) : wire'[k][i] = wire[k][i + 1]
        BY <2>3, HandleEffect
      <3>2. DOMAIN wire[k] = 1..Len(wire[k]) /\ DOMAIN wire'[k] = 1..Len(wire'[k])
        BY <3>1
      <3>3. ASSUME NEW i \in DOMAIN wire'[k], wire'[k][i] = "done"
            PROVE  i = Len(wire'[k]) /\ turnStage'[k] = "over"
        <4>1. i + 1 \in DOMAIN wire[k] /\ wire[k][i + 1] = "done"
          BY <3>1, <3>2, <3>3
        <4>2. i + 1 = Len(wire[k]) /\ turnStage[k] = "over"
          BY <4>1
        <4>3. QED
          BY <2>1, <3>1, <3>2, <4>2
      <3>4. QED
        BY <2>1, <3>1, <3>3
    <2>4. QED
      BY <1>5, <2>2, <2>3 DEF EventStep, TranscriptionResult, InterviewerToken, InterviewerDone,
         TurnError,
            StreamBreaks, Events
  <1>6. CASE UNCHANGED clientVars
    BY <1>6 DEF clientVars
  <1>7. QED
    BY <1>1, <1>2, <1>3, <1>4, <1>5, <1>6 DEF ClientNext

\* A page that loads finds no turn that it does not see.
LEMMA LoadKept == ClientInv /\ [ClientNext]_clientVars => LoadInOrder'
  <1> SUFFICES ASSUME ClientInv, [ClientNext]_clientVars PROVE LoadInOrder'
    OBVIOUS
  <1> USE DEF ClientInv, ClientTypes, LoadInOrder, GoesOn, Generating, Working, serverVars, pageVars,
              loadVars, historyVars
  <1>1. CASE LoadStep
    <2>1. CASE Reload
      BY <2>1 DEF Reload
    <2>2. CASE GetMessagesBySession
      <3>0. /\ load = "read" /\ read # "generating" /\ load' = "done" /\ mishap' = mishap
            /\ page' = PageFor(read)
        BY <2>2 DEF GetMessagesBySession
      <3>1. CASE UNCHANGED <<turnStage, input, streams>>
        BY <3>0, <3>1 DEF PageFor, Over
      <3>2. ASSUME NEW k \in Submits, Call(k, "opening"), PageFor(read) = "waiting"
            PROVE  LoadInOrder'
        BY <3>0, <3>2 DEF Call, PageFor, Over
      <3>3. QED
        BY <2>2, <3>1, <3>2 DEF GetMessagesBySession
    <2>3. CASE GetSessionForTurn
      BY <2>3 DEF GetSessionForTurn, StatusStringToProto, StatusIsHeld, Over
    <2>4. CASE PollAgain \/ LoadFails
      BY <2>4 DEF PollAgain, LoadFails, Suffers, Mishaps
    <2>5. QED
      BY <1>1, <2>1, <2>2, <2>3, <2>4 DEF LoadStep
  <1>2. CASE EndStep \/ CleanupStaleGenerating
    <2>1. UNCHANGED <<load, read, streams, messages, streamingText, mishap, dropped, turnStage>>
      BY <1>2 DEF EndStep, DoEndSession, DoCancelSession, WaitForGeneration, SessionOver, EndFails,
            CleanupStaleGenerating, TurnVars
    <2>2. page' \notin {"ended", "cancelled"} => page \notin {"ended", "cancelled"}
      BY <1>2 DEF EndStep, DoEndSession, DoCancelSession, WaitForGeneration, SessionOver, EndFails,
            CleanupStaleGenerating, TurnVars
    <2>3. QED
      BY <2>1, <2>2
  <1>3. ASSUME NEW k \in Submits, SendText(k) \/ SendAudio(k) PROVE LoadInOrder'
    <2>1. /\ load = "done" /\ page = "waiting" /\ load' = load
          /\ mishap' = "none" => mishap = "none"
      BY <1>3 DEF SendText, SendAudio, Hurried, Suffers, Mishaps
    <2>2. streams' = streams \cup {k} /\ \A l \in Submits \ {k} : turnStage'[l] = turnStage[l]
      BY <1>3 DEF SendText, SendAudio, Call
    <2>3. QED
      BY <2>1, <2>2
  <1>4. ASSUME NEW k \in Submits, ServerStep(k) PROVE LoadInOrder'
    <2>1. /\ UNCHANGED <<load, read, page, streams, messages, streamingText>>
          /\ \A l \in Submits \ {k} : turnStage'[l] = turnStage[l]
          /\ mishap' = "none" => mishap = "none"
      BY <1>4 DEF ServerStep, Acquire, Refuse, SkipInput, Transcribe, PersistCandidate, Token,
            TurnFails, SynthesisFails, PersistReply, Release, Done, InstanceDies, Stage, TurnVars,
            Suffers, Mishaps
    <2>2. load # "done" => dropped' = dropped
      BY <1>4 DEF ServerStep, Acquire, Refuse, SkipInput, Transcribe, PersistCandidate, Token,
            TurnFails, SynthesisFails, PersistReply, Release, Done, InstanceDies
    <2>3. ASSUME GoesOn', k \notin streams PROVE turnStage'[k] \notin Generating
      <3>1. GoesOn /\ turnStage[k] \notin Generating
        BY <2>1, <2>3
      <3>2. CASE Acquire(k)
        <4>1. Decided
          BY <3>1 DEF Decided
        <4>2. mishap' # "none"
          BY <2>3, <3>2, <4>1 DEF Acquire, Suffers, Mishaps
        <4>3. QED
          BY <2>3, <4>2
      <3>3. QED
        BY <1>4, <3>1, <3>2 DEF ServerStep, Refuse, SkipInput, Transcribe, PersistCandidate, Token,
            TurnFails, SynthesisFails, PersistReply, Release, Done, InstanceDies, Stage
    <2>4. QED
      BY <2>1, <2>2, <2>3
  <1>5. ASSUME NEW k \in Submits, EventStep(k) PROVE LoadInOrder'
    <2>1. /\ k \in streams /\ UNCHANGED <<load, read, turnStage, dropped>>
          /\ mishap' = "none" => mishap = "none"
      BY <1>5 DEF EventStep, TranscriptionResult, InterviewerToken, InterviewerDone, TurnError,
            StreamBreaks, StreamThrows, Handle, Suffers, Mishaps
    <2>2. CASE streams' = streams
      BY <2>1, <2>2
    <2>3. CASE InterviewerDone(k)
      <3>1. wire[k] # <<>> /\ wire[k][1] = "done" /\ streams' = streams \ {k}
        BY <2>3, HandleEffect DEF InterviewerDone
      <3>2. turnStage[k] = "over"
        BY <3>1 DEF WiresInOrder
      <3>3. QED
        BY <2>1, <3>1, <3>2
    <2>4. CASE StreamThrows(k)
      BY <2>1, <2>4 DEF StreamThrows, Suffers, Mishaps
    <2>5. QED
      BY <1>5, <2>2, <2>3, <2>4 DEF EventStep, TranscriptionResult, InterviewerToken, TurnError,
            StreamBreaks
  <1>6. CASE UNCHANGED clientVars
    BY <1>6 DEF clientVars
  <1>7. QED
    BY <1>1, <1>2, <1>3, <1>4, <1>5, <1>6 DEF ClientNext
-----------------------------------------------------------------------------
\* The server's step of another call changes nothing the page can see.
LEMMA OtherCallsAreQuiet ==
    ASSUME ClientInv, Shown, load = "done", GoesOn, NEW k \in Submits \ streams, ServerStep(k)
    PROVE  Shown'
  <1>1. turnStage[k] \notin Generating
    BY DEF ClientInv, LoadInOrder
  <1>2. /\ UNCHANGED <<transcript, messages, streamingText, dropped, input, streams, wire>>
        /\ \A l \in streams : turnStage'[l] = turnStage[l]
    BY <1>1 DEF ServerStep, Acquire, Refuse, SkipInput, Transcribe, PersistCandidate, Token,
       TurnFails, SynthesisFails, PersistReply, Release, Done, InstanceDies, Stage, TurnVars,
       pageVars, serverVars, historyVars, Generating, Working, Emits, ClientInv, ClientTypes
  <1>3. QED
    BY <1>2 DEF Shown, Doomed, InStep, Heard, Unanswered

\* A stream that will end in a failure still will.
LEMMA DoomedStaysDoomed ==
    ASSUME ClientInv, NEW k \in streams, ServerStep(k), Doomed(k)
    PROVE  Doomed(k)'
  <1> k \in Submits
    BY DEF ClientInv, ClientTypes
  <1>1. CASE turnStage[k] = "dead"
    BY <1>1 DEF ServerStep, Acquire, Refuse, SkipInput, Transcribe, PersistCandidate, Token,
       TurnFails, SynthesisFails, PersistReply, Release, Done, InstanceDies, Stage, Working
  <1>2. ASSUME NEW i \in DOMAIN wire[k], wire[k][i] \in {"error", "refused"}
        PROVE  Doomed(k)'
    <2>1. CASE UNCHANGED wire
      BY <1>2, <2>1 DEF Doomed
    <2>2. ASSUME NEW event \in Events, Emits(k, event) PROVE Doomed(k)'
      <3>1. /\ wire'[k] \in Seq(Events) /\ wire[k] \in Seq(Events)
            /\ Len(wire'[k]) = Len(wire[k]) + 1
            /\ \A j \in 1..Len(wire[k]) : wire'[k][j] = wire[k][j]
        BY <2>2, EmitsEffect DEF ClientInv, ClientTypes
      <3>2. i \in DOMAIN wire'[k] /\ wire'[k][i] = wire[k][i]
        BY <1>2, <3>1
      <3>3. QED
        BY <1>2, <3>2 DEF Doomed
    <2>3. QED
      BY <2>1, <2>2 DEF ServerStep, Acquire, Refuse, SkipInput, Transcribe, PersistCandidate, Token,
         TurnFails, SynthesisFails, PersistReply, Release, Done, InstanceDies, Events
  <1>3. QED
    BY <1>1, <1>2 DEF Doomed

\* An error or a refusal ends a stream in a failure.
LEMMA ErrorsDoom ==
    ASSUME ClientInv, NEW k \in streams, NEW event \in {"error", "refused"}, Emits(k, event)
    PROVE  Doomed(k)'
  <1>1. /\ k \in Submits /\ event \in Events
    BY DEF ClientInv, ClientTypes, Events
  <1>2. /\ wire'[k] \in Seq(Events) /\ wire[k] \in Seq(Events)
        /\ Len(wire'[k]) = Len(wire[k]) + 1 /\ wire'[k][Len(wire[k]) + 1] = event
    BY <1>1, EmitsEffect DEF ClientInv, ClientTypes
  <1>3. Len(wire[k]) + 1 \in DOMAIN wire'[k]
    BY <1>2
  <1>4. QED
    BY <1>2, <1>3 DEF Doomed

\* The server's step of the page's own call keeps the stream in step.
LEMMA ServerStaysInStep ==
    ASSUME ClientInv, NEW k \in streams, ServerStep(k), InStep(k)
    PROVE  Doomed(k)' \/ InStep(k)'
  <1>1. /\ k \in Submits /\ turnStage[k] \in Stages /\ wire[k] \in Seq(Events)
        /\ turnStage \in [Submits -> Stages] /\ wire \in [Submits -> Seq(Events)]
    BY DEF ClientInv, ClientTypes
  <1>2. UNCHANGED <<input, messages, streamingText>>
    BY DEF ServerStep, Acquire, Refuse, SkipInput, Transcribe, PersistCandidate, Token,
       TurnFails, SynthesisFails, PersistReply, Release, Done, InstanceDies, TurnVars, pageVars
  <1>15. Acquire(k) \/ Transcribe(k) \/ PersistCandidate(k) \/ Token(k) \/ PersistReply(k)
             \/ Release(k) \/ Done(k) => dropped' = dropped
    BY DEF Acquire, Transcribe, PersistCandidate, Token, PersistReply, Release, Done, historyVars
  <1>3. CASE Refuse(k) \/ TurnFails(k) \/ SynthesisFails(k)
    BY <1>3, ErrorsDoom DEF Refuse, TurnFails, SynthesisFails
  <1>4. CASE InstanceDies(k)
    BY <1>1, <1>4 DEF InstanceDies, Stage, Doomed
  <1>5. CASE Acquire(k)
    BY <1>1, <1>2, <1>5, <1>15 DEF Acquire, Stage, InStep, Unanswered
  <1>6. CASE SkipInput(k)
    <2>1. /\ turnStage[k] = "acquired" /\ turnStage'[k] = "replying" /\ UNCHANGED <<transcript, wire>>
          /\ wire[k] = <<>> /\ streamingText = <<>>
      BY <1>1, <1>6 DEF SkipInput, Stage, ClientInv, WiresInOrder, InStep
    <2>2. RemoveAt(messages', dropped') = transcript
      <3>1. CASE input[k] = "text"
        <4>1. Unanswered /\ dropped' = Len(messages)
          BY <1>6, <3>1 DEF SkipInput
        <4>2. dropped = 0 /\ RemoveAt(messages, 0) = Append(transcript, Said(k))
          BY <2>1, <3>1, <4>1 DEF InStep
        <4>3. messages = Append(transcript, Said(k)) /\ transcript \in Seq(Entries)
          BY <4>2, RemoveNothing DEF ClientInv, MessageTypes
        <4>4. Said(k) \in Entries
          BY <1>1, ClientAssumption DEF Said, Entries, Submits
        <4>5. Len(messages) = Len(transcript) + 1
          BY <4>3, <4>4, AppendProperties
        <4>6. RemoveAt(messages, Len(messages)) = transcript
          BY <4>3, <4>4, <4>5, RemoveLast
        <4>7. QED
          BY <1>2, <4>1, <4>6
      <3>2. CASE input[k] # "text"
        BY <1>2, <1>6, <2>1, <3>2 DEF SkipInput, InStep
      <3>3. QED
        BY <3>1, <3>2
    <2>3. Heard(k)' = RemoveAt(messages', dropped')
      BY <2>1 DEF Heard
    <2>4. QED
      BY <1>2, <2>1, <2>2, <2>3 DEF InStep
  <1>7. CASE PersistCandidate(k)
    <2>1. input[k] \in {"text", "voice"}
      BY <1>1, <1>7 DEF ClientInv, ClientTypes, WiresInOrder, PersistCandidate, Stage
    <2>2. /\ turnStage'[k] = "replying" /\ transcript' = Append(transcript, Said(k)) /\ wire' = wire
          /\ turnStage[k] = IF input[k] = "voice" THEN "heard" ELSE "acquired"
      BY <1>1, <1>7 DEF PersistCandidate, Stage
    <2>3. CASE input[k] = "text"
      <3>1. wire[k] = <<>>
        BY <1>1, <2>2, <2>3 DEF ClientInv, WiresInOrder
      <3>2. QED
        BY <1>2, <1>7, <1>15, <2>2, <2>3, <3>1 DEF InStep, Heard
    <2>4. CASE input[k] = "voice"
      BY <1>2, <1>7, <1>15, <2>2, <2>4 DEF InStep, Heard
    <2>5. QED
      BY <2>1, <2>3, <2>4
  <1>8. CASE Release(k)
    BY <1>1, <1>2, <1>8, <1>15 DEF Release, Stage, InStep, Heard
  <1>9. CASE PersistReply(k)
    BY <1>1, <1>2, <1>9, <1>15 DEF PersistReply, Stage, InStep, Heard
  <1>10. ASSUME NEW event \in Events, Emits(k, event)
         PROVE  /\ wire'[k] \in Seq(Events) /\ Len(wire[k]) \in Nat
                /\ Len(wire'[k]) = Len(wire[k]) + 1 /\ wire'[k][Len(wire[k]) + 1] = event
                /\ \A i \in 1..Len(wire[k]) : wire'[k][i] = wire[k][i]
    BY <1>1, <1>10, EmitsEffect DEF ClientInv
  <1>11. CASE Transcribe(k)
    <2>1. Len(wire'[k]) = Len(wire[k]) + 1 /\ wire'[k][Len(wire[k]) + 1] = "transcription"
      BY <1>10, <1>11 DEF Transcribe, Events
    <2>2. wire[k] = <<>> /\ streamingText = <<>> /\ RemoveAt(messages, dropped) = transcript
      BY <1>1, <1>11 DEF Transcribe, Stage, InStep, ClientInv, WiresInOrder
    <2>3. Len(wire'[k]) = 1 /\ wire'[k][1] = "transcription" /\ wire'[k] # <<>>
      BY <2>1, <2>2
    <2>4. turnStage'[k] = "heard" /\ transcript' = transcript
      BY <1>1, <1>11 DEF Transcribe, Stage
    <2>5. dropped' = dropped
      BY <1>11, <1>15
    <2>6. QED
      BY <1>2, <2>2, <2>3, <2>4, <2>5 DEF InStep, Heard
  <1>12. CASE Token(k)
    <2>1. /\ Len(wire'[k]) = Len(wire[k]) + 1 /\ wire'[k][Len(wire[k]) + 1] = "token"
          /\ \A i \in 1..Len(wire[k]) : wire'[k][i] = wire[k][i]
      BY <1>10, <1>12 DEF Token, Events
    <2>2. /\ streamingText = <<>> /\ Heard(k) = transcript
          /\ wire[k] = <<>> \/ (Len(wire[k]) = 1 /\ wire[k][1] = "transcription")
      BY <1>12 DEF Token, Stage, InStep
    <2>3. turnStage'[k] = "replied" /\ transcript' = transcript
      BY <1>1, <1>12 DEF Token, Stage
    <2>4. /\ \/ Len(wire'[k]) = 2 /\ wire'[k][1] = "transcription" /\ wire'[k][2] = "token"
             \/ Len(wire'[k]) = 1 /\ wire'[k][1] = "token"
          /\ wire'[k] # <<>>
      BY <2>1, <2>2
    <2>5. Heard(k)' = Heard(k)
      BY <1>2, <1>12, <1>15, <2>1, <2>2, <2>4 DEF Heard
    <2>6. QED
      BY <1>2, <2>2, <2>3, <2>4, <2>5 DEF InStep
  <1>13. CASE Done(k)
    <2>1. /\ Len(wire'[k]) = Len(wire[k]) + 1 /\ wire'[k][Len(wire[k]) + 1] = "done"
          /\ \A i \in 1..Len(wire[k]) : wire'[k][i] = wire[k][i] /\ Len(wire[k]) \in Nat
      BY <1>10, <1>13 DEF Done, Events
    <2>2. turnStage[k] = "released" /\ turnStage'[k] = "over" /\ transcript' = transcript
      BY <1>1, <1>13 DEF Done, Stage
    <2>3. /\ \/ /\ Len(wire[k]) = 2 /\ wire[k][1] = "transcription" /\ wire[k][2] = "token"
                /\ streamingText = <<>>
             \/ Len(wire[k]) = 1 /\ wire[k][1] = "token" /\ streamingText = <<>>
             \/ Len(wire[k]) = 0 /\ streamingText = <<k>>
          /\ transcript = Append(Heard(k), Replied(k))
      BY <2>2 DEF InStep
    <2>4. /\ \/ /\ Len(wire'[k]) = 3 /\ wire'[k][1] = "transcription" /\ wire'[k][2] = "token"
                /\ streamingText = <<>>
             \/ Len(wire'[k]) = 2 /\ wire'[k][1] = "token" /\ streamingText = <<>>
             \/ Len(wire'[k]) = 1 /\ streamingText = <<k>>
          /\ wire'[k][Len(wire'[k])] = "done"
      BY <2>1, <2>3
    <2>5. Heard(k)' = Heard(k)
      BY <1>1, <1>2, <1>13, <1>15, <2>1, <2>3, <2>4 DEF Heard
    <2>6. QED
      BY <1>2, <2>2, <2>3, <2>4, <2>5 DEF InStep
  <1>14. QED
    BY <1>3, <1>4, <1>5, <1>6, <1>7, <1>8, <1>9, <1>11, <1>12, <1>13 DEF ServerStep

\* The page handles an event of the one stream it has.
LEMMA EventsKeepInStep ==
    ASSUME ClientInv, Shown, mishap' = "none", NEW k \in streams, EventStep(k)
    PROVE  Shown'
  <1>1. /\ k \in Submits /\ turnStage[k] \in Stages /\ wire[k] \in Seq(Events)
        /\ messages \in Seq(Entries) /\ dropped \in 0..Len(messages)
        /\ Said(k) \in Entries /\ Replied(k) \in Entries
    <2>1. k \in Submits /\ k \in Nat
      BY ClientAssumption DEF ClientInv, ClientTypes, Submits
    <2>2. Said(k) \in Entries /\ Replied(k) \in Entries
      BY <2>1 DEF Said, Replied, Entries
    <2>3. QED
      BY <2>1, <2>2 DEF ClientInv, ClientTypes, MessageTypes
  <1>2. streams = {k}
    BY DEF Shown
  <1>3. UNCHANGED <<turnStage, transcript, input, dropped>>
    BY DEF EventStep, TranscriptionResult, InterviewerToken, InterviewerDone, TurnError,
       StreamBreaks, StreamThrows, Handle, serverVars, historyVars
  <1>11. ASSUME NEW e \in Entries, messages' = Append(messages, e)
         PROVE  /\ RemoveAt(messages', dropped') = Append(RemoveAt(messages, dropped), e)
                /\ dropped' # 0 => messages'[dropped'].role = "candidate"
    <2>1. RemoveAt(messages', dropped') = Append(RemoveAt(messages, dropped), e)
      BY <1>1, <1>3, <1>11, RemoveBefore
    <2>2. dropped # 0 => messages'[dropped] = messages[dropped]
      BY <1>1, <1>11, AppendProperties
    <2>3. QED
      BY <1>3, <2>1, <2>2 DEF Shown
  <1>4. ASSUME NEW event, Handle(k, event)
        PROVE  /\ wire[k] # <<>> /\ wire[k][1] = event
               /\ wire'[k] \in Seq(Events)
               /\ Len(wire'[k]) = Len(wire[k]) - 1 /\ Len(wire[k]) \in Nat \ {0}
               /\ \A i \in 1..Len(wire'[k]) : wire'[k][i] = wire[k][i + 1]
    BY <1>1, <1>4, HandleEffect DEF ClientInv
  <1>5. ASSUME NEW event \in {"transcription", "token"}, Handle(k, event), Doomed(k)
        PROVE  Doomed(k)'
    <2>1. CASE turnStage[k] = "dead"
      BY <1>3, <2>1 DEF Doomed
    <2>2. ASSUME NEW i \in DOMAIN wire[k], wire[k][i] \in {"error", "refused"}
          PROVE  Doomed(k)'
      <3>1. i # 1 /\ i \in 1..Len(wire[k])
        BY <1>1, <1>4, <1>5, <2>2
      <3>2. i - 1 \in 1..Len(wire'[k]) /\ (i - 1) + 1 = i
        BY <1>4, <1>5, <3>1
      <3>3. wire'[k][i - 1] = wire[k][i] /\ i - 1 \in DOMAIN wire'[k]
        BY <1>4, <1>5, <3>2
      <3>4. QED
        BY <2>2, <3>3 DEF Doomed
    <2>3. QED
      BY <1>5, <2>1, <2>2 DEF Doomed
  <1>6. CASE TranscriptionResult(k)
    <2>1. /\ Handle(k, "transcription") /\ streams' = streams /\ messages' = Append(messages, Said(k))
          /\ dropped' # 0 => messages'[dropped'].role = "candidate"
          /\ RemoveAt(messages', dropped') = Append(RemoveAt(messages, dropped), Said(k))
      BY <1>1, <1>6, <1>11 DEF TranscriptionResult
    <2>2. CASE Doomed(k)
      BY <1>2, <1>5, <2>1, <2>2 DEF Shown
    <2>3. CASE InStep(k)
      <3>1. /\ wire[k] # <<>> /\ wire[k][1] = "transcription"
            /\ Len(wire'[k]) = Len(wire[k]) - 1 /\ Len(wire[k]) \in Nat \ {0}
            /\ \A i \in 1..Len(wire'[k]) : wire'[k][i] = wire[k][i + 1]
            /\ wire'[k] \in Seq(Events)
        BY <1>4, <2>1
      <3>2. Heard(k) = RemoveAt(messages', dropped') /\ streamingText' = streamingText
        BY <1>6, <2>1, <3>1 DEF Heard, TranscriptionResult
      <3>3. CASE turnStage[k] \in {"heard", "replying"}
        <4>1. wire'[k] = <<>> /\ streamingText = <<>>
          BY <2>3, <3>1, <3>3 DEF InStep
        <4>2. Heard(k)' = Heard(k)
          BY <3>2, <4>1 DEF Heard
        <4>3. InStep(k)'
          BY <1>3, <2>3, <3>2, <3>3, <4>1, <4>2 DEF InStep
        <4>4. QED
          BY <1>2, <2>1, <4>3 DEF Shown
      <3>4. CASE turnStage[k] \in {"replied", "stored", "released", "over"}
        <4> DEFINE last == IF turnStage[k] = "over" THEN 1 ELSE 0
        <4>1. Len(wire[k]) = 2 + last /\ wire[k][2] = "token" /\ streamingText = <<>>
              /\ (turnStage[k] = "over" => wire[k][Len(wire[k])] = "done")
          BY <2>3, <3>1, <3>4 DEF InStep
        <4>2. /\ Len(wire'[k]) = 1 + last /\ wire'[k][1] = "token" /\ wire'[k] # <<>>
              /\ (turnStage[k] = "over" => wire'[k][Len(wire'[k])] = "done")
          BY <3>1, <4>1
        <4>3. Heard(k)' = Heard(k)
          BY <3>2, <4>2 DEF Heard
        <4>4. InStep(k)'
          BY <1>3, <2>3, <3>2, <3>4, <4>1, <4>2, <4>3 DEF InStep
        <4>5. QED
          BY <1>2, <2>1, <4>4 DEF Shown
      <3>5. CASE turnStage[k] \in {"sent", "acquired"}
        BY <1>1, <3>1, <3>5 DEF ClientInv, WiresInOrder
      <3>6. CASE turnStage[k] \in {"none", "dead"}
        <4>1. turnStage'[k] = "dead"
          BY <1>1, <1>3, <3>6 DEF ClientInv, WiresInOrder
        <4>2. Doomed(k)'
          BY <4>1 DEF Doomed
        <4>3. QED
          BY <1>2, <2>1, <4>2 DEF Shown
      <3>7. QED
        BY <1>1, <3>3, <3>4, <3>5, <3>6 DEF Stages, Working
    <2>4. QED
      BY <2>2, <2>3 DEF Shown
  <1>7. CASE InterviewerToken(k)
    <2>1. /\ Handle(k, "token") /\ streams' = streams /\ messages' = messages
          /\ dropped' # 0 => messages'[dropped'].role = "candidate"
      BY <1>3, <1>7 DEF InterviewerToken, Shown
    <2>2. CASE Doomed(k)
      BY <1>2, <1>5, <2>1, <2>2 DEF Shown
    <2>3. CASE InStep(k) /\ ~Doomed(k)
      <3>1. /\ wire[k] # <<>> /\ wire[k][1] = "token"
            /\ Len(wire'[k]) = Len(wire[k]) - 1 /\ Len(wire[k]) \in Nat \ {0}
            /\ \A i \in 1..Len(wire'[k]) : wire'[k][i] = wire[k][i + 1]
            /\ wire'[k] \in Seq(Events)
        BY <1>4, <2>1
      <3>2. turnStage[k] \in {"replied", "stored", "released", "over"}
        BY <1>1, <2>3, <3>1 DEF InStep, Doomed, Stages, Working, ClientInv, WiresInOrder
      <3> DEFINE last == IF turnStage[k] = "over" THEN 1 ELSE 0
      <3>3. Len(wire[k]) = 1 + last /\ streamingText = <<>>
            /\ (turnStage[k] = "over" => wire[k][Len(wire[k])] = "done")
        BY <2>3, <3>1, <3>2 DEF InStep
      <3>4. Len(wire'[k]) = last /\ (turnStage[k] = "over" => wire'[k][Len(wire'[k])] = "done")
        BY <3>1, <3>3
      <3>5. streamingText' = <<k>> /\ messages' = messages
        BY <1>7, <3>3 DEF InterviewerToken
      <3>6. Heard(k)' = Heard(k)
        BY <1>3, <3>1, <3>4, <3>5 DEF Heard
      <3>7. InStep(k)'
        BY <1>3, <2>3, <3>2, <3>4, <3>5, <3>6 DEF InStep
      <3>8. QED
        BY <1>2, <2>1, <3>7 DEF Shown
    <2>4. QED
      BY <2>2, <2>3 DEF Shown
  <1>8. CASE InterviewerDone(k)
    <2>1. /\ wire[k] # <<>> /\ wire[k][1] = "done" /\ Len(wire[k]) \in Nat \ {0}
      BY <1>4, <1>8 DEF InterviewerDone
    <2>2. 1 = Len(wire[k]) /\ turnStage[k] = "over"
      <3>1. 1 \in DOMAIN wire[k]
        BY <1>1, <2>1
      <3>2. QED
        BY <1>1, <2>1, <3>1 DEF ClientInv, WiresInOrder
    <2>3. ~Doomed(k)
      BY <1>1, <2>1, <2>2 DEF Doomed
    <2>4. InStep(k)
      BY <2>3 DEF Shown
    <2>5. streamingText = <<k>> /\ transcript = Append(RemoveAt(messages, dropped), Replied(k))
      BY <2>1, <2>2, <2>4 DEF InStep, Heard
    <2>6. messages' = Append(messages, Replied(k)) /\ streamingText' = <<>> /\ streams' = {}
      BY <1>2, <1>8, <2>5 DEF InterviewerDone, Replied
    <2>7. /\ RemoveAt(messages', dropped') = transcript'
          /\ dropped' # 0 => messages'[dropped'].role = "candidate"
      BY <1>1, <1>3, <1>11, <2>5, <2>6
    <2>8. ~Unanswered'
      <3>1. RemoveAt(messages, dropped) \in Seq(Entries)
        BY <1>1, RemoveType
      <3>2. transcript[Len(transcript)] = Replied(k)
        BY <1>1, <2>5, <3>1, AppendProperties
      <3>3. QED
        BY <1>3, <3>2 DEF Unanswered, Replied
    <2>9. QED
      BY <1>3, <2>6, <2>7, <2>8 DEF Shown
  <1>9. CASE TurnError(k) \/ StreamBreaks(k)
    BY <1>9 DEF TurnError, StreamBreaks, StreamThrows, Suffers
  <1>10. QED
    BY <1>6, <1>7, <1>8, <1>9 DEF EventStep

\* An answer is sent only when the page has nothing under way, or in haste.
LEMMA AnswersBeginInStep ==
    ASSUME ClientInv, Shown, mishap' = "none", NEW k \in Submits, SendText(k) \/ SendAudio(k)
    PROVE  Shown'
  <1>1. streams = {}
    <2>1. \A l \in streams : Settled(l)
      BY DEF SendText, SendAudio, Hurried, Suffers
    <2>2. ASSUME NEW l \in streams PROVE FALSE
      <3>1. turnStage[l] = "over" /\ wire[l] = <<>>
        BY <2>1 DEF Settled
      <3>2. Len(wire[l]) = 0 /\ ~Doomed(l)
        BY <3>1 DEF Doomed
      <3>3. QED
        BY <3>1, <3>2 DEF Shown, InStep
    <2>3. QED
      BY <2>2
  <1>2. /\ RemoveAt(messages, dropped) = transcript /\ streamingText = <<>>
        /\ dropped # 0 => ~Unanswered /\ messages[dropped].role = "candidate"
        /\ UNCHANGED <<transcript, streamingText, wire, dropped>>
    BY <1>1 DEF Shown, SendText, SendAudio, Hurried
  <1>3. streams' = {k} /\ turnStage'[k] = "sent" /\ wire[k] = <<>>
    BY <1>1 DEF ClientInv, ClientTypes, WiresInOrder, SendText, SendAudio, Call
  <1>4. /\ messages \in Seq(Entries) /\ dropped \in 0..Len(messages) /\ Said(k) \in Entries
    BY ClientAssumption DEF ClientInv, MessageTypes, Said, Entries, Submits
  <1>5. CASE SendText(k)
    <2>1. messages' = Append(messages, Said(k)) /\ input'[k] = "text"
      BY <1>5 DEF SendText, Call, ClientInv, ClientTypes
    <2>2. RemoveAt(messages', dropped') = Append(transcript, Said(k))
      BY <1>2, <1>4, <2>1, RemoveBefore
    <2>3. /\ messages' # <<>> /\ messages'[Len(messages')] = Said(k)
          /\ dropped # 0 => messages'[dropped] = messages[dropped]
      BY <1>4, <2>1, AppendProperties
    <2>4. InStep(k)'
      BY <1>2, <1>3, <2>1, <2>2, <2>3 DEF InStep, Unanswered
    <2>5. QED
      BY <1>2, <1>3, <2>3, <2>4 DEF Shown
  <1>6. CASE SendAudio(k)
    <2>1. messages' = messages /\ input'[k] = "voice"
      BY <1>6 DEF SendAudio, Call, ClientInv, ClientTypes
    <2>2. InStep(k)'
      BY <1>2, <1>3, <2>1 DEF InStep, Unanswered
    <2>3. QED
      BY <1>2, <1>3, <2>1, <2>2 DEF Shown
  <1>7. QED
    BY <1>5, <1>6

\* A text that the server drops is the last that the page shows.
LEMMA DroppedIsCandidate ==
    ASSUME ClientInv, Shown, NEW k \in streams, ServerStep(k)
    PROVE  dropped' # 0 => messages'[dropped'].role = "candidate"
  <1>1. messages' = messages /\ k \in Submits
    BY DEF ServerStep, Acquire, Refuse, SkipInput, Transcribe, PersistCandidate, Token,
       TurnFails, SynthesisFails, PersistReply, Release, Done, InstanceDies, TurnVars, pageVars,
       ClientInv, ClientTypes
  <1>2. CASE SkipInput(k) /\ input[k] = "text"
    <2>1. turnStage[k] = "acquired" /\ wire[k] = <<>> /\ dropped' = Len(messages)
      BY <1>1, <1>2 DEF SkipInput, Stage, ClientInv, WiresInOrder
    <2>2. InStep(k)
      BY <2>1 DEF Shown, Doomed
    <2>3. messages[Len(messages)] = Said(k)
      BY <1>2, <2>1, <2>2 DEF InStep
    <2>4. QED
      BY <1>1, <2>1, <2>3 DEF Said
  <1>3. CASE ~(SkipInput(k) /\ input[k] = "text")
    <2>1. dropped' = dropped
      BY <1>3 DEF ServerStep, Acquire, Refuse, SkipInput, Transcribe, PersistCandidate, Token,
         TurnFails, SynthesisFails, PersistReply, Release, Done, InstanceDies, historyVars
    <2>2. QED
      BY <1>1, <2>1 DEF Shown
  <1>4. QED
    BY <1>2, <1>3

\* Whatever turn, event or load, the page stays in step.
LEMMA PageKept == ClientInv /\ [ClientNext]_clientVars => PageInStep'
  <1> SUFFICES ASSUME ClientInv, [ClientNext]_clientVars, load' = "done", GoesOn' PROVE Shown'
    BY DEF PageInStep
  <1>0. CASE UNCHANGED <<turnStage, wire, input, streams, messages, streamingText, transcript, load,
                         mishap, dropped>>
             /\ (page' \notin {"ended", "cancelled"} => page \notin {"ended", "cancelled"})
    <2>1. Shown
      BY <1>0 DEF ClientInv, PageInStep, GoesOn
    <2>2. QED
      BY <1>0, <2>1 DEF Shown, Doomed, InStep, Heard, Unanswered
  <1>1. CASE LoadStep
    <2>1. GetMessagesBySession
      BY <1>1 DEF LoadStep, Reload, GetSessionForTurn, PollAgain, LoadFails
    <2>2. /\ streams = {} /\ streamingText = <<>> /\ streamingText' = <<>> /\ dropped' = 0
          /\ transcript' = transcript /\ messages' = transcript /\ wire' = wire
      BY <2>1 DEF GetMessagesBySession, historyVars, ClientInv, LoadInOrder
    <2>3. RemoveAt(messages', dropped') = transcript'
      BY <2>2, RemoveNothing DEF ClientInv, MessageTypes
    <2>4. CASE streams' = {}
      BY <2>2, <2>3, <2>4 DEF Shown
    <2>5. ASSUME NEW k \in Submits, Call(k, "opening"), transcript = <<>> PROVE Shown'
      <3>1. streams' = {k} /\ turnStage'[k] = "sent" /\ input'[k] = "opening"
        BY <2>2, <2>5 DEF Call, ClientInv, ClientTypes
      <3>2. InStep(k)'
        BY <2>2, <2>3, <2>5, <3>1 DEF InStep
      <3>3. QED
        BY <2>2, <3>1, <3>2 DEF Shown
    <2>6. QED
      BY <2>1, <2>2, <2>4, <2>5 DEF GetMessagesBySession
  <1>2. CASE EndStep \/ CleanupStaleGenerating
    BY <1>0, <1>2 DEF EndStep, DoEndSession, DoCancelSession, WaitForGeneration, SessionOver, EndFails,
       CleanupStaleGenerating, TurnVars, serverVars, pageVars, loadVars, endVars, historyVars
  <1>3. ASSUME NEW k \in Submits, SendText(k) \/ SendAudio(k) PROVE Shown'
    <2>1. load = "done" /\ GoesOn
      BY <1>3 DEF SendText, SendAudio, Hurried, Suffers, Mishaps, GoesOn, ClientInv, ClientTypes
    <2>2. mishap' = "none"
      BY DEF GoesOn
    <2>3. QED
      BY <1>3, <2>1, <2>2, AnswersBeginInStep DEF ClientInv, PageInStep
  <1>4. ASSUME NEW k \in Submits, ServerStep(k) PROVE Shown'
    <2>1. load = "done" /\ GoesOn /\ streams' = streams
      BY <1>4 DEF ServerStep, Acquire, Refuse, SkipInput, Transcribe, PersistCandidate, Token,
       TurnFails, SynthesisFails, PersistReply, Release, Done, InstanceDies, TurnVars, loadVars,
       pageVars, historyVars, Suffers, Mishaps, GoesOn
    <2>2. Shown
      BY <2>1 DEF ClientInv, PageInStep
    <2>3. CASE k \in streams
      <3>1. Doomed(k)' \/ InStep(k)'
        BY <1>4, <2>2, <2>3, DoomedStaysDoomed, ServerStaysInStep DEF Shown
      <3>2. streams' = {k}
        BY <2>1, <2>2, <2>3 DEF Shown
      <3>3. dropped' # 0 => messages'[dropped'].role = "candidate"
        BY <1>4, <2>2, <2>3, DroppedIsCandidate
      <3>4. QED
        BY <3>1, <3>2, <3>3 DEF Shown
    <2>4. CASE k \notin streams
      BY <1>4, <2>1, <2>2, <2>4, OtherCallsAreQuiet
    <2>5. QED
      BY <2>3, <2>4
  <1>5. ASSUME NEW k \in Submits, EventStep(k) PROVE Shown'
    <2>1. load = "done" /\ mishap' = "none" /\ mishap = "none" /\ k \in streams
      BY <1>5 DEF EventStep, TranscriptionResult, InterviewerToken, InterviewerDone, TurnError,
         StreamBreaks, StreamThrows, Handle, loadVars, historyVars, Suffers, Mishaps, GoesOn
    <2>2. Shown
      BY <2>1 DEF ClientInv, PageInStep, GoesOn
    <2>3. QED
      BY <1>5, <2>1, <2>2, EventsKeepInStep
  <1>6. CASE UNCHANGED clientVars
    BY <1>0, <1>6 DEF clientVars, serverVars, pageVars, loadVars, historyVars
  <1>7. QED
    BY <1>1, <1>2, <1>3, <1>4, <1>5, <1>6 DEF ClientNext
-----------------------------------------------------------------------------
\* Hence it always holds.
LEMMA ClientInvariant == ClientSpec => []ClientInv
  <1>1. ClientInv /\ [ClientNext]_clientVars => ClientInv'
    BY ClientTypesKept, MessageTypesKept, StatusKept, WiresKept, LoadKept, PageKept DEF ClientInv
  <1>2. QED
    BY <1>1, ClientInitInv, PTL DEF ClientSpec

(***************************************************************************)
(* A page that waits for the user shows the transcript as it is stored,    *)
(* for any number of calls and loads: the optimistic message, the          *)
(* transcription and the tokens come to what the server keeps, whatever    *)
(* the page before has left behind and whatever crashes. What it shows     *)
(* beyond that is one text at most, which the server has dropped without   *)
(* a word. Excepted is a page of which a call or a stream has failed, one  *)
(* whose user has answered before the opening question, and one behind     *)
(* whose back a call of the page before has begun a turn.                  *)
(***************************************************************************)
THEOREM PagesInSync == ClientSpec => []InSync
  <1>1. ClientInv => InSync
    <2> SUFFICES ASSUME ClientInv, load = "done", page = "waiting", mishap = "none",
                        \A k \in streams : Settled(k)
                 PROVE  /\ RemoveAt(messages, dropped) = transcript
                        /\ dropped # 0 => messages[dropped].role = "candidate"
      BY DEF InSync
    <2>1. Shown
      BY DEF ClientInv, PageInStep, GoesOn
    <2>2. ASSUME NEW k \in streams PROVE FALSE
      <3>1. turnStage[k] = "over" /\ wire[k] = <<>>
        BY DEF Settled
      <3>2. Len(wire[k]) = 0 /\ ~Doomed(k)
        BY <3>1 DEF Doomed
      <3>3. QED
        BY <2>1, <3>1, <3>2 DEF Shown, InStep
    <2>3. QED
      BY <2>1, <2>2 DEF Shown
  <1>2. QED
    BY <1>1, ClientInvariant, PTL
-----------------------------------------------------------------------------
(***************************************************************************)
(* The lists. The token is an offset: that a page misses nothing rests on  *)
(* rows that are never taken away from a list and never change their       *)
(* order.                                                                  *)
(***************************************************************************)
\* A part of a finite set that lacks something of another is smaller.
LEMMA PartsFinite ==
    ASSUME NEW S \in SUBSET Nat, IsFiniteSet(S), NEW a, NEW b, b \in S,
           NEW P \in SUBSET S, NEW Q \in SUBSET S, P \subseteq Q, b \in Q, b \notin P
    PROVE  /\ Cardinality(P) \in Nat /\ Cardinality(Q) \in Nat /\ Cardinality(P) < Cardinality(Q)
           /\ Cardinality(Q) \in 1..Cardinality(S)
  <1>1. /\ IsFiniteSet(P) /\ IsFiniteSet(Q) /\ Cardinality(P) \in Nat /\ Cardinality(Q) \in Nat
        /\ Cardinality(S) \in Nat /\ Cardinality(Q) <= Cardinality(S)
    BY FS_Subset, FS_CardinalityType
  <1>2. Cardinality(P) <= Cardinality(Q) /\ (Cardinality(P) = Cardinality(Q) => P = Q)
    BY <1>1, FS_Subset
  <1>3. Cardinality(P) # Cardinality(Q)
    BY <1>2
  <1>4. QED
    BY <1>1, <1>2, <1>3

\* The place of a row in each order.
Newer(S, i) == Cardinality({j \in S : j >= i})
Older(S, i) == Cardinality({j \in S : j <= i})

\* No two rows have the same.
LEMMA PlacesDiffer ==
    ASSUME NEW S \in SUBSET Nat, IsFiniteSet(S)
    PROVE  /\ \A i \in S : Newer(S, i) \in 1..Cardinality(S) /\ Older(S, i) \in 1..Cardinality(S)
           /\ \A i, k \in S : i < k => Newer(S, k) < Newer(S, i) /\ Older(S, i) < Older(S, k)
  <1>1. ASSUME NEW i \in S PROVE Newer(S, i) \in 1..Cardinality(S) /\ Older(S, i) \in 1..Cardinality(S)
    <2>1. i \in {j \in S : j >= i} /\ i \in {j \in S : j <= i}
      OBVIOUS
    <2>2. /\ {j \in S : j >= i} \in SUBSET S /\ {j \in S : j <= i} \in SUBSET S
          /\ {} \in SUBSET S /\ i \notin {} /\ {} \subseteq {j \in S : j >= i}
             /\ {} \subseteq {j \in S : j <= i}
      OBVIOUS
    <2>3. Cardinality({j \in S : j >= i}) \in 1..Cardinality(S)
      BY <2>1, <2>2, PartsFinite
    <2>4. Cardinality({j \in S : j <= i}) \in 1..Cardinality(S)
      BY <2>1, <2>2, PartsFinite
    <2>5. QED
      BY <2>3, <2>4 DEF Newer, Older
  <1>2. ASSUME NEW i \in S, NEW k \in S, i < k
        PROVE  Newer(S, k) < Newer(S, i) /\ Older(S, i) < Older(S, k)
    <2>1. \A j \in S : j \in Nat
      OBVIOUS
    <2>2. /\ {j \in S : j >= k} \subseteq {j \in S : j >= i} /\ i \in {j \in S : j >= i}
          /\ i \notin {j \in S : j >= k}
      <3>1. ASSUME NEW j \in S PROVE j >= k => j >= i
        BY <1>2, <2>1
      <3>2. i >= i /\ ~(i >= k)
        BY <1>2, <2>1
      <3>3. QED
        BY <3>1, <3>2
    <2>3. /\ {j \in S : j <= i} \subseteq {j \in S : j <= k} /\ k \in {j \in S : j <= k}
          /\ k \notin {j \in S : j <= i}
      <3>1. ASSUME NEW j \in S PROVE j <= i => j <= k
        BY <1>2, <2>1
      <3>2. k <= k /\ ~(k <= i)
        BY <1>2, <2>1
      <3>3. QED
        BY <3>1, <3>2
    <2>4. Cardinality({j \in S : j >= k}) < Cardinality({j \in S : j >= i})
      BY <2>2, PartsFinite
    <2>5. Cardinality({j \in S : j <= i}) < Cardinality({j \in S : j <= k})
      BY <2>3, PartsFinite
    <2>6. QED
      BY <2>4, <2>5 DEF Newer, Older
  <1>3. QED
    BY <1>1, <1>2

\* When rows come the place of none is nearer to the front.
LEMMA PlacesGrow ==
    ASSUME NEW S, NEW T, IsFiniteSet(T), S \subseteq T, NEW i
    PROVE  /\ Newer(S, i) <= Newer(T, i) /\ Older(S, i) <= Older(T, i)
           /\ {Newer(S, i), Newer(T, i), Older(S, i), Older(T, i)} \subseteq Nat
  <1>1. /\ {j \in T : j >= i} \in SUBSET T /\ {j \in T : j <= i} \in SUBSET T
        /\ {j \in S : j >= i} \in SUBSET {j \in T : j >= i}
        /\ {j \in S : j <= i} \in SUBSET {j \in T : j <= i}
    OBVIOUS
  <1>2. IsFiniteSet({j \in T : j >= i}) /\ IsFiniteSet({j \in T : j <= i})
    BY <1>1, FS_Subset
  <1>3. IsFiniteSet({j \in S : j >= i}) /\ IsFiniteSet({j \in S : j <= i})
    BY <1>1, <1>2, FS_Subset
  <1>4. QED
    BY <1>1, <1>2, <1>3, FS_Subset, FS_CardinalityType DEF Newer, Older

\* An order lists every row at its place, and nothing else.
LEMMA NewestFirstLists ==
    ASSUME NEW S \in SUBSET Nat, IsFiniteSet(S)
    PROVE  /\ NewestFirst(S) \in [1..Cardinality(S) -> S] /\ Cardinality(S) \in Nat
           /\ \A i \in S : Newer(S, i) \in 1..Cardinality(S) /\ NewestFirst(S)[Newer(S, i)] = i
  <1> DEFINE N == 1..Cardinality(S)
             f == [i \in S |-> Newer(S, i)]
  <1>1. Cardinality(S) \in Nat /\ IsFiniteSet(N) /\ Cardinality(N) = Cardinality(S)
    BY FS_CardinalityType, FS_Interval
  <1>2. /\ \A i \in S : Newer(S, i) \in N
        /\ \A i, k \in S : i < k => Newer(S, k) < Newer(S, i)
    BY PlacesDiffer
  <1>3. \A i, k \in S : Newer(S, i) = Newer(S, k) => i = k
    <2>1. ASSUME NEW i \in S, NEW k \in S, Newer(S, i) = Newer(S, k) PROVE i = k
      <3>1. i \in Nat /\ k \in Nat /\ Newer(S, i) \in Int /\ Newer(S, k) \in Int
        BY <1>1, <1>2
      <3>2. ~(i < k) /\ ~(k < i)
        BY <1>2, <2>1, <3>1
      <3>3. QED
        BY <3>1, <3>2
    <2>2. QED
      BY <2>1
  <1>4. f \in Injection(S, N)
    <2> HIDE DEF N
    <2>1. QED
      BY <1>2, <1>3 DEF Injection, IsInjective
  <1>5. f \in Surjection(S, N)
    <2> HIDE DEF f, N
    <2>1. QED
      BY <1>1, <1>4, FS_Injection
  <1>6. ASSUME NEW n \in N PROVE \E i \in S : Newer(S, i) = n
    BY <1>5 DEF Surjection
  <1>7. ASSUME NEW n \in N
        PROVE  NewestFirst(S)[n] \in S /\ Newer(S, NewestFirst(S)[n]) = n
    <2>1. NewestFirst(S)[n] = CHOOSE i \in S : Newer(S, i) = n
      BY DEF NewestFirst, Newer
    <2>2. QED
      BY <1>6, <2>1
  <1>8. NewestFirst(S) \in [1..Cardinality(S) -> S]
    BY <1>7 DEF NewestFirst
  <1>9. QED
    BY <1>1, <1>2, <1>3, <1>7, <1>8

LEMMA OldestFirstLists ==
    ASSUME NEW S \in SUBSET Nat, IsFiniteSet(S)
    PROVE  /\ OldestFirst(S) \in [1..Cardinality(S) -> S] /\ Cardinality(S) \in Nat
           /\ \A i \in S : Older(S, i) \in 1..Cardinality(S) /\ OldestFirst(S)[Older(S, i)] = i
  <1> DEFINE N == 1..Cardinality(S)
             f == [i \in S |-> Older(S, i)]
  <1>1. Cardinality(S) \in Nat /\ IsFiniteSet(N) /\ Cardinality(N) = Cardinality(S)
    BY FS_CardinalityType, FS_Interval
  <1>2. /\ \A i \in S : Older(S, i) \in N
        /\ \A i, k \in S : i < k => Older(S, i) < Older(S, k)
    BY PlacesDiffer
  <1>3. \A i, k \in S : Older(S, i) = Older(S, k) => i = k
    <2>1. ASSUME NEW i \in S, NEW k \in S, Older(S, i) = Older(S, k) PROVE i = k
      <3>1. i \in Nat /\ k \in Nat /\ Older(S, i) \in Int /\ Older(S, k) \in Int
        BY <1>1, <1>2
      <3>2. ~(i < k) /\ ~(k < i)
        BY <1>2, <2>1, <3>1
      <3>3. QED
        BY <3>1, <3>2
    <2>2. QED
      BY <2>1
  <1>4. f \in Injection(S, N)
    <2> HIDE DEF N
    <2>1. QED
      BY <1>2, <1>3 DEF Injection, IsInjective
  <1>5. f \in Surjection(S, N)
    <2> HIDE DEF f, N
    <2>1. QED
      BY <1>1, <1>4, FS_Injection
  <1>6. ASSUME NEW n \in N PROVE \E i \in S : Older(S, i) = n
    BY <1>5 DEF Surjection
  <1>7. ASSUME NEW n \in N
        PROVE  OldestFirst(S)[n] \in S /\ Older(S, OldestFirst(S)[n]) = n
    <2>1. OldestFirst(S)[n] = CHOOSE i \in S : Older(S, i) = n
      BY DEF OldestFirst, Older
    <2>2. QED
      BY <1>6, <2>1
  <1>8. OldestFirst(S) \in [1..Cardinality(S) -> S]
    BY <1>7 DEF OldestFirst
  <1>9. QED
    BY <1>1, <1>2, <1>3, <1>7, <1>8

\* The rows of the two tables.
RowRecords == [list : Lists, owner : Owners \cup {Shared}, committed : BOOLEAN,
               state : RowStatuses \cup {"active", "medium", "hard"}, archived : BOOLEAN]

\* What a user sees of a list.
Mine(user, list) == {i \in DOMAIN rows : IsOpenFor(user, i) /\ Row(i).list = list}

\* Where a row comes in the list.
Place(user, list, i) ==
    IF list = "sessions" THEN Newer(Mine(user, list), i)
                         ELSE Seeds + Older(Mine(user, list), i)

\* The seeds come first, and a question has a difficulty.
RowsHold ==
    /\ rows \in Seq(RowRecords) /\ Seeds <= Len(rows)
    /\ \A i \in 1..Seeds : Row(i).list = "questions"
    /\ \A i \in DOMAIN rows : Row(i).list = "questions" => Row(i).state \in {"medium", "hard"}

\* What the services answer of the rows.
Items(user, list) ==
    IF list = "sessions" THEN {ListSessionRowToProto(i) : i \in Mine(user, list)}
    ELSE {QuestionToProto(i) : i \in (1..Seeds) \cup Mine(user, list)}

\* What the pages have shown.
ShownRows == {item.row : item \in shown}

\* What is shown may be shown.
ItemsFair ==
    \A item \in shown :
        /\ item.row \in DOMAIN rows
        /\ item.source \in {lister[1], "seed", "custom"}
        /\ item.row > Seeds => Row(item.row).owner = lister[1]
        /\ lister[2] = "sessions" => Row(item.row).list = "sessions" /\ Row(item.row).committed
        /\ item.state = "unspecified" => Row(item.row).list = "sessions"

\* What is owed has been shown or is still to come, behind the token.
PagesReach ==
    /\ token \in Nat /\ reading \in BOOLEAN /\ lister \in (Readers \cup {Shared}) \X Lists
    /\ owed \subseteq Mine(lister[1], lister[2])
    /\ reading => \A i \in owed : i \in ShownRows \/ token < Place(lister[1], lister[2], i)
    /\ ~reading => owed \subseteq ShownRows

\* The inductive invariant.
ListInv == RowsHold /\ ItemsFair /\ PagesReach

\* A list is finite.
LEMMA MineFinite ==
    ASSUME RowsHold, NEW user, NEW list
    PROVE  /\ Mine(user, list) \in SUBSET Nat /\ IsFiniteSet(Mine(user, list))
           /\ Mine(user, list) \subseteq DOMAIN rows /\ DOMAIN rows = 1..Len(rows) /\ Len(rows) \in Nat
  <1>1. rows \in Seq(RowRecords)
    BY DEF RowsHold
  <1>2. DOMAIN rows = 1..Len(rows) /\ Len(rows) \in Nat
    BY <1>1
  <1>3. IsFiniteSet(1..Len(rows))
    BY <1>2, FS_Interval
  <1>4. Mine(user, list) \in SUBSET (1..Len(rows))
    BY <1>2 DEF Mine
  <1>5. QED
    BY <1>2, <1>3, <1>4, FS_Subset

\* The sessions of a user, each at its place.
LEMMA SessionsListed ==
    ASSUME RowsHold, NEW user, NEW found \in Results(user, "sessions")
    PROVE  /\ found \in Seq(Items(user, "sessions"))
           /\ \A i \in Mine(user, "sessions") :
                 /\ Place(user, "sessions", i) \in 1..Len(found)
                 /\ found[Place(user, "sessions", i)].row = i
  <1> DEFINE M == Mine(user, "sessions")
             F == NewestFirst(M)
  <1>1. M \in SUBSET Nat /\ IsFiniteSet(M)
    BY MineFinite
  <1>2. /\ F \in [1..Cardinality(M) -> M] /\ Cardinality(M) \in Nat
        /\ \A i \in M : Newer(M, i) \in 1..Cardinality(M) /\ F[Newer(M, i)] = i
    <2> HIDE DEF M
    <2>1. QED
      BY <1>1, NewestFirstLists
  <1>3. found = [n \in DOMAIN F |-> ListSessionRowToProto(F[n])]
    BY DEF Results, ListSessions, ListSessionsByUser, Mine
  <1>4. /\ found \in [1..Cardinality(M) -> {ListSessionRowToProto(i) : i \in M}]
        /\ DOMAIN found = 1..Cardinality(M)
    <2> HIDE DEF M, F
    <2>1. QED
      BY <1>2, <1>3
  <1>5. found \in Seq({ListSessionRowToProto(i) : i \in M}) /\ Len(found) = Cardinality(M)
    <2> HIDE DEF M, F
    <2>1. found \in Seq({ListSessionRowToProto(i) : i \in M})
      BY <1>2, <1>4, SeqDef
    <2>2. QED
      BY <2>1, <1>2, <1>4, LenProperties
  <1>6. \A i \in M : found[Newer(M, i)].row = i
    <2> HIDE DEF M, F
    <2>1. QED
      BY <1>2, <1>3 DEF ListSessionRowToProto
  <1>7. QED
    BY <1>2, <1>5, <1>6 DEF Items, Place

\* The questions, each of the user's at its place behind the seeds.
LEMMA QuestionsListed ==
    ASSUME RowsHold, NEW user, NEW found \in Results(user, "questions")
    PROVE  /\ found \in Seq(Items(user, "questions"))
           /\ \A i \in Mine(user, "questions") :
                 /\ Place(user, "questions", i) \in 1..Len(found)
                 /\ found[Place(user, "questions", i)].row = i
  <1> DEFINE M == Mine(user, "questions")
             F == OldestFirst(M)
  <1>1. M \in SUBSET Nat /\ IsFiniteSet(M)
    BY MineFinite
  <1>2. /\ F \in [1..Cardinality(M) -> M] /\ Cardinality(M) \in Nat
        /\ \A i \in M : Older(M, i) \in 1..Cardinality(M) /\ F[Older(M, i)] = i
    <2> HIDE DEF M
    <2>1. QED
      BY <1>1, OldestFirstLists
  <1>3. PICK seeds \in SetToSeqs(1..Seeds) :
           found = [n \in DOMAIN (seeds \o F) |-> QuestionToProto((seeds \o F)[n])]
    BY DEF Results, ListQuestions, ListQuestionsForUser, Mine
  <1>4. seeds \in [1..Seeds -> 1..Seeds] /\ Seeds \in Nat
    <2>1. Cardinality(1..Seeds) = Seeds /\ Seeds \in Nat
      BY FS_Interval, ListingsAssumption
    <2>2. QED
      BY <2>1 DEF SetToSeqs
  <1> DEFINE S == (1..Seeds) \cup M
             G == seeds \o F
  <1>5. seeds \in Seq(S) /\ Len(seeds) = Seeds /\ F \in Seq(S) /\ Len(F) = Cardinality(M)
    <2> HIDE DEF M, F
    <2>1. seeds \in [1..Seeds -> S] /\ F \in [1..Cardinality(M) -> S]
      BY <1>2, <1>4
    <2> HIDE DEF S
    <2>2. seeds \in Seq(S) /\ F \in Seq(S)
      BY <2>1, <1>2, <1>4, SeqDef
    <2>3. QED
      BY <2>1, <2>2, <1>2, <1>4, LenProperties
  <1>6. /\ G \in Seq(S) /\ Len(G) = Seeds + Cardinality(M)
        /\ \A k \in 1..Cardinality(M) : G[Seeds + k] = F[k]
        /\ DOMAIN G = 1..Seeds + Cardinality(M)
    <2> HIDE DEF M, F, S
    <2>1. G \in Seq(S) /\ Len(G) = Seeds + Cardinality(M)
      BY <1>5, ConcatProperties
    <2>2. \A k \in 1..Cardinality(M) : G[Seeds + k] = F[k]
      <3>1. ASSUME NEW k \in 1..Cardinality(M) PROVE G[Seeds + k] = F[k]
        <4>1. Seeds + k \in 1..Len(seeds) + Len(F) /\ ~(Seeds + k <= Len(seeds))
              /\ Seeds + k - Len(seeds) = k
          BY <1>2, <1>4, <1>5
        <4>2. QED
          BY <4>1, <1>5, ConcatProperties
      <3>2. QED
        BY <3>1
    <2>3. DOMAIN G = 1..Seeds + Cardinality(M)
      BY <2>1, LenProperties
    <2>4. QED
      BY <2>1, <2>2, <2>3
  <1>7. /\ found \in [1..Seeds + Cardinality(M) -> {QuestionToProto(i) : i \in S}]
        /\ \A n \in 1..Seeds + Cardinality(M) : found[n] = QuestionToProto(G[n])
    <2> HIDE DEF M, F, S, G
    <2>1. found = [n \in DOMAIN G |-> QuestionToProto(G[n])]
      BY <1>3 DEF G
    <2>2. \A n \in DOMAIN G : G[n] \in S
      BY <1>6
    <2>3. QED
      BY <2>1, <2>2, <1>6
  <1>8. /\ found \in Seq({QuestionToProto(i) : i \in S})
        /\ Len(found) = Seeds + Cardinality(M)
    <2> HIDE DEF M, F, S, G
    <2>1. Seeds + Cardinality(M) \in Nat
      BY <1>2, <1>4
    <2>2. found \in Seq({QuestionToProto(i) : i \in S})
      BY <2>1, <1>7, SeqDef
    <2>3. QED
      BY <2>1, <2>2, <1>7, LenProperties
  <1>9. ASSUME NEW i \in M
        PROVE  Seeds + Older(M, i) \in 1..Len(found) /\ found[Seeds + Older(M, i)].row = i
    <2> HIDE DEF M, F, S, G
    <2>1. /\ Older(M, i) \in 1..Cardinality(M) /\ F[Older(M, i)] = i
          /\ Seeds + Older(M, i) \in 1..Seeds + Cardinality(M)
      BY <1>2, <1>4
    <2>2. G[Seeds + Older(M, i)] = i
      BY <2>1, <1>6
    <2>3. QED
      BY <2>1, <2>2, <1>7, <1>8 DEF QuestionToProto
  <1>10. QED
    BY <1>8, <1>9 DEF Items, Place

\* A slice: what it shows and where it leaves off.
LEMMA PageCuts ==
    ASSUME NEW T, NEW found \in Seq(T), NEW offset \in Nat, NEW asked \in PageSizes
    PROVE  /\ Page(found, offset, asked).items \subseteq T
           /\ Page(found, offset, asked).next \in Nat
           /\ \A n \in 1..Len(found) :
                 offset < n => \/ found[n] \in Page(found, offset, asked).items
                               \/ /\ Page(found, offset, asked).next # NoToken
                                  /\ Page(found, offset, asked).next < n
  <1> DEFINE start == Smaller(offset, Len(found))
             end   == Smaller(start + PageSize(asked), Len(found))
             slice  == Page(found, offset, asked)
  <1>1. Len(found) \in Nat /\ \A n \in 1..Len(found) : found[n] \in T
    OBVIOUS
  <1>2. PageSize(asked) \in Nat /\ 1 <= PageSize(asked)
    BY ListingsAssumption DEF PageSize, Smaller
  <1>3. /\ start \in Nat /\ end \in Nat /\ start <= end /\ end <= Len(found)
        /\ start <= offset /\ (start < Len(found) => start < end)
        /\ start = offset \/ start = Len(found)
    BY <1>1, <1>2 DEF Smaller
  <1>4. /\ slice.items = ToSet(SubSeq(found, start + 1, end))
        /\ slice.next = IF end < Len(found) THEN end ELSE NoToken
    BY DEF Page
  <1> HIDE DEF start, end, slice
  <1>5. slice.items = {found[n] : n \in (start + 1)..end}
    <2> DEFINE s == SubSeq(found, start + 1, end)
    <2>1. /\ DOMAIN s = 1..(end - start)
          /\ \A k \in 1..(end - start) : s[k] = found[start + k]
      BY <1>1, <1>3
    <2> HIDE DEF s
    <2>2. \A n \in (start + 1)..end : n - start \in 1..(end - start) /\ s[n - start] = found[n]
      BY <1>3, <2>1
    <2>3. \A k \in 1..(end - start) : start + k \in (start + 1)..end
      BY <1>3
    <2>4. {s[k] : k \in DOMAIN s} = {found[n] : n \in (start + 1)..end}
      BY <2>1, <2>2, <2>3
    <2>5. QED
      BY <2>4, <1>4 DEF ToSet, s
  <1>6. slice.items \subseteq T
    BY <1>1, <1>3, <1>5
  <1>7. slice.next \in Nat
    BY <1>3, <1>4 DEF NoToken
  <1>8. ASSUME NEW n \in 1..Len(found), offset < n
        PROVE  found[n] \in slice.items \/ (slice.next # NoToken /\ slice.next < n)
    <2>1. CASE n <= end
      BY <2>1, <1>3, <1>5, <1>8
    <2>2. CASE end < n
      <3>1. end < Len(found) /\ start < Len(found) /\ end # 0
        BY <2>2, <1>1, <1>3
      <3>2. QED
        BY <3>1, <2>2, <1>4 DEF NoToken
    <2>3. QED
      BY <2>1, <2>2, <1>1, <1>3
  <1>9. QED
    BY <1>6, <1>7, <1>8 DEF slice

\* At the start there are the seeds, and nobody reads.
LEMMA ListInitInv == ASSUME ListingsInit PROVE ListInv
  <1>1. rows = [i \in 1..Seeds |-> Seed] /\ Seeds \in Nat
    BY ListingsAssumption DEF ListingsInit
  <1>2. Seed \in RowRecords
    BY DEF Seed, RowRecords, Lists
  <1>3. rows \in Seq(RowRecords) /\ Len(rows) = Seeds /\ DOMAIN rows = 1..Seeds
    <2>1. rows \in [1..Seeds -> RowRecords]
      BY <1>1, <1>2
    <2>2. rows \in Seq(RowRecords)
      BY <2>1, <1>1, SeqDef
    <2>3. QED
      BY <2>1, <2>2, <1>1, LenProperties
  <1>4. \A i \in 1..Seeds : rows[i].list = "questions" /\ rows[i].state = "medium"
    BY <1>1 DEF Seed
  <1>5. RowsHold
    BY <1>1, <1>3, <1>4 DEF RowsHold, Row
  <1>6. ItemsFair /\ PagesReach
    BY DEF ListingsInit, ItemsFair, PagesReach, NoToken, Lists
  <1>7. QED
    BY <1>5, <1>6 DEF ListInv

\* A row comes, or changes what it may change; none goes, none changes hands.
RowsGrow ==
    /\ Len(rows) <= Len(rows')
    /\ \A i \in DOMAIN rows :
          /\ rows'[i].list = rows[i].list /\ rows'[i].owner = rows[i].owner
          /\ rows[i].committed => rows'[i].committed

\* What the services do to rows is no more than that.
LEMMA RowsComeAndChange ==
    ASSUME RowsHold,
           \/ \E user \in Owners :
                 \/ InsertSession(user)
                 \/ \E asked \in {"unspecified", "medium", "hard", "unknown"} :
                       InsertQuestion(user, asked)
                 \/ \E i \in SessionRows, archive \in BOOLEAN : ArchiveSessions(user, {i}, archive)
           \/ \E i \in DOMAIN rows : Commits(i) \/ \E status \in RowStatuses : StatusChanges(i, status)
    PROVE  RowsHold' /\ RowsGrow /\ UNCHANGED listingVars
  <1>1. /\ rows \in Seq(RowRecords) /\ DOMAIN rows = 1..Len(rows) /\ Len(rows) \in Nat
        /\ Seeds \in Nat /\ Seeds <= Len(rows)
    BY MineFinite, ListingsAssumption DEF RowsHold
  <1>2. \A i \in DOMAIN rows : rows[i] \in RowRecords
    BY <1>1
  <1>3. ASSUME NEW row \in RowRecords, Begin(row),
               row.list = "questions" => row.state \in {"medium", "hard"}
        PROVE  RowsHold' /\ RowsGrow /\ UNCHANGED listingVars
    <2>1. /\ rows' = Append(rows, row) /\ UNCHANGED listingVars
      BY <1>3 DEF Begin
    <2>2. /\ rows' \in Seq(RowRecords) /\ Len(rows') = Len(rows) + 1
          /\ \A i \in 1..Len(rows) : rows'[i] = rows[i]
          /\ rows'[Len(rows) + 1] = row /\ DOMAIN rows' = 1..Len(rows) + 1
      BY <2>1, <1>1
    <2>3. Seeds <= Len(rows') /\ Len(rows) <= Len(rows')
      BY <1>1, <2>2
    <2>4. \A i \in 1..Seeds : rows'[i] = rows[i]
      BY <1>1, <2>2
    <2>5. \A i \in DOMAIN rows' : i \in DOMAIN rows \/ rows'[i] = row
      BY <1>1, <2>2
    <2>6. \A i \in DOMAIN rows' : rows'[i].list = "questions" => rows'[i].state \in {"medium", "hard"}
      BY <2>2, <2>5, <1>1, <1>3 DEF RowsHold, Row
    <2>7. QED
      BY <2>1, <2>2, <2>3, <2>4, <2>6, <1>1 DEF RowsHold, RowsGrow, Row
  <1>4. ASSUME rows' \in [DOMAIN rows -> RowRecords],
               \A i \in DOMAIN rows :
                   /\ rows'[i].list = rows[i].list /\ rows'[i].owner = rows[i].owner
                   /\ rows[i].committed => rows'[i].committed
                   /\ rows[i].list = "questions" => rows'[i].state = rows[i].state
        PROVE  RowsHold' /\ RowsGrow
    <2>1. rows' \in Seq(RowRecords) /\ Len(rows') = Len(rows) /\ DOMAIN rows' = DOMAIN rows
      <3>1. rows' \in [1..Len(rows) -> RowRecords]
        BY <1>1, <1>4
      <3>2. rows' \in Seq(RowRecords)
        BY <3>1, <1>1, SeqDef
      <3>3. QED
        BY <3>1, <3>2, <1>1, LenProperties
    <2>2. \A i \in 1..Seeds : i \in DOMAIN rows
      BY <1>1
    <2>3. QED
      BY <2>1, <2>2, <1>1, <1>4 DEF RowsHold, RowsGrow, Row
  <1>5. ASSUME NEW user \in Owners, InsertSession(user)
        PROVE  RowsHold' /\ RowsGrow /\ UNCHANGED listingVars
    <2> DEFINE row == [list |-> "sessions", owner |-> user, committed |-> FALSE,
                       state |-> "active", archived |-> FALSE]
    <2>1. row \in RowRecords /\ row.list = "sessions" /\ Begin(row)
      BY <1>5 DEF InsertSession, RowRecords, Lists
    <2> HIDE DEF row
    <2>2. QED
      BY <1>3, <2>1
  <1>6. ASSUME NEW user \in Owners, NEW asked, InsertQuestion(user, asked)
        PROVE  RowsHold' /\ RowsGrow /\ UNCHANGED listingVars
    <2> DEFINE d == DifficultyFromProto(asked)
    <2>1. d \in {"medium", "hard"} /\ Begin(NewQuestion(user, d))
      BY <1>6 DEF InsertQuestion
    <2> HIDE DEF d
    <2>2. NewQuestion(user, d) \in RowRecords /\ NewQuestion(user, d).state \in {"medium", "hard"}
      BY <2>1 DEF NewQuestion, RowRecords, Lists
    <2>3. QED
      BY <1>3, <2>1, <2>2
  <1>7. ASSUME NEW user \in Owners, NEW i \in SessionRows, NEW archive \in BOOLEAN,
               ArchiveSessions(user, {i}, archive)
        PROVE  RowsHold' /\ RowsGrow /\ UNCHANGED listingVars
    <2>1. /\ UNCHANGED listingVars
          /\ rows' = [k \in DOMAIN rows |->
                        IF k \in {i} /\ IsOpenFor(user, k)
                        THEN [rows[k] EXCEPT !.archived = archive] ELSE rows[k]]
      BY <1>7 DEF ArchiveSessions, Row
    <2>2. \A k \in DOMAIN rows :
             [rows[k] EXCEPT !.archived = archive] \in RowRecords
      BY <1>2 DEF RowRecords
    <2>3. rows' \in [DOMAIN rows -> RowRecords]
      BY <2>1, <2>2, <1>2
    <2>4. \A k \in DOMAIN rows :
             /\ rows'[k].list = rows[k].list /\ rows'[k].owner = rows[k].owner
             /\ rows'[k].committed = rows[k].committed /\ rows'[k].state = rows[k].state
      BY <2>1, <1>2 DEF RowRecords
    <2>5. QED
      BY <2>1, <2>3, <2>4, <1>4
  <1>8. ASSUME NEW i \in DOMAIN rows, Commits(i)
        PROVE  RowsHold' /\ RowsGrow /\ UNCHANGED listingVars
    <2>1. rows' = [rows EXCEPT ![i].committed = TRUE] /\ UNCHANGED listingVars
      BY <1>8 DEF Commits
    <2>2. rows' \in [DOMAIN rows -> RowRecords]
      BY <2>1, <1>2, <1>1 DEF RowRecords
    <2>3. \A k \in DOMAIN rows :
             /\ rows'[k].list = rows[k].list /\ rows'[k].owner = rows[k].owner
             /\ (rows[k].committed => rows'[k].committed) /\ rows'[k].state = rows[k].state
      BY <2>1, <1>2, <1>1 DEF RowRecords
    <2>4. QED
      BY <2>1, <2>2, <2>3, <1>4
  <1>9. ASSUME NEW i \in DOMAIN rows, NEW status \in RowStatuses, StatusChanges(i, status)
        PROVE  RowsHold' /\ RowsGrow /\ UNCHANGED listingVars
    <2>1. /\ rows' = [rows EXCEPT ![i].state = status] /\ UNCHANGED listingVars
          /\ rows[i].list = "sessions"
      BY <1>9 DEF StatusChanges, Row
    <2>2. rows' \in [DOMAIN rows -> RowRecords]
      BY <2>1, <1>2, <1>1 DEF RowRecords
    <2>3. \A k \in DOMAIN rows :
             /\ rows'[k].list = rows[k].list /\ rows'[k].owner = rows[k].owner
             /\ rows[k].committed => rows'[k].committed
             /\ rows[k].list = "questions" => rows'[k].state = rows[k].state
      BY <2>1, <1>2, <1>1 DEF RowRecords
    <2>4. QED
      BY <2>1, <2>2, <2>3, <1>4
  <1>10. QED
    BY <1>5, <1>6, <1>7, <1>8, <1>9

\* Hence no row comes nearer to the front of a list.
LEMMA MineGrows ==
    ASSUME RowsHold, RowsHold', RowsGrow, NEW user, NEW list, NEW i \in Mine(user, list)
    PROVE  /\ i \in Mine(user, list)'
           /\ Place(user, list, i) \in Nat /\ Place(user, list, i)' \in Nat
           /\ Place(user, list, i) <= Place(user, list, i)'
  <1> DEFINE S == Mine(user, list)
             T == Mine(user, list)'
  <1>1. S \subseteq T
    <2>1. \A k \in DOMAIN rows : k \in DOMAIN rows' /\ rows[k] \in RowRecords
      BY DEF RowsHold, RowsGrow
    <2>2. QED
      BY <2>1 DEF RowsGrow, Mine, IsOpenFor, Row, RowRecords
  <1>2. IsFiniteSet(T)
    <2>1. DOMAIN rows' = 1..Len(rows') /\ Len(rows') \in Nat
      BY DEF RowsHold
    <2>2. IsFiniteSet(1..Len(rows')) /\ T \subseteq 1..Len(rows')
      BY <2>1, FS_Interval DEF Mine
    <2>3. QED
      BY <2>2, FS_Subset
  <1>3. /\ Newer(S, i) <= Newer(T, i) /\ Older(S, i) <= Older(T, i)
        /\ {Newer(S, i), Newer(T, i), Older(S, i), Older(T, i)} \subseteq Nat
    <2> HIDE DEF S, T
    <2>1. QED
      BY <1>1, <1>2, PlacesGrow
  <1>4. /\ Place(user, list, i) = IF list = "sessions" THEN Newer(S, i) ELSE Seeds + Older(S, i)
        /\ Place(user, list, i)' = IF list = "sessions" THEN Newer(T, i) ELSE Seeds + Older(T, i)
    BY DEF Place
  <1>5. QED
    <2> HIDE DEF S, T
    <2>1. Seeds \in Nat
      BY ListingsAssumption
    <2>2. /\ Place(user, list, i) \in Nat /\ Place(user, list, i)' \in Nat
          /\ Place(user, list, i) <= Place(user, list, i)'
      BY <1>3, <1>4, <2>1
    <2>3. QED
      BY <2>2, <1>1 DEF S, T

\* And the next page misses none.
LEMMA RowsKeep ==
    ASSUME ListInv, RowsHold', RowsGrow, UNCHANGED listingVars
    PROVE  ListInv'
  <1>1. UNCHANGED <<lister, token, reading, owed, shown>>
    BY DEF listingVars
  <1>2. ItemsFair'
    <2>1. \A i \in DOMAIN rows : i \in DOMAIN rows' /\ rows[i] \in RowRecords
      BY DEF ListInv, RowsHold, RowsGrow
    <2>2. QED
      BY <2>1, <1>1 DEF ListInv, ItemsFair, RowsGrow, Row, RowRecords
  <1>3. PagesReach'
    <2>1. PICK u, l : u = lister[1] /\ l = lister[2]
      OBVIOUS
    <2>2. \A i \in Mine(u, l) :
             /\ i \in Mine(u, l)'
             /\ Place(u, l, i) \in Nat /\ Place(u, l, i)' \in Nat
             /\ Place(u, l, i) <= Place(u, l, i)'
      BY MineGrows DEF ListInv
    <2>3. owed \subseteq Mine(u, l) /\ token \in Nat
      BY <2>1 DEF ListInv, PagesReach
    <2>4. owed' \subseteq Mine(u, l)'
      BY <1>1, <2>2, <2>3
    <2>5. ASSUME NEW i \in owed', reading' PROVE i \in ShownRows' \/ token' < Place(u, l, i)'
      <3>1. i \in Mine(u, l)
        BY <1>1, <2>3, <2>5
      <3>2. i \in ShownRows \/ token < Place(u, l, i)
        BY <1>1, <2>1, <2>5 DEF ListInv, PagesReach
      <3>3. CASE i \in ShownRows
        BY <3>3, <1>1 DEF ShownRows
      <3>4. CASE token < Place(u, l, i)
        BY <3>1, <3>4, <2>2, <2>3, <1>1
      <3>5. QED
        BY <3>2, <3>3, <3>4
    <2>6. u = lister'[1] /\ l = lister'[2]
      BY <1>1, <2>1
    <2>7. /\ token' \in Nat /\ reading' \in BOOLEAN /\ lister' \in (Readers \cup {Shared}) \X Lists
          /\ ~reading' => owed' \subseteq ShownRows'
      BY <1>1 DEF ListInv, PagesReach, ShownRows
    <2>8. owed' \subseteq Mine(lister[1], lister[2])'
      BY <2>4, <2>6
    <2>9. reading' => \A i \in owed' : i \in ShownRows' \/ token' < Place(lister[1], lister[2], i)'
      BY <2>5, <2>6
    <2>10. QED
      BY <2>7, <2>8, <2>9 DEF PagesReach
  <1>4. QED
    BY <1>2, <1>3 DEF ListInv

\* A slice of the list that is being read.
LEMMA PageKeeps ==
    ASSUME RowsHold, NEW user \in Readers \cup {Shared}, NEW list \in Lists,
           NEW found \in Results(user, list),
           NEW offset \in Nat, NEW asked \in PageSizes, Shows(found, offset, asked),
           lister' = <<user, list>>, owed' \subseteq Mine(user, list),
           \/ ~reading /\ offset = 0
           \/ /\ reading /\ lister' = lister /\ offset = token /\ owed' = owed
              /\ ItemsFair /\ PagesReach
    PROVE  RowsHold' /\ ItemsFair' /\ PagesReach'
  <1> DEFINE slice == Page(found, offset, asked)
             before == IF reading THEN shown ELSE {}
  <1>1. /\ shown' = before \cup slice.items /\ token' = slice.next
        /\ reading' = (slice.next # NoToken) /\ rows' = rows
    BY DEF Shows
  <1>2. /\ found \in Seq(Items(user, list))
        /\ \A i \in Mine(user, list) :
              Place(user, list, i) \in 1..Len(found) /\ found[Place(user, list, i)].row = i
    <2>1. CASE list = "sessions"
      BY <2>1, SessionsListed
    <2>2. CASE list = "questions"
      BY <2>2, QuestionsListed
    <2>3. QED
      BY <2>1, <2>2 DEF Lists
  <1>3. /\ slice.items \subseteq Items(user, list) /\ slice.next \in Nat
        /\ \A n \in 1..Len(found) :
              offset < n => found[n] \in slice.items \/ (slice.next # NoToken /\ slice.next < n)
    BY <1>2, PageCuts
  <1> HIDE DEF slice, before
  <1>4. lister'[1] = user /\ lister'[2] = list
    OBVIOUS
  <1>5. RowsHold'
    BY <1>1 DEF RowsHold, Row
  <1>6. ItemsFair'
    <2>1. ASSUME NEW item \in before
          PROVE  /\ item.row \in DOMAIN rows
                 /\ item.source \in {user, "seed", "custom"}
                 /\ item.row > Seeds => Row(item.row).owner = user
                 /\ list = "sessions" => Row(item.row).list = "sessions" /\ Row(item.row).committed
                 /\ item.state = "unspecified" => Row(item.row).list = "sessions"
      <3>1. reading /\ item \in shown
        BY <2>1 DEF before
      <3>2. ItemsFair /\ lister[1] = user /\ lister[2] = list
        BY <3>1, <1>4
      <3>3. QED
        BY <3>1, <3>2 DEF ItemsFair
    <2>2. ASSUME NEW item \in Items(user, list)
          PROVE  /\ item.row \in DOMAIN rows
                 /\ item.source \in {user, "seed", "custom"}
                 /\ item.row > Seeds => Row(item.row).owner = user
                 /\ list = "sessions" => Row(item.row).list = "sessions" /\ Row(item.row).committed
                 /\ item.state = "unspecified" => Row(item.row).list = "sessions"
      <3>1. CASE list = "sessions"
        <4>1. PICK i \in Mine(user, list) : item = ListSessionRowToProto(i)
          BY <2>2, <3>1 DEF Items
        <4>2. /\ i \in DOMAIN rows /\ Row(i).owner = user /\ Row(i).list = "sessions"
              /\ Row(i).committed
          BY <3>1 DEF Mine, IsOpenFor
        <4>3. item.row = i /\ item.source = user
          BY <4>1, <4>2 DEF ListSessionRowToProto
        <4>4. QED
          BY <4>2, <4>3
      <3>2. CASE list # "sessions"
        <4>1. PICK i \in (1..Seeds) \cup Mine(user, list) : item = QuestionToProto(i)
          BY <2>2, <3>2 DEF Items
        <4>2. i \in DOMAIN rows /\ Row(i).list = "questions"
          <5>1. list = "questions"
            BY <3>2 DEF Lists
          <5>2. CASE i \in 1..Seeds
            BY <5>2, MineFinite, ListingsAssumption DEF RowsHold
          <5>3. CASE i \in Mine(user, list)
            BY <5>1, <5>3 DEF Mine
          <5>4. QED
            BY <5>2, <5>3
        <4>3. item.row = i /\ item.source \in {"seed", "custom"} /\ item.state # "unspecified"
          BY <4>1, <4>2 DEF QuestionToProto, SourceToProto, DifficultyToProto, RowsHold
        <4>4. i > Seeds => Row(i).owner = user
          <5>1. i \in 1..Seeds => ~(i > Seeds)
            BY ListingsAssumption
          <5>2. QED
            BY <5>1 DEF Mine, IsOpenFor
        <4>5. QED
          BY <3>2, <4>2, <4>3, <4>4
      <3>3. QED
        BY <3>1, <3>2
    <2>3. shown' \subseteq before \cup Items(user, list)
      BY <1>1, <1>3
    <2>4. QED
      BY <2>1, <2>2, <2>3, <1>1, <1>4 DEF ItemsFair, Row
  <1>7. PagesReach'
    <2>1. ASSUME NEW i \in owed'
          PROVE  i \in ShownRows' \/ (token' # NoToken /\ token' < Place(user, list, i))
      <3>1. i \in Mine(user, list)
        BY <2>1
      <3>2. CASE i \in ShownRows /\ reading
        <4>1. before = shown
          BY <3>2 DEF before
        <4>2. QED
          BY <3>2, <4>1, <1>1 DEF ShownRows
      <3>3. CASE offset < Place(user, list, i)
        <4> DEFINE n == Place(user, list, i)
        <4>1. n \in 1..Len(found) /\ found[n].row = i
          BY <3>1, <1>2
        <4> HIDE DEF n
        <4>2. found[n] \in slice.items \/ (slice.next # NoToken /\ slice.next < n)
          BY <3>3, <4>1, <1>3 DEF n
        <4>3. CASE found[n] \in slice.items
          BY <4>1, <4>3, <1>1 DEF ShownRows
        <4>4. CASE slice.next # NoToken /\ slice.next < n
          BY <4>4, <1>1 DEF n
        <4>5. QED
          BY <4>2, <4>3, <4>4
      <3>4. (i \in ShownRows /\ reading) \/ offset < Place(user, list, i)
        <4>1. CASE ~reading /\ offset = 0
          <5>1. Place(user, list, i) \in 1..Len(found) /\ Len(found) \in Nat
            BY <3>1, <1>2
          <5>2. QED
            BY <4>1, <5>1
        <4>2. CASE /\ reading /\ lister' = lister /\ offset = token /\ owed' = owed
                   /\ ItemsFair /\ PagesReach
          BY <4>2, <2>1, <1>4 DEF PagesReach
        <4>3. QED
          BY <4>1, <4>2
      <3>5. QED
        BY <3>2, <3>3, <3>4
    <2>2. token' \in Nat /\ reading' \in BOOLEAN /\ lister' \in (Readers \cup {Shared}) \X Lists
      BY <1>1, <1>3, <1>4
    <2>3. \A i \in Mine(user, list) : Place(user, list, i) = Place(user, list, i)'
      BY <1>1 DEF Place, Mine, IsOpenFor, Row
    <2>4. owed' \subseteq Mine(user, list)'
      BY <1>1 DEF Mine, IsOpenFor, Row
    <2>5. owed' \subseteq Mine(lister[1], lister[2])'
      BY <2>4, <1>4
    <2>6. ~reading' => token' = NoToken
      BY <1>1
    <2>7. reading' => \A i \in owed' : i \in ShownRows' \/ token' < Place(lister[1], lister[2], i)'
      <3>1. \A i \in owed' : i \in ShownRows' \/ token' < Place(user, list, i)'
        BY <2>1, <2>3
      <3>2. QED
        BY <3>1, <1>4
    <2>8. ~reading' => owed' \subseteq ShownRows'
      BY <2>1, <2>6
    <2>9. QED
      BY <2>2, <2>5, <2>7, <2>8 DEF PagesReach
  <1>8. QED
    BY <1>5, <1>6, <1>7

\* The inductive invariant always holds.
LEMMA ListInvariant == ListingsSpec => []ListInv
  <1>1. ListingsInit => ListInv
    BY ListInitInv
  <1>2. ASSUME ListInv, [ListingsNext]_listingsVars PROVE ListInv'
    <2>1. RowsHold /\ ItemsFair /\ PagesReach
      BY <1>2 DEF ListInv
    <2>2. ASSUME NEW user \in Readers, NEW list \in Lists, NEW asked \in PageSizes,
                 OpenList(user, list, asked)
          PROVE  ListInv'
      <3>1. PICK found \in Results(user, list) : Shows(found, 0, asked)
        BY <2>2 DEF OpenList
      <3>2. /\ ~reading /\ lister' = <<user, list>> /\ owed' = Mine(user, list)
        BY <2>2 DEF OpenList, Mine
      <3>3. QED
        BY <2>1, <3>1, <3>2, PageKeeps DEF ListInv
    <2>3. ASSUME NEW asked \in PageSizes, NextPage(asked) PROVE ListInv'
      <3>1. PICK found \in Results(lister[1], lister[2]) : Shows(found, token, asked)
        BY <2>3 DEF NextPage
      <3>2. reading /\ UNCHANGED <<lister, owed>>
        BY <2>3 DEF NextPage
      <3>3. PICK user, list : user = lister[1] /\ list = lister[2]
        OBVIOUS
      <3>4. /\ user \in Readers \cup {Shared} /\ list \in Lists /\ token \in Nat
            /\ owed' \subseteq Mine(user, list)
        BY <2>1, <3>2, <3>3 DEF PagesReach
      <3>5. lister' = <<user, list>>
        BY <2>1, <3>2, <3>3 DEF PagesReach
      <3>6. QED
        BY <2>1, <3>1, <3>2, <3>3, <3>4, <3>5, PageKeeps DEF ListInv
    <2>4. CASE \/ \E user \in Owners :
                    \/ InsertSession(user)
                    \/ \E asked \in {"unspecified", "medium", "hard", "unknown"} :
                          InsertQuestion(user, asked)
                    \/ \E i \in SessionRows, archive \in BOOLEAN :
                          ArchiveSessions(user, {i}, archive)
               \/ \E i \in DOMAIN rows :
                    Commits(i) \/ \E status \in RowStatuses : StatusChanges(i, status)
      BY <1>2, <2>1, <2>4, RowsComeAndChange, RowsKeep
    <2>5. CASE UNCHANGED listingsVars
      BY <2>5, <1>2 DEF listingsVars, listingVars, ListInv, RowsHold, ItemsFair, PagesReach,
            ShownRows, Place, Mine, IsOpenFor, Row
    <2>6. QED
      BY <1>2, <2>2, <2>3, <2>4, <2>5 DEF ListingsNext
  <1>3. QED
    BY <1>1, <1>2, PTL DEF ListingsSpec

\* A session that is committed opens, for its owner only.
LEMMA CommittedOpens ==
    ASSUME NEW user, NEW i \in DOMAIN rows, Row(i).list = "sessions", Row(i).committed,
           DOMAIN rows = 1..Len(rows), Len(rows) \in Nat
    PROVE  Opens(user, i)
  <1>1. i \in GetSession(i) /\ GetSession(Len(rows) + 1) = {}
    BY DEF GetSession, SessionRows
  <1>2. GetSessionForUser(user, i) = IF Row(i).owner = user THEN "found" ELSE "ErrSessionNotOwned"
    BY <1>1 DEF GetSessionForUser
  <1>3. GetSessionForUser(user, Len(rows) + 1) = "ErrSessionNotFound"
    BY <1>1 DEF GetSessionForUser
  <1>4. SessionAnswer(user, Len(rows) + 1) = [code |-> "not_found"]
    BY <1>3 DEF SessionAnswer, BackendToConnectError
  <1>5. CASE Row(i).owner = user
    <2>1. SessionAnswer(user, i).code = "ok" /\ TranscriptAnswer(user, i).code = "ok"
      BY <1>2, <1>5 DEF SessionAnswer, TranscriptAnswer
    <2>2. QED
      BY <1>5, <2>1 DEF Opens
  <1>6. CASE Row(i).owner # user
    <2>1. /\ SessionAnswer(user, i) = [code |-> "not_found"]
          /\ TranscriptAnswer(user, i) = [code |-> "not_found"]
      BY <1>2, <1>6 DEF SessionAnswer, TranscriptAnswer, BackendToConnectError
    <2>2. QED
      BY <1>4, <1>6, <2>1 DEF Opens
  <1>7. QED
    BY <1>5, <1>6

(***************************************************************************)
(* Who follows the page tokens to the end has seen every session and every *)
(* question of theirs that there was at the first page, whatever rows are  *)
(* created, archived and committed late between two pages and whatever     *)
(* page sizes are asked for; and nothing that another user owns. What is   *)
(* listed can be opened, by its owner only.                                *)
(***************************************************************************)
THEOREM ListsAreComplete == ListingsSpec => []ListingComplete
  <1>1. ASSUME ListInv PROVE ListingComplete
    <2>1. DOMAIN rows = 1..Len(rows) /\ Len(rows) \in Nat
      BY <1>1, MineFinite DEF ListInv
    <2>2. ~reading => owed \subseteq {item.row : item \in shown}
      BY <1>1 DEF ListInv, PagesReach, ShownRows
    <2>3. ASSUME NEW item \in shown, lister[2] = "sessions", NEW user \in Owners
          PROVE  Opens(user, item.row)
      BY <1>1, <2>1, <2>3, CommittedOpens DEF ListInv, ItemsFair
    <2>4. QED
      BY <1>1, <2>2, <2>3 DEF ListInv, ItemsFair, ListingComplete
  <1>2. QED
    BY <1>1, ListInvariant, PTL
-----------------------------------------------------------------------------
(***************************************************************************)
(* The process.                                                            *)
(***************************************************************************)
\* How far runWithContext is.
Lifecycles == {"configured", "prepared", "connected", "working", "backed", "serving", "draining",
               "closing UI", "stopping River", "closing", "exited"}

\* The types.
InstanceTypes ==
    /\ lifecycle \in Lifecycles /\ pool \in {"none", "open", "closing", "closed"}
    /\ river \in {"none", "running", "stopping", "stopped", "abandoned"}
    /\ riverUI \in BOOLEAN /\ signalled \in BOOLEAN
    /\ http \in {"none", "listening", "draining", "drained", "abandoned", "failed"}
    /\ task \in [Tasks -> {"none", "request", "job", "left behind"}]
    /\ doing \in [Tasks -> {"nothing", "thinking", "querying", "cut short"}]

\* How far each part is, by where runWithContext is.
PoolInOrder ==
    /\ lifecycle \in {"configured", "prepared"} => pool = "none"
    /\ lifecycle \in {"connected", "working", "backed", "serving", "draining", "closing UI",
                      "stopping River"} => pool = "open"
    /\ lifecycle = "closing" => pool \in {"open", "closing"}
    /\ lifecycle = "exited" => pool \in {"none", "closed"}
\* And River, and the HTTP server.
RiverInOrder ==
    /\ lifecycle \in {"configured", "prepared", "connected"} => river = "none"
    /\ lifecycle \in {"working", "backed", "serving", "draining", "closing UI"} => river = "running"
    /\ lifecycle = "stopping River" => river = "stopping"
    /\ lifecycle \in {"closing", "exited"} => river \in {"none", "stopped", "abandoned"}
    /\ riverUI => lifecycle \in {"backed", "serving", "draining", "closing UI"}
HttpInOrder ==
    /\ lifecycle \in {"configured", "prepared", "connected", "working", "backed"} => http = "none"
    /\ lifecycle = "serving" => http = "listening"
    /\ lifecycle = "draining" => http = "draining"
    /\ lifecycle \in {"closing UI", "stopping River", "closing", "exited"} =>
          http \in {"none", "drained", "abandoned", "failed"}

\* A task that still does something.
Goes(t) == doing[t] \in {"thinking", "querying"}

\* What is still going on has not been waited for, or not yet; and a task is
\* cut short only when the wait for it was given up.
TasksInOrder ==
    \A t \in Tasks :
        /\ Goes(t) => \/ task[t] = "left behind"
                      \/ task[t] = "request" /\ http \in {"listening", "draining", "abandoned", "failed"}
                      \/ task[t] = "job" /\ river \in {"running", "stopping", "abandoned"}
        /\ doing[t] = "cut short" => \/ task[t] = "left behind"
                                     \/ task[t] = "request" /\ http \in {"abandoned", "failed"}
                                     \/ task[t] = "job" /\ river = "abandoned"

\* The inductive invariant.
InstanceInv == InstanceTypes /\ PoolInOrder /\ RiverInOrder /\ HttpInOrder /\ TasksInOrder

\* Nothing runs at first.
LEMMA InstanceInitInv == InstanceInit => InstanceInv
  BY DEF InstanceInit, InstanceInv, InstanceTypes, Lifecycles, PoolInOrder, RiverInOrder, HttpInOrder,
         TasksInOrder, Goes

\* The steps of runWithContext keep the order of the parts.
LEMMA PartTypes ==
    ASSUME InstanceInv, StartStep \/ ShutdownStep
    PROVE  /\ lifecycle' \in Lifecycles /\ pool' \in {"none", "open", "closing", "closed"}
           /\ river' \in {"none", "running", "stopping", "stopped", "abandoned"}
           /\ http' \in {"none", "listening", "draining", "drained", "abandoned", "failed"}
           /\ riverUI' \in BOOLEAN /\ signalled' \in BOOLEAN
  <1> USE DEF InstanceInv, InstanceTypes, Lifecycles, PhaseGoes
  <1>1. CASE StartStep
    BY <1>1 DEF StartStep, Prepare, OpenPool, StartRiver, StartRiverUI, BuildHandler
  <1>2. CASE ShutdownStep
    BY <1>2 DEF ShutdownStep, Signal, BeginDrain, ServeFails, EndDrain, CloseRiverUI,
       RiverStopped, BeginClosePool, Exit
  <1>3. QED
    BY <1>1, <1>2

\* The pool opens first and closes last.
LEMMA PoolStaysInOrder == InstanceInv /\ (StartStep \/ ShutdownStep) => PoolInOrder'
  <1> SUFFICES ASSUME InstanceInv, StartStep \/ ShutdownStep PROVE PoolInOrder'
    OBVIOUS
  <1> USE DEF InstanceInv, PoolInOrder, PhaseGoes
  <1>1. CASE Prepare \/ OpenPool
    BY <1>1 DEF Prepare, OpenPool
  <1>2. CASE StartRiver \/ StartRiverUI \/ BuildHandler
    BY <1>2 DEF StartRiver, StartRiverUI, BuildHandler
  <1>3. CASE Signal \/ BeginDrain \/ ServeFails \/ EndDrain
    BY <1>3 DEF Signal, BeginDrain, ServeFails, EndDrain
  <1>4. CASE CloseRiverUI \/ RiverStopped \/ BeginClosePool \/ Exit
    BY <1>4 DEF CloseRiverUI, RiverStopped, BeginClosePool, Exit
  <1>5. QED
    BY <1>1, <1>2, <1>3, <1>4 DEF StartStep, ShutdownStep

\* River is stopped before the pool is closed.
LEMMA RiverStaysInOrder == InstanceInv /\ (StartStep \/ ShutdownStep) => RiverInOrder'
  <1> SUFFICES ASSUME InstanceInv, StartStep \/ ShutdownStep PROVE RiverInOrder'
    OBVIOUS
  <1> riverUI \in BOOLEAN /\ riverUI' \in BOOLEAN
    BY PartTypes DEF InstanceInv, InstanceTypes
  <1> USE DEF InstanceInv, RiverInOrder, PhaseGoes
  <1>1. CASE Prepare \/ OpenPool
    BY <1>1 DEF Prepare, OpenPool
  <1>2. CASE StartRiver \/ StartRiverUI \/ BuildHandler
    BY <1>2 DEF StartRiver, StartRiverUI, BuildHandler
  <1>3. CASE Signal \/ BeginDrain \/ ServeFails \/ EndDrain
    BY <1>3 DEF Signal, BeginDrain, ServeFails, EndDrain
  <1>4. CASE CloseRiverUI \/ RiverStopped \/ BeginClosePool \/ Exit
    BY <1>4 DEF CloseRiverUI, RiverStopped, BeginClosePool, Exit
  <1>5. QED
    BY <1>1, <1>2, <1>3, <1>4 DEF StartStep, ShutdownStep

\* The HTTP server drains before River is stopped.
LEMMA HttpStaysInOrder == InstanceInv /\ (StartStep \/ ShutdownStep) => HttpInOrder'
  <1> SUFFICES ASSUME InstanceInv, StartStep \/ ShutdownStep PROVE HttpInOrder'
    OBVIOUS
  <1> USE DEF InstanceInv, HttpInOrder, PhaseGoes
  <1>1. CASE Prepare \/ OpenPool
    BY <1>1 DEF Prepare, OpenPool
  <1>2. CASE StartRiver \/ StartRiverUI \/ BuildHandler
    BY <1>2 DEF StartRiver, StartRiverUI, BuildHandler
  <1>3. CASE Signal \/ BeginDrain \/ ServeFails \/ EndDrain
    BY <1>3 DEF Signal, BeginDrain, ServeFails, EndDrain
  <1>4. CASE CloseRiverUI \/ RiverStopped \/ BeginClosePool \/ Exit
    BY <1>4 DEF CloseRiverUI, RiverStopped, BeginClosePool, Exit
  <1>5. QED
    BY <1>1, <1>2, <1>3, <1>4 DEF StartStep, ShutdownStep

\* A part that is done with waits for its tasks or gives them up.
LEMMA PartsSpareTasks ==
    ASSUME InstanceInv, StartStep \/ ShutdownStep
    PROVE  TasksInOrder' /\ task' = task
           /\ doing' \in [Tasks -> {"nothing", "thinking", "querying", "cut short"}]
  <1> USE DEF InstanceInv, InstanceTypes, TasksInOrder, Goes, PhaseGoes, taskVars
  <1>1. CASE Prepare \/ OpenPool \/ BeginClosePool \/ Signal
    BY <1>1 DEF Prepare, OpenPool, BeginClosePool, Signal
  <1>2. CASE StartRiver \/ StartRiverUI
    BY <1>2 DEF StartRiver, StartRiverUI, RiverInOrder
  <1>3. CASE BuildHandler
    BY <1>3 DEF BuildHandler, HttpInOrder
  <1>4. CASE BeginDrain \/ ServeFails
    BY <1>4 DEF BeginDrain, ServeFails, HttpInOrder
  <1>5. CASE EndDrain
    BY <1>5 DEF EndDrain, HttpInOrder, Running
  <1>6. CASE CloseRiverUI
    BY <1>6 DEF CloseRiverUI, RiverInOrder
  <1>7. CASE RiverStopped
    BY <1>7 DEF RiverStopped, RiverInOrder, Running
  <1>8. CASE Exit
    BY <1>8 DEF Exit, RiverInOrder, HttpInOrder
  <1>9. QED
    BY <1>1, <1>2, <1>3, <1>4, <1>5, <1>6, <1>7, <1>8 DEF StartStep, ShutdownStep

\* A task that finds the pool closed was given up before, or left behind.
LEMMA TasksStep ==
    ASSUME InstanceInv, NEW t \in Tasks, TaskStep(t)
    PROVE  InstanceInv'
  <1> USE DEF InstanceInv, InstanceTypes, Lifecycles
  <1>1. UNCHANGED <<lifecycle, pool, river, riverUI, http, signalled>>
    BY DEF TaskStep, BeginRequest, BeginJob, LeaveBehind, Begins, Query, QueryDone, TaskFinishes,
       TaskGoes
  <1>2. PoolInOrder' /\ RiverInOrder' /\ HttpInOrder'
    BY <1>1 DEF PoolInOrder, RiverInOrder, HttpInOrder
  <1>3. /\ task' \in [Tasks -> {"none", "request", "job", "left behind"}]
        /\ doing' \in [Tasks -> {"nothing", "thinking", "querying", "cut short"}]
    BY DEF TaskStep, BeginRequest, BeginJob, LeaveBehind, Begins, Query, QueryDone, TaskFinishes,
       TaskGoes
  <1>4. TasksInOrder'
    <2>1. CASE BeginRequest(t) \/ BeginJob(t) \/ LeaveBehind(t)
      BY <1>1, <2>1 DEF BeginRequest, BeginJob, LeaveBehind, Begins, TasksInOrder, Goes
    <2>2. CASE Query(t)
      <3>1. pool # "open" => http \notin {"listening", "draining"}
            /\ river \notin {"running", "stopping"}
        BY DEF PoolInOrder, RiverInOrder, HttpInOrder
      <3>2. QED
        BY <1>1, <2>2, <3>1 DEF Query, TaskGoes, TasksInOrder, Goes
    <2>3. CASE QueryDone(t) \/ TaskFinishes(t)
      BY <1>1, <2>3 DEF QueryDone, TaskFinishes, TaskGoes, TasksInOrder, Goes
    <2>4. QED
      BY <2>1, <2>2, <2>3 DEF TaskStep
  <1>5. InstanceTypes'
    BY <1>1, <1>3
  <1>6. QED
    BY <1>2, <1>4, <1>5

\* A step keeps the inductive invariant.
LEMMA InstanceStepInv == InstanceInv /\ [InstanceNext]_instanceVars => InstanceInv'
  <1> SUFFICES ASSUME InstanceInv, [InstanceNext]_instanceVars PROVE InstanceInv'
    OBVIOUS
  <1>1. CASE StartStep \/ ShutdownStep
    <2>1. task' = task
      BY <1>1, PartsSpareTasks
    <2>2. QED
      BY <1>1, <2>1, PartTypes, PoolStaysInOrder, RiverStaysInOrder, HttpStaysInOrder, PartsSpareTasks
         DEF InstanceInv, InstanceTypes
  <1>2. CASE \E t \in Tasks : TaskStep(t)
    BY <1>2, TasksStep
  <1>3. CASE UNCHANGED instanceVars
    BY <1>3 DEF instanceVars, taskVars, InstanceInv, InstanceTypes, PoolInOrder, RiverInOrder,
          HttpInOrder, TasksInOrder, Goes
  <1>4. QED
    BY <1>1, <1>2, <1>3 DEF InstanceNext

(***************************************************************************)
(* However far the start got, whenever the process is told to stop and     *)
(* whatever requests and jobs are running: River never runs on a pool that *)
(* is being closed, a process that ends leaves neither a pool nor River    *)
(* behind, and a request or a job is cut short only when its own timeout   *)
(* has run out or the listener has failed.                                 *)
(***************************************************************************)
THEOREM ShutsDownInOrder == InstanceSpec => []ShutdownInOrder
  <1>1. InstanceInv => ShutdownInOrder
    BY DEF InstanceInv, InstanceTypes, Lifecycles, PoolInOrder, RiverInOrder, TasksInOrder,
       ShutdownInOrder
  <1>2. QED
    BY <1>1, InstanceInitInv, InstanceStepInv, PTL DEF InstanceSpec
=============================================================================
