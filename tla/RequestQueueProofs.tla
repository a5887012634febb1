-------------------------- MODULE RequestQueueProofs --------------------------
(****************************************************************************)
(* Proofs that RequestQueue keeps its invariants, and implements Turnstile, *)
(* for every set of requests, number of turns and line length.              *)
(****************************************************************************)
EXTENDS RequestQueue, FiniteSetTheorems, SequenceTheorems, TLAPS

-----------------------------------------------------------------------------
(* Facts about a line without repetitions *)

(* The members of a line over S are in S.                                   *)
LEMMA LineMembers ==
  ASSUME NEW S, NEW line \in Seq(S)
  PROVE  Range(line) \subseteq S
  <1>1. DOMAIN line = 1 .. Len(line)
    BY LenProperties
  <1>2. \A i \in 1 .. Len(line) : line[i] \in S
    BY LenProperties
  <1>3. QED
    BY <1>1, <1>2 DEF Range

(* Position finds a member of the line, and no other place holds it.        *)
LEMMA PositionFound ==
  ASSUME NEW S, NEW line \in Seq(S), NEW r \in Range(line)
  PROVE  /\ Position(line, r) \in 1 .. Len(line)
         /\ line[Position(line, r)] = r
  <1>1. DOMAIN line = 1 .. Len(line)
    BY LenProperties
  <1>2. PICK i \in DOMAIN line : line[i] = r
    BY DEF Range
  <1>3. QED
    BY <1>1, <1>2 DEF Position

(* In an injective line the place of a member is its Position.              *)
LEMMA PositionUnique ==
  ASSUME NEW S, NEW line \in Seq(S), IsInjective(line), NEW i \in 1 .. Len(line)
  PROVE  /\ line[i] \in Range(line)
         /\ Position(line, line[i]) = i
  <1>1. DOMAIN line = 1 .. Len(line)
    BY LenProperties
  <1>2. line[i] \in Range(line)
    BY <1>1 DEF Range
  <1>3. /\ Position(line, line[i]) \in 1 .. Len(line)
        /\ line[Position(line, line[i])] = line[i]
    BY <1>2, PositionFound
  <1>4. QED
    BY <1>1, <1>2, <1>3 DEF IsInjective

(* Lining up keeps the line injective and adds one member, at the end.      *)
LEMMA LineAppend ==
  ASSUME NEW S, NEW line \in Seq(S), IsInjective(line),
         NEW r \in S, r \notin Range(line)
  PROVE  /\ Append(line, r) \in Seq(S)
         /\ IsInjective(Append(line, r))
         /\ Range(Append(line, r)) = Range(line) \cup {r}
         /\ Position(Append(line, r), r) = Len(line) + 1
         /\ \A s \in Range(line) : Position(Append(line, r), s) = Position(line, s)
  <1> DEFINE longer == Append(line, r)
  <1>1. /\ longer \in Seq(S)
        /\ Len(longer) = Len(line) + 1
        /\ \A i \in 1 .. Len(line) : longer[i] = line[i]
        /\ longer[Len(line) + 1] = r
    BY AppendProperties
  <1>2. /\ DOMAIN line = 1 .. Len(line)
        /\ DOMAIN longer = 1 .. Len(line) + 1
        /\ Len(line) \in Nat
    BY <1>1, LenProperties
  <1>3. Range(longer) = Range(line) \cup {r}
    <2>1. Range(longer) \subseteq Range(line) \cup {r}
      BY <1>1, <1>2 DEF Range
    <2>2. Range(line) \cup {r} \subseteq Range(longer)
      BY <1>1, <1>2 DEF Range
    <2>3. QED
      BY <2>1, <2>2
  <1>4. IsInjective(longer)
    BY <1>1, <1>2 DEF IsInjective, Range
  <1>5. Position(longer, r) = Len(line) + 1
    <2>1. Len(line) + 1 \in 1 .. Len(longer)
      BY <1>1, <1>2
    <2>2. Position(longer, longer[Len(line) + 1]) = Len(line) + 1
      BY <1>1, <1>4, <2>1, PositionUnique
    <2>3. QED
      BY <1>1, <2>2
  <1>6. ASSUME NEW s \in Range(line)
        PROVE  Position(longer, s) = Position(line, s)
    <2>1. Position(line, s) \in 1 .. Len(line) /\ line[Position(line, s)] = s
      BY PositionFound
    <2>2. Position(line, s) \in 1 .. Len(longer) /\ longer[Position(line, s)] = s
      BY <1>1, <1>2, <2>1
    <2>3. QED
      BY <1>1, <1>4, <2>2, PositionUnique
  <1>7. QED
    BY <1>1, <1>3, <1>4, <1>5, <1>6

(* Nobody stands further back in the shorter line than in the longer one.   *)
MovesUp(shorter, line) ==
  \A i \in 1 .. Len(shorter) :
    \E j \in 1 .. Len(line) : i <= j /\ shorter[i] = line[j]

(* Leaving the line keeps it injective and takes out that member only; the  *)
(* others move up, or stay.                                                 *)
LEMMA LineRemove ==
  ASSUME NEW S, NEW line \in Seq(S), IsInjective(line), NEW k \in 1 .. Len(line)
  PROVE  /\ RemoveAt(line, k) \in Seq(S)
         /\ Len(RemoveAt(line, k)) = Len(line) - 1
         /\ MovesUp(RemoveAt(line, k), line)
         /\ IsInjective(RemoveAt(line, k))
         /\ Range(RemoveAt(line, k)) = Range(line) \ {line[k]}
  <1> DEFINE n == Len(line)
             shorter == RemoveAt(line, k)
             front == SubSeq(line, 1, k - 1)
             back == SubSeq(line, k + 1, n)
  <1>0. k \in Nat /\ 1 <= k /\ k <= n
    BY LenProperties
  <1>1. n \in Nat /\ DOMAIN line = 1 .. n /\ \A i \in 1 .. n : line[i] \in S
    BY LenProperties
  <1>2. /\ front \in Seq(S)
        /\ Len(front) = k - 1
        /\ \A i \in 1 .. k - 1 : front[i] = line[i]
    <2>1. \A i \in 1 .. k - 1 : line[i] \in S
      BY <1>1
    <2>2. QED
      BY <1>1, <2>1, SubSeqProperties
  <1>3. /\ back \in Seq(S)
        /\ Len(back) = n - k
        /\ \A i \in 1 .. n - k : back[i] = line[k + i]
    <2>1. \A i \in k + 1 .. n : line[i] \in S
      BY <1>1
    <2>2. /\ back \in Seq(S)
          /\ Len(back) = IF k + 1 <= n THEN n - (k + 1) + 1 ELSE 0
          /\ \A i \in 1 .. n - (k + 1) + 1 : back[i] = line[(k + 1) + i - 1]
      BY <1>1, <2>1, SubSeqProperties
    <2> HIDE DEF back
    <2>3. n - (k + 1) + 1 = n - k
      BY <1>0, <1>1
    <2>4. Len(back) = n - k
      <3> HIDE DEF n
      <3>1. CASE k + 1 <= n
        BY <2>2, <2>3, <3>1
      <3>2. CASE ~(k + 1 <= n)
        <4>1. n - k = 0
          BY <1>0, <1>1, <3>2
        <4>2. QED
          BY <2>2, <3>2, <4>1
      <3>3. QED
        BY <3>1, <3>2
    <2>5. \A i \in 1 .. n - k : (k + 1) + i - 1 = k + i
      BY <1>0, <1>1
    <2>6. QED
      BY <2>2, <2>3, <2>4, <2>5
  <1>4. /\ shorter \in Seq(S)
        /\ Len(shorter) = n - 1
        /\ \A i \in 1 .. n - 1 :
             shorter[i] = IF i <= k - 1 THEN line[i] ELSE line[i + 1]
    <2>1. /\ shorter \in Seq(S)
          /\ Len(shorter) = Len(front) + Len(back)
          /\ \A i \in 1 .. Len(front) + Len(back) :
               shorter[i] = IF i <= Len(front) THEN front[i]
                                               ELSE back[i - Len(front)]
      BY <1>2, <1>3, ConcatProperties DEF RemoveAt
    <2> HIDE DEF front, back, shorter
    <2>2. Len(shorter) = n - 1
      BY <1>1, <1>2, <1>3, <2>1
    <2>3. ASSUME NEW i \in 1 .. n - 1
          PROVE  shorter[i] = IF i <= k - 1 THEN line[i] ELSE line[i + 1]
      <3> HIDE DEF n
      <3>1. i \in 1 .. (k - 1) + (n - k)
        BY <1>0, <1>1
      <3>2. shorter[i] = IF i <= k - 1 THEN front[i] ELSE back[i - (k - 1)]
        BY <1>2, <1>3, <2>1, <3>1
      <3>3. CASE i <= k - 1
        BY <1>0, <1>1, <1>2, <3>2, <3>3
      <3>4. CASE ~(i <= k - 1)
        <4>1. i - (k - 1) \in 1 .. n - k /\ k + (i - (k - 1)) = i + 1
          BY <1>0, <1>1, <3>4
        <4>2. back[i - (k - 1)] = line[i + 1]
          BY <1>3, <4>1
        <4>3. QED
          BY <3>2, <3>4, <4>2
      <3>5. QED
        BY <3>3, <3>4
    <2>4. QED
      BY <2>1, <2>2, <2>3
  <1>5. DOMAIN shorter = 1 .. n - 1
    BY <1>4, LenProperties
  <1> HIDE DEF front, back, shorter
  <1>6. IsInjective(shorter)
    <2> SUFFICES ASSUME NEW a \in 1 .. n - 1, NEW b \in 1 .. n - 1,
                        shorter[a] = shorter[b]
                 PROVE  a = b
      BY <1>5 DEF IsInjective
    <2> DEFINE from(i) == IF i <= k - 1 THEN i ELSE i + 1
    <2>1. /\ from(a) \in 1 .. n /\ shorter[a] = line[from(a)]
          /\ from(b) \in 1 .. n /\ shorter[b] = line[from(b)]
      BY <1>0, <1>1, <1>4
    <2>2. from(a) = from(b)
      BY <1>1, <2>1 DEF IsInjective
    <2>3. QED
      BY <1>0, <1>1, <2>2
  <1>7. Range(shorter) \subseteq Range(line) \ {line[k]}
    <2> SUFFICES ASSUME NEW i \in 1 .. n - 1
                 PROVE  shorter[i] \in Range(line) \ {line[k]}
      BY <1>5 DEF Range
    <2> DEFINE from == IF i <= k - 1 THEN i ELSE i + 1
    <2>1. from \in 1 .. n /\ from # k /\ shorter[i] = line[from]
      BY <1>0, <1>1, <1>4
    <2> HIDE DEF from
    <2>2. k \in 1 .. n /\ line[from] # line[k]
      BY <1>0, <1>1, <2>1 DEF IsInjective
    <2>3. QED
      BY <1>1, <2>1, <2>2 DEF Range
  <1>8. Range(line) \ {line[k]} \subseteq Range(shorter)
    <2> SUFFICES ASSUME NEW i \in 1 .. n, line[i] # line[k]
                 PROVE  line[i] \in Range(shorter)
      BY <1>1 DEF Range
    <2>1. CASE i < k
      <3>1. i \in 1 .. n - 1 /\ shorter[i] = line[i]
        BY <1>1, <1>4, <2>1
      <3>2. QED
        BY <1>5, <3>1 DEF Range
    <2>2. CASE i > k
      <3>1. i - 1 \in 1 .. n - 1 /\ shorter[i - 1] = line[i]
        BY <1>1, <1>4, <2>2
      <3>2. QED
        BY <1>5, <3>1 DEF Range
    <2>3. QED
      BY <1>1, <2>1, <2>2
  <1>9. MovesUp(shorter, line)
    <2> SUFFICES ASSUME NEW i \in 1 .. n - 1
                 PROVE  \E j \in 1 .. n : i <= j /\ shorter[i] = line[j]
      BY <1>4 DEF MovesUp
    <2>1. CASE i <= k - 1
      BY <1>0, <1>1, <1>4, <2>1
    <2>2. CASE ~(i <= k - 1)
      <3>1. i + 1 \in 1 .. n /\ i <= i + 1
        BY <1>1
      <3>2. shorter[i] = line[i + 1]
        BY <1>4, <2>2
      <3>3. QED
        BY <3>1, <3>2
    <2>3. QED
      BY <2>1, <2>2
  <1>10. QED
    BY <1>4, <1>6, <1>7, <1>8, <1>9 DEF shorter

(* The turn goes to the head: the rest of the line is the line without it.  *)
LEMMA LineTail ==
  ASSUME NEW S, NEW line \in Seq(S), IsInjective(line), line # <<>>
  PROVE  /\ Head(line) \in Range(line)
         /\ Tail(line) \in Seq(S)
         /\ Len(Tail(line)) = Len(line) - 1
         /\ IsInjective(Tail(line))
         /\ Range(Tail(line)) = Range(line) \ {Head(line)}
         /\ MovesUp(Tail(line), line)
  <1>1. Len(line) \in Nat \ {0} /\ DOMAIN line = 1 .. Len(line)
    BY EmptySeq, LenProperties
  <1>2. /\ Tail(line) \in Seq(S)
        /\ Len(Tail(line)) = Len(line) - 1
        /\ \A i \in 1 .. Len(Tail(line)) : Tail(line)[i] = line[i + 1]
    BY HeadTailProperties
  <1>3. Head(line) = line[1] /\ 1 \in 1 .. Len(line)
    BY <1>1
  <1>4. DOMAIN Tail(line) = 1 .. Len(line) - 1
    BY <1>2, LenProperties
  <1>5. IsInjective(Tail(line))
    BY <1>1, <1>2, <1>4 DEF IsInjective
  <1>6. Range(Tail(line)) \subseteq Range(line) \ {Head(line)}
    BY <1>1, <1>2, <1>3, <1>4 DEF Range, IsInjective
  <1>7. Range(line) \ {Head(line)} \subseteq Range(Tail(line))
    <2> SUFFICES ASSUME NEW i \in 1 .. Len(line), line[i] # Head(line)
                 PROVE  line[i] \in Range(Tail(line))
      BY <1>1 DEF Range
    <2>1. i - 1 \in 1 .. Len(line) - 1 /\ Tail(line)[i - 1] = line[i]
      BY <1>1, <1>2, <1>3
    <2>2. QED
      BY <1>4, <2>1 DEF Range
  <1>8. MovesUp(Tail(line), line)
    <2> SUFFICES ASSUME NEW i \in 1 .. Len(line) - 1
                 PROVE  \E j \in 1 .. Len(line) : i <= j /\ Tail(line)[i] = line[j]
      BY <1>2 DEF MovesUp
    <2>1. i + 1 \in 1 .. Len(line) /\ i <= i + 1 /\ Tail(line)[i] = line[i + 1]
      BY <1>1, <1>2
    <2>2. QED
      BY <2>1
  <1>9. QED
    BY <1>1, <1>2, <1>3, <1>5, <1>6, <1>7, <1>8 DEF Range

-----------------------------------------------------------------------------
(* Channels *)

(* A number sent behind numbers that are no grant is the newest, and the    *)
(* only one that may be a grant.                                            *)
LEMMA Send ==
  ASSUME NEW ch \in Seq(Nat), NEW v \in Nat,
         \A i \in DOMAIN ch : ch[i] # Granted
  PROVE  /\ Append(ch, v) \in Seq(Nat)
         /\ Append(ch, v) # <<>>
         /\ Last(Append(ch, v)) = v
         /\ \A i \in DOMAIN Append(ch, v) :
              i < Len(Append(ch, v)) => Append(ch, v)[i] # Granted
  <1> DEFINE longer == Append(ch, v)
  <1>1. /\ longer \in Seq(Nat)
        /\ longer # <<>>
        /\ Len(longer) = Len(ch) + 1
        /\ \A i \in 1 .. Len(ch) : longer[i] = ch[i]
        /\ longer[Len(ch) + 1] = v
    BY AppendProperties
  <1>2. /\ Len(ch) \in Nat
        /\ DOMAIN ch = 1 .. Len(ch)
        /\ DOMAIN longer = 1 .. Len(ch) + 1
    BY <1>1, LenProperties
  <1>3. Last(longer) = v
    BY <1>1 DEF Last
  <1>4. ASSUME NEW i \in DOMAIN longer, i < Len(longer)
        PROVE  longer[i] # Granted
    <2>1. i \in 1 .. Len(ch)
      BY <1>1, <1>2, <1>4
    <2>2. QED
      BY <1>1, <1>2, <2>1
  <1>5. QED
    BY <1>1, <1>3, <1>4

(* _notify_positions leaves the channels outside the line alone.            *)
LEMMA NotifyTouches ==
  ASSUME NEW channels \in [Requests -> Seq(Nat)],
         NEW line \in Seq(Requests)
  PROVE  /\ NotifyPositions(channels, line) \in [Requests -> Seq(Nat)]
         /\ \A r \in Requests :
              /\ r \notin Range(line) =>
                   NotifyPositions(channels, line)[r] = channels[r]
              /\ r \in Range(line) =>
                   NotifyPositions(channels, line)[r]
                     = Append(channels[r], Position(line, r))
  <1>1. ASSUME NEW r \in Range(line)
        PROVE  Position(line, r) \in Nat
    BY PositionFound, LenProperties
  <1>2. ASSUME NEW r \in Requests
        PROVE  (IF r \in Range(line) THEN Append(channels[r], Position(line, r))
                                     ELSE channels[r]) \in Seq(Nat)
    BY <1>1, AppendProperties
  <1>3. QED
    BY <1>2 DEF NotifyPositions

(* A truthful channel whose place is not a grant holds no grant.            *)
LEMMA NoGrantBefore ==
  ASSUME NEW ch \in Seq(Nat), NEW shown, NEW place,
         Truthful(ch, shown, place), place # Granted
  PROVE  \A i \in DOMAIN ch : ch[i] # Granted
  <1>1. Len(ch) \in Nat /\ DOMAIN ch = 1 .. Len(ch)
    BY LenProperties
  <1> SUFFICES ASSUME NEW i \in 1 .. Len(ch)
               PROVE  ch[i] # Granted
    BY <1>1
  <1>2. CASE i < Len(ch)
    BY <1>1, <1>2 DEF Truthful
  <1>3. CASE i = Len(ch)
    <2>1. ch # <<>>
      BY <1>3, EmptySeq
    <2>2. QED
      BY <1>3, <2>1 DEF Truthful, Last
  <1>4. i < Len(ch) \/ i = Len(ch)
    BY LenProperties
  <1>5. QED
    BY <1>2, <1>3, <1>4

(* Reading the head of a truthful channel leaves it truthful; a grant that  *)
(* is read was the last number in it.                                       *)
LEMMA ReadHead ==
  ASSUME NEW ch \in Seq(Nat), NEW shown, NEW place,
         Truthful(ch, shown, place), ch # <<>>
  PROVE  /\ Head(ch) \in Nat
         /\ Tail(ch) \in Seq(Nat)
         /\ Truthful(Tail(ch), Head(ch), place)
         /\ Head(ch) = Granted => place = Granted
  <1>1. /\ Len(ch) \in Nat \ {0} /\ DOMAIN ch = 1 .. Len(ch)
        /\ Head(ch) \in Nat /\ Head(ch) = ch[1]
    BY EmptySeq, LenProperties, HeadTailProperties
  <1>2. /\ Tail(ch) \in Seq(Nat)
        /\ Len(Tail(ch)) = Len(ch) - 1
        /\ DOMAIN Tail(ch) = 1 .. Len(ch) - 1
        /\ \A i \in 1 .. Len(ch) - 1 : Tail(ch)[i] = ch[i + 1]
    BY HeadTailProperties, LenProperties
  <1>3. Last(ch) = place
    BY DEF Truthful
  <1>4. CASE Len(ch) = 1
    <2>1. Tail(ch) = <<>>
      BY <1>2, <1>4, EmptySeq
    <2>2. Head(ch) = place
      BY <1>1, <1>3, <1>4 DEF Last
    <2>3. QED
      BY <1>1, <1>2, <1>4, <2>1, <2>2 DEF Truthful
  <1>5. CASE Len(ch) # 1
    <2>1. Tail(ch) # <<>> /\ Last(Tail(ch)) = Last(ch)
      <3>1. Len(ch) - 1 \in 1 .. Len(ch) - 1
        BY <1>1, <1>5
      <3>2. Tail(ch)[Len(ch) - 1] = ch[Len(ch)]
        BY <1>1, <1>2, <3>1
      <3>3. Tail(ch) # <<>>
        <4>1. Len(Tail(ch)) # 0
          BY <1>1, <1>2, <1>5
        <4>2. QED
          BY <4>1, EmptySeq
      <3>4. QED
        BY <1>2, <3>2, <3>3 DEF Last
    <2>2. Head(ch) # Granted
      BY <1>1, <1>5 DEF Truthful
    <2>3. \A i \in DOMAIN Tail(ch) : i < Len(Tail(ch)) => Tail(ch)[i] # Granted
      BY <1>1, <1>2 DEF Truthful
    <2>4. QED
      BY <1>1, <1>2, <1>3, <2>1, <2>2, <2>3 DEF Truthful
  <1>6. QED
    BY <1>4, <1>5

-----------------------------------------------------------------------------
(* The inductive invariant *)

(* Each part needs the others: the counter can only be trusted because a    *)
(* grant is never found by somebody still in line, the line because only    *)
(* those who wait are in it, the grants because they come last.             *)
IInv == /\ TypeOK
        /\ TurnsAccounted
        /\ NoIdleTurn
        /\ LineSound
        /\ ChannelsTruthful

(* A new queue satisfies the invariant.                                     *)
LEMMA InitIInv == Init => IInv
  <1> SUFFICES ASSUME Init
               PROVE  IInv
    OBVIOUS
  <1>1. Range(waiters) = {} /\ IsInjective(waiters) /\ Len(waiters) = 0
    BY DEF Init, Range, IsInjective
  <1>2. TypeOK
    BY MaxConcurrentAssumption DEF Init, TypeOK, Phases
  <1>3. TurnHolders = {}
    BY DEF Init, TurnHolders
  <1>4. TurnsAccounted
    BY <1>3, FS_EmptySet DEF Init, TurnsAccounted
  <1>5. NoIdleTurn
    BY DEF Init, NoIdleTurn
  <1>6. LineSound
    BY <1>1, MaxQueueSizeAssumption DEF LineSound
  <1>7. ChannelsTruthful
    BY DEF Init, ChannelsTruthful, ChannelTruthful
  <1>8. QED
    BY <1>2, <1>4, <1>5, <1>6, <1>7 DEF IInv

(* A step that leaves the line, the channels and the positions alone keeps  *)
(* what they say of every request that went on waiting.                     *)
LEMMA QuietStep ==
  ASSUME IInv, NEW r \in Requests, phase[r] # "waiting", NEW p \in Phases,
         p \notin {"new", "waiting"}, phase' = [phase EXCEPT ![r] = p],
         UNCHANGED <<waiters, channel, announced>>
  PROVE  LineSound' /\ ChannelsTruthful'
  <1>1. \A q \in Requests : /\ (phase'[q] = "waiting") = (phase[q] = "waiting")
                             /\ phase'[q] = "new" => phase[q] = "new"
    <2>1. \A q \in Requests : phase'[q] = IF q = r THEN p ELSE phase[q]
      BY DEF IInv, TypeOK
    <2>2. p # "new" /\ p # "waiting"
      OBVIOUS
    <2>3. QED
      BY <2>1, <2>2
  <1>2. Range(waiters) \subseteq Requests
    BY LineMembers DEF IInv, TypeOK
  <1>3. LineSound'
    BY <1>1, <1>2 DEF IInv, LineSound
  <1>4. ChannelsTruthful'
    BY <1>1 DEF IInv, ChannelsTruthful, ChannelTruthful
  <1>5. QED
    BY <1>3, <1>4

(* acquire() takes a free turn: one holder more, one active more.           *)
LEMMA TakeStep ==
  ASSUME IInv, NEW r \in Requests, Take(r)
  PROVE  IInv' /\ TurnHolders' = TurnHolders \cup {r} /\ r \notin TurnHolders
  <1>1. r \notin TurnHolders /\ TurnHolders' = TurnHolders \cup {r}
    BY DEF Take, TurnHolders, IInv, TypeOK
  <1>2. TypeOK'
    BY MaxConcurrentAssumption DEF Take, IInv, TypeOK, Phases
  <1>3. TurnsAccounted'
    BY <1>1, FS_AddElement DEF Take, IInv, TurnsAccounted
  <1>4. NoIdleTurn'
    BY DEF Take, NoIdleTurn
  <1>5. LineSound' /\ ChannelsTruthful'
    BY QuietStep DEF Take, Phases
  <1>6. QED
    BY <1>1, <1>2, <1>3, <1>4, <1>5 DEF IInv

(* QueueFullError leaves the queue as it was.                               *)
LEMMA RejectStep ==
  ASSUME IInv, NEW r \in Requests, Reject(r)
  PROVE  IInv' /\ TurnHolders' = TurnHolders
  <1>1. TurnHolders' = TurnHolders
    BY DEF Reject, TurnHolders, IInv, TypeOK
  <1>2. TypeOK'
    BY DEF Reject, IInv, TypeOK, Phases
  <1>3. TurnsAccounted' /\ NoIdleTurn'
    BY <1>1 DEF Reject, IInv, TurnsAccounted, NoIdleTurn
  <1>4. LineSound' /\ ChannelsTruthful'
    BY QuietStep DEF Reject, Phases
  <1>5. QED
    BY <1>1, <1>2, <1>3, <1>4 DEF IInv

(* A newcomer lines up at the end, and knows its place.                     *)
LEMMA JoinStep ==
  ASSUME IInv, NEW r \in Requests, Join(r)
  PROVE  /\ IInv'
         /\ TurnHolders' = TurnHolders
         /\ r \notin TurnHolders /\ r \notin Range(waiters)
         /\ active = MaxConcurrent
  <1>1. /\ waiters \in Seq(Requests) /\ IsInjective(waiters)
        /\ r \notin Range(waiters) /\ r \notin TurnHolders
    BY DEF Join, IInv, TypeOK, LineSound, TurnHolders
  <1>2. /\ waiters' \in Seq(Requests)
        /\ Len(waiters') = Len(waiters) + 1
        /\ Len(waiters) \in Nat
        /\ IsInjective(waiters')
        /\ Range(waiters') = Range(waiters) \cup {r}
        /\ Position(waiters', r) = Len(waiters')
        /\ \A s \in Range(waiters) : Position(waiters', s) = Position(waiters, s)
    BY <1>1, LineAppend, AppendProperties, LenProperties DEF Join
  <1>3. \A q \in Requests : phase'[q] = IF q = r THEN "waiting" ELSE phase[q]
    BY DEF Join, IInv, TypeOK
  <1>4. TurnHolders' = TurnHolders
    BY <1>1, <1>2, <1>3 DEF Join, TurnHolders
  <1>5. active = MaxConcurrent
    BY MaxConcurrentAssumption DEF Join, IInv, TypeOK, NoIdleTurn
  <1>6. TypeOK'
    BY <1>2 DEF Join, IInv, TypeOK, Phases
  <1>7. TurnsAccounted' /\ NoIdleTurn'
    BY <1>4, <1>5 DEF Join, IInv, TurnsAccounted, NoIdleTurn
  <1>8. LineSound'
    <2>1. Len(waiters') <= MaxQueueSize
      BY <1>2, MaxQueueSizeAssumption DEF Join, IsFull
    <2>2. \A q \in Range(waiters') : phase'[q] = "waiting"
      <3>1. Range(waiters) \subseteq Requests
        BY <1>1, LineMembers
      <3>2. QED
        BY <1>2, <1>3, <3>1 DEF IInv, LineSound
    <2>3. QED
      BY <1>2, <2>1, <2>2 DEF LineSound
  <1>9. ChannelsTruthful'
    <2> SUFFICES ASSUME NEW q \in Requests
                 PROVE  ChannelTruthful(q)'
      BY DEF ChannelsTruthful
    <2>1. CASE q = r
      <3>1. channel'[r] = <<>> /\ announced'[r] = Len(waiters')
        BY DEF Join, IInv, TypeOK, ChannelsTruthful, ChannelTruthful
      <3>2. QED
        BY <1>2, <1>3, <2>1, <3>1 DEF ChannelTruthful, Truthful
    <2>2. CASE q # r
      <3>1. announced'[q] = announced[q] /\ channel'[q] = channel[q]
        BY <2>2 DEF Join, IInv, TypeOK
      <3>2. q \in Range(waiters') <=> q \in Range(waiters)
        BY <1>2, <2>2
      <3>3. QED
        BY <1>2, <1>3, <2>2, <3>1, <3>2
        DEF IInv, ChannelsTruthful, ChannelTruthful
    <2>3. QED
      BY <2>1, <2>2
  <1>10. QED
    BY <1>1, <1>4, <1>5, <1>6, <1>7, <1>8, <1>9 DEF IInv

(* A caller in line reads a position, and yields it.                        *)
LEMMA AdvanceStep ==
  ASSUME IInv, NEW r \in Requests, Advance(r)
  PROVE  IInv' /\ TurnHolders' = TurnHolders
  <1> DEFINE place == IF r \in Range(waiters) THEN Position(waiters, r)
                                              ELSE Granted
  <1>1. channel[r] \in Seq(Nat) /\ Truthful(channel[r], announced[r], place)
    BY DEF Advance, IInv, TypeOK, ChannelsTruthful, ChannelTruthful
  <1>2. /\ Head(channel[r]) \in Nat
        /\ Tail(channel[r]) \in Seq(Nat)
        /\ Truthful(Tail(channel[r]), Head(channel[r]), place)
    <2> HIDE DEF place
    <2>1. QED
      BY <1>1, ReadHead DEF Advance
  <1>3. TurnHolders' = TurnHolders
    BY DEF Advance, TurnHolders
  <1>4. TypeOK'
    BY <1>2 DEF Advance, IInv, TypeOK
  <1>5. TurnsAccounted' /\ NoIdleTurn' /\ LineSound'
    BY <1>3 DEF Advance, IInv, TurnsAccounted, NoIdleTurn, LineSound
  <1>6. ChannelsTruthful'
    <2> SUFFICES ASSUME NEW q \in Requests
                 PROVE  ChannelTruthful(q)'
      BY DEF ChannelsTruthful
    <2>1. CASE q = r
      BY <1>2, <2>1 DEF Advance, IInv, TypeOK, ChannelTruthful
    <2>2. CASE q # r
      BY <2>2 DEF Advance, IInv, TypeOK, ChannelsTruthful, ChannelTruthful
    <2>3. QED
      BY <2>1, <2>2
  <1>7. QED
    BY <1>3, <1>4, <1>5, <1>6 DEF IInv

(* A caller that reads a grant was taken out of the line before.            *)
LEMMA TakeGrantedStep ==
  ASSUME IInv, NEW r \in Requests, TakeGranted(r)
  PROVE  IInv' /\ TurnHolders' = TurnHolders
  <1> DEFINE place == IF r \in Range(waiters) THEN Position(waiters, r)
                                              ELSE Granted
  <1>1. channel[r] \in Seq(Nat) /\ Truthful(channel[r], announced[r], place)
    BY DEF TakeGranted, IInv, TypeOK, ChannelsTruthful, ChannelTruthful
  <1>2. Tail(channel[r]) \in Seq(Nat) /\ place = Granted
    <2> HIDE DEF place
    <2>1. QED
      BY <1>1, ReadHead DEF TakeGranted
  <1>3. r \notin Range(waiters)
    <2>1. ASSUME r \in Range(waiters)
          PROVE  place \in 1 .. Len(waiters)
      BY <2>1, PositionFound DEF IInv, TypeOK
    <2>2. QED
      BY <1>2, <2>1 DEF Granted
  <1>4. \A q \in Requests : phase'[q] = IF q = r THEN "holding" ELSE phase[q]
    BY DEF TakeGranted, IInv, TypeOK
  <1>5. TurnHolders' = TurnHolders
    BY <1>3, <1>4 DEF TakeGranted, TurnHolders
  <1>6. TypeOK'
    BY <1>2 DEF TakeGranted, IInv, TypeOK, Phases
  <1>7. TurnsAccounted' /\ NoIdleTurn'
    BY <1>5 DEF TakeGranted, IInv, TurnsAccounted, NoIdleTurn
  <1>8. LineSound'
    <2>1. Range(waiters) \subseteq Requests
      BY LineMembers DEF IInv, TypeOK
    <2>2. QED
      BY <1>3, <1>4, <2>1 DEF TakeGranted, IInv, LineSound
  <1>9. ChannelsTruthful'
    BY <1>4 DEF TakeGranted, IInv, TypeOK, ChannelsTruthful, ChannelTruthful
  <1>10. QED
    BY <1>5, <1>6, <1>7, <1>8, <1>9 DEF IInv

(* After any change of the line that keeps it sound, telling everyone its   *)
(* place again makes the channels of those in line truthful.                *)
LEMMA NotifiedTruthful ==
  ASSUME IInv, NEW line \in Seq(Requests), IsInjective(line),
         Range(line) \subseteq Range(waiters),
         NEW channels \in [Requests -> Seq(Nat)],
         NEW q \in Range(line), channels[q] = channel[q]
  PROVE  Truthful(NotifyPositions(channels, line)[q], announced[q],
                  Position(line, q))
  <1>1. q \in Requests /\ phase[q] = "waiting" /\ q \in Range(waiters)
    BY LineMembers DEF IInv, LineSound
  <1>2. channel[q] \in Seq(Nat)
        /\ Truthful(channel[q], announced[q], Position(waiters, q))
    BY <1>1 DEF IInv, TypeOK, ChannelsTruthful, ChannelTruthful
  <1>3. Position(waiters, q) # Granted
    BY <1>1, PositionFound DEF IInv, TypeOK, Granted
  <1>4. \A i \in DOMAIN channel[q] : channel[q][i] # Granted
    BY <1>2, <1>3, NoGrantBefore
  <1>5. Position(line, q) \in Nat
    BY PositionFound
  <1>6. NotifyPositions(channels, line)[q] = Append(channel[q], Position(line, q))
    BY <1>1 DEF NotifyPositions
  <1>7. QED
    BY <1>2, <1>4, <1>5, <1>6, Send DEF Truthful

(* A turn given back with nobody in line: one holder less, one active less. *)
LEMMA TurnReturned ==
  ASSUME IInv, NEW r \in TurnHolders, waiters = <<>>, PassTurnOn,
         phase' = [phase EXCEPT ![r] = "gone"], UNCHANGED announced
  PROVE  IInv' /\ TurnHolders' = TurnHolders \ {r} /\ UNCHANGED waiters
  <1>1. r \in Requests /\ phase[r] \in {"holding", "waiting"}
    BY DEF TurnHolders
  <1>2. \A q \in Requests : phase'[q] = IF q = r THEN "gone" ELSE phase[q]
    BY DEF IInv, TypeOK
  <1>3. Range(waiters) = {}
    BY DEF Range
  <1>4. active' = active - 1 /\ UNCHANGED <<waiters, channel>>
    BY DEF PassTurnOn
  <1>5. TurnHolders' = TurnHolders \ {r}
    BY <1>1, <1>2, <1>4 DEF TurnHolders
  <1>6. /\ active = Cardinality(TurnHolders)
        /\ IsFiniteSet(TurnHolders \ {r})
        /\ Cardinality(TurnHolders \ {r}) = active - 1
    BY FS_RemoveElement DEF IInv, TurnsAccounted
  <1>7. active - 1 \in Nat
    BY <1>6, FS_CardinalityType
  <1>8. TypeOK'
    BY <1>1, <1>4, <1>7, MaxConcurrentAssumption DEF IInv, TypeOK, Phases
  <1>9. TurnsAccounted' /\ NoIdleTurn'
    BY <1>4, <1>5, <1>6 DEF TurnsAccounted, NoIdleTurn
  <1>10. LineSound'
    BY <1>3, <1>4 DEF IInv, LineSound
  <1>11. ChannelsTruthful'
    BY <1>2, <1>4 DEF IInv, ChannelsTruthful, ChannelTruthful
  <1>12. QED
    BY <1>4, <1>5, <1>8, <1>9, <1>10, <1>11 DEF IInv

(* A turn given back goes to the head of the line: one holder for another.  *)
LEMMA TurnHandedOver ==
  ASSUME IInv, NEW r \in TurnHolders, waiters # <<>>, PassTurnOn,
         phase' = [phase EXCEPT ![r] = "gone"], UNCHANGED announced
  PROVE  /\ IInv'
         /\ TurnHolders' = (TurnHolders \ {r}) \cup {Head(waiters)}
         /\ waiters' = Tail(waiters)
  <1> DEFINE h == Head(waiters)
             granted == [channel EXCEPT ![h] = Append(@, Granted)]
  <1>1. /\ r \in Requests /\ phase[r] \in {"holding", "waiting"}
        /\ r \notin Range(waiters)
    BY DEF TurnHolders, IInv, LineSound
  <1>2. \A q \in Requests : phase'[q] = IF q = r THEN "gone" ELSE phase[q]
    BY DEF IInv, TypeOK
  <1>3. /\ waiters' = Tail(waiters)
        /\ channel' = NotifyPositions(granted, waiters')
        /\ active' = active
    BY DEF PassTurnOn
  <1>4. waiters \in Seq(Requests) /\ IsInjective(waiters)
    BY DEF IInv, TypeOK, LineSound
  <1>5. /\ h \in Range(waiters)
        /\ waiters' \in Seq(Requests)
        /\ Len(waiters') = Len(waiters) - 1
        /\ IsInjective(waiters')
        /\ Range(waiters') = Range(waiters) \ {h}
    BY <1>3, <1>4, LineTail
  <1>6. /\ Range(waiters) \subseteq Requests
        /\ \A q \in Range(waiters) : phase[q] = "waiting"
    BY <1>4, LineMembers DEF IInv, LineSound
  <1>7. h \in Requests /\ phase[h] = "waiting" /\ h \notin TurnHolders /\ h # r
    BY <1>1, <1>5, <1>6 DEF TurnHolders
  <1> HIDE DEF h
  <1>8. TurnHolders' = (TurnHolders \ {r}) \cup {h}
    BY <1>1, <1>2, <1>5, <1>6, <1>7 DEF TurnHolders
  <1>9. /\ channel[h] \in Seq(Nat)
        /\ Truthful(channel[h], announced[h], Position(waiters, h))
        /\ Position(waiters, h) # Granted
    <2>1. Position(waiters, h) \in 1 .. Len(waiters)
      BY <1>4, <1>5, PositionFound
    <2>2. QED
      BY <1>5, <1>7, <2>1
      DEF Granted, IInv, TypeOK, ChannelsTruthful, ChannelTruthful
  <1>10. /\ Append(channel[h], Granted) \in Seq(Nat)
         /\ Truthful(Append(channel[h], Granted), announced[h], Granted)
    BY <1>9, NoGrantBefore, Send DEF Truthful, Granted
  <1>11. /\ granted \in [Requests -> Seq(Nat)]
         /\ granted[h] = Append(channel[h], Granted)
         /\ \A q \in Requests : q # h => granted[q] = channel[q]
    BY <1>7, <1>10 DEF IInv, TypeOK
  <1> HIDE DEF granted
  <1>12. TypeOK'
    BY <1>1, <1>3, <1>5, <1>11, NotifyTouches DEF IInv, TypeOK, Phases
  <1>13. TurnsAccounted'
    <2>1. IsFiniteSet(TurnHolders) /\ active = Cardinality(TurnHolders)
      BY DEF IInv, TurnsAccounted
    <2>2. /\ IsFiniteSet(TurnHolders \ {r})
          /\ Cardinality(TurnHolders \ {r}) = active - 1
      BY <2>1, FS_RemoveElement
    <2>3. /\ IsFiniteSet((TurnHolders \ {r}) \cup {h})
          /\ Cardinality((TurnHolders \ {r}) \cup {h}) = (active - 1) + 1
      BY <1>7, <2>2, FS_AddElement
    <2>4. (active - 1) + 1 = active
      BY MaxConcurrentAssumption DEF IInv, TypeOK
    <2>5. QED
      BY <1>3, <1>8, <2>3, <2>4 DEF TurnsAccounted
  <1>14. NoIdleTurn'
    BY <1>3 DEF IInv, NoIdleTurn
  <1>15. LineSound'
    <2>1. Len(waiters') <= MaxQueueSize
      BY <1>4, <1>5, LenProperties, MaxQueueSizeAssumption DEF IInv, LineSound
    <2>2. QED
      BY <1>1, <1>2, <1>5, <1>6, <2>1 DEF LineSound
  <1>16. ChannelsTruthful'
    <2> SUFFICES ASSUME NEW q \in Requests
                 PROVE  ChannelTruthful(q)'
      BY DEF ChannelsTruthful
    <2>1. CASE q \in Range(waiters')
      <3>1. channel'[q] = NotifyPositions(granted, waiters')[q]
            /\ granted[q] = channel[q] /\ announced'[q] = announced[q]
        BY <1>3, <1>5, <1>11, <2>1
      <3>2. Truthful(channel'[q], announced'[q], Position(waiters', q))
        BY <1>5, <1>11, <2>1, <3>1, NotifiedTruthful
      <3>3. phase'[q] = "waiting"
        BY <1>1, <1>2, <1>5, <1>6, <2>1
      <3>4. QED
        BY <2>1, <3>2, <3>3 DEF ChannelTruthful
    <2>2. CASE q = h
      <3>1. h \notin Range(waiters')
        BY <1>5
      <3>2. channel'[h] = Append(channel[h], Granted)
        BY <1>3, <1>5, <1>7, <1>11, <3>1, NotifyTouches
      <3>3. QED
        BY <1>2, <1>7, <1>10, <2>2, <3>1, <3>2 DEF ChannelTruthful
    <2>3. CASE q \notin Range(waiters)
      <3>1. q # h /\ q \notin Range(waiters')
        BY <1>5, <2>3
      <3>2. channel'[q] = channel[q]
        BY <1>3, <1>5, <1>11, <3>1, NotifyTouches
      <3>3. QED
        BY <1>2, <2>3, <3>1, <3>2
        DEF IInv, ChannelsTruthful, ChannelTruthful
    <2>4. QED
      BY <1>5, <2>1, <2>2, <2>3
  <1>17. QED
    BY <1>3, <1>8, <1>12, <1>13, <1>14, <1>15, <1>16 DEF IInv, h

(* Someone walks away from the line: no turn changes hands.                 *)
LEMMA LineLeft ==
  ASSUME IInv, NEW r \in Range(waiters),
         waiters' = RemoveAt(waiters, Position(waiters, r)),
         channel' = NotifyPositions(channel, waiters'),
         UNCHANGED active,
         phase' = [phase EXCEPT ![r] = "gone"], UNCHANGED announced
  PROVE  IInv' /\ TurnHolders' = TurnHolders
  <1>1. waiters \in Seq(Requests) /\ IsInjective(waiters)
    BY DEF IInv, TypeOK, LineSound
  <1>2. /\ Range(waiters) \subseteq Requests
        /\ \A q \in Range(waiters) : phase[q] = "waiting"
    BY <1>1, LineMembers DEF IInv, LineSound
  <1>3. \A q \in Requests : phase'[q] = IF q = r THEN "gone" ELSE phase[q]
    BY <1>2 DEF IInv, TypeOK
  <1>4. /\ waiters' \in Seq(Requests)
        /\ Len(waiters') = Len(waiters) - 1
        /\ IsInjective(waiters')
        /\ Range(waiters') = Range(waiters) \ {r}
    <2>1. /\ Position(waiters, r) \in 1 .. Len(waiters)
          /\ waiters[Position(waiters, r)] = r
      BY <1>1, PositionFound
    <2>2. QED
      BY <1>1, <2>1, LineRemove
  <1>5. TurnHolders' = TurnHolders
    BY <1>2, <1>3, <1>4 DEF TurnHolders
  <1>6. channel \in [Requests -> Seq(Nat)]
    BY DEF IInv, TypeOK
  <1>7. TypeOK'
    BY <1>2, <1>4, <1>6, NotifyTouches DEF IInv, TypeOK, Phases
  <1>8. waiters # <<>>
    BY DEF Range
  <1>9. TurnsAccounted' /\ NoIdleTurn'
    BY <1>5, <1>8 DEF IInv, TurnsAccounted, NoIdleTurn
  <1>10. LineSound'
    <2>1. Len(waiters') <= MaxQueueSize
      BY <1>1, <1>4, LenProperties, MaxQueueSizeAssumption DEF IInv, LineSound
    <2>2. QED
      BY <1>2, <1>3, <1>4, <2>1 DEF LineSound
  <1>11. ChannelsTruthful'
    <2> SUFFICES ASSUME NEW q \in Requests
                 PROVE  ChannelTruthful(q)'
      BY DEF ChannelsTruthful
    <2>1. CASE q \in Range(waiters')
      <3>1. Truthful(channel'[q], announced'[q], Position(waiters', q))
        BY <1>4, <1>6, <2>1, NotifiedTruthful
      <3>2. QED
        BY <1>2, <1>3, <1>4, <2>1, <3>1 DEF ChannelTruthful
    <2>2. CASE q \notin Range(waiters')
      <3>1. channel'[q] = channel[q]
        BY <1>4, <1>6, <2>2, NotifyTouches
      <3>2. q = r \/ q \notin Range(waiters)
        BY <1>4, <2>2
      <3>3. QED
        BY <1>3, <2>2, <3>1, <3>2
        DEF IInv, ChannelsTruthful, ChannelTruthful
    <2>3. QED
      BY <2>1, <2>2
  <1>12. QED
    BY <1>5, <1>7, <1>9, <1>10, <1>11 DEF IInv

-----------------------------------------------------------------------------
(* The steps of the specification *)

(* The turnstile counts as the queue does.                                  *)
LEMMA SameCardinality ==
  ASSUME NEW S
  PROVE  Abstract!Cardinality(S) = Cardinality(S)
  BY DEF Abstract!Cardinality, Cardinality, Abstract!IsFiniteSet, IsFiniteSet

(* release() gives the turn back, or to the head of the line.               *)
LEMMA ReleaseStep ==
  ASSUME IInv, NEW r \in Requests, Release(r)
  PROVE  IInv' /\ Abstract!Leave(r)
  <1>1. r \in TurnHolders
    BY DEF Release, TurnHolders
  <1>2. CASE waiters = <<>>
    BY <1>1, <1>2, TurnReturned DEF Release, Abstract!Leave
  <1>3. CASE waiters # <<>>
    BY <1>1, <1>3, TurnHandedOver DEF Release, Abstract!Leave
  <1>4. QED
    BY <1>2, <1>3

(* _abandon() leaves the line, or passes on the turn granted meanwhile.     *)
LEMMA AbandonStep ==
  ASSUME IInv, NEW r \in Requests, Abandon(r)
  PROVE  IInv' /\ (Abstract!GiveUp(r) \/ Abstract!Leave(r))
  <1>1. CASE r \in Range(waiters)
    <2>1. /\ waiters' = RemoveAt(waiters, Position(waiters, r))
          /\ channel' = NotifyPositions(channel, waiters')
          /\ UNCHANGED active
      BY <1>1 DEF Abandon
    <2>2. IInv' /\ TurnHolders' = TurnHolders
      BY <1>1, <2>1, LineLeft DEF Abandon
    <2>3. /\ Position(waiters, r) \in DOMAIN waiters
          /\ waiters[Position(waiters, r)] = r
      BY <1>1, PositionFound, LenProperties DEF IInv, TypeOK
    <2>4. QED
      BY <2>1, <2>2, <2>3 DEF Abstract!GiveUp, Abstract!RemoveAt, RemoveAt
  <1>2. CASE r \notin Range(waiters)
    <2>1. r \in TurnHolders /\ PassTurnOn
      BY <1>2 DEF Abandon, TurnHolders
    <2>2. CASE waiters = <<>>
      BY <2>1, <2>2, TurnReturned DEF Abandon, Abstract!Leave
    <2>3. CASE waiters # <<>>
      BY <2>1, <2>3, TurnHandedOver DEF Abandon, Abstract!Leave
    <2>4. QED
      BY <2>2, <2>3
  <1>3. QED
    BY <1>1, <1>2

(* Every step keeps the invariant and is a step of the turnstile, or one it *)
(* does not see.                                                            *)
LEMMA NextStep ==
  ASSUME IInv, [Next]_vars
  PROVE  IInv' /\ [Abstract!Next]_(Abstract!tvars)
  <1> USE DEF Abstract!tvars
  <1>1. ASSUME NEW r \in Requests, Take(r)
        PROVE  IInv' /\ [Abstract!Next]_(Abstract!tvars)
    <2>1. IInv' /\ TurnHolders' = TurnHolders \cup {r} /\ r \notin TurnHolders
      BY <1>1, TakeStep
    <2>2. Cardinality(TurnHolders) < MaxConcurrent /\ waiters = <<>>
      BY <1>1 DEF Take, IInv, TurnsAccounted
    <2>3. Abstract!Outside(r)
      BY <2>1, <2>2 DEF Abstract!Outside, Abstract!Range
    <2>4. Abstract!Enter(r)
      BY <1>1, <2>1, <2>2, <2>3, SameCardinality DEF Take, Abstract!Enter
    <2>5. QED
      BY <2>1, <2>4 DEF Abstract!Next
  <1>2. ASSUME NEW r \in Requests, Reject(r)
        PROVE  IInv' /\ [Abstract!Next]_(Abstract!tvars)
    BY <1>2, RejectStep DEF Reject
  <1>3. ASSUME NEW r \in Requests, Join(r)
        PROVE  IInv' /\ [Abstract!Next]_(Abstract!tvars)
    <2>1. /\ IInv' /\ TurnHolders' = TurnHolders
          /\ r \notin TurnHolders /\ r \notin Range(waiters)
          /\ active = MaxConcurrent
      BY <1>3, JoinStep
    <2>2. Len(waiters) \in Nat /\ Len(waiters) < MaxQueueSize
      BY <1>3, LenProperties, MaxQueueSizeAssumption DEF Join, IsFull, IInv, TypeOK
    <2>3. Abstract!LineUp(r)
      BY <1>3, <2>1, <2>2, SameCardinality
      DEF Join, IInv, TurnsAccounted, Abstract!LineUp, Abstract!Outside,
          Abstract!Range, Range
    <2>4. QED
      BY <2>1, <2>3 DEF Abstract!Next
  <1>4. ASSUME NEW r \in Requests, Advance(r)
        PROVE  IInv' /\ [Abstract!Next]_(Abstract!tvars)
    BY <1>4, AdvanceStep DEF Advance
  <1>5. ASSUME NEW r \in Requests, TakeGranted(r)
        PROVE  IInv' /\ [Abstract!Next]_(Abstract!tvars)
    BY <1>5, TakeGrantedStep DEF TakeGranted
  <1>6. ASSUME NEW r \in Requests, Release(r)
        PROVE  IInv' /\ [Abstract!Next]_(Abstract!tvars)
    BY <1>6, ReleaseStep DEF Abstract!Next
  <1>7. ASSUME NEW r \in Requests, Abandon(r)
        PROVE  IInv' /\ [Abstract!Next]_(Abstract!tvars)
    BY <1>7, AbandonStep DEF Abstract!Next
  <1>8. CASE UNCHANGED vars
    <2>1. TurnHolders' = TurnHolders
      BY <1>8 DEF vars, TurnHolders
    <2>2. IInv'
      BY <1>8, <2>1 DEF vars, IInv, TypeOK, TurnsAccounted, NoIdleTurn,
                        LineSound, ChannelsTruthful, ChannelTruthful
    <2>3. QED
      BY <1>8, <2>1, <2>2 DEF vars
  <1>9. QED
    BY <1>1, <1>2, <1>3, <1>4, <1>5, <1>6, <1>7, <1>8 DEF Next, Quiescent

-----------------------------------------------------------------------------
(* Theorems *)

(* The inductive invariant holds in every behaviour.                        *)
LEMMA Invariance == Spec => []IInv
  <1>1. IInv /\ [Next]_vars => IInv'
    BY NextStep
  <1>2. QED
    BY InitIInv, <1>1, PTL DEF Spec

(* acquire(), release() and _abandon() keep every variable in its type:     *)
(* _active never leaves 0 .. max_concurrent.                                *)
THEOREM TypeCorrect == Spec => []TypeOK
  <1>1. IInv => TypeOK
    BY DEF IInv
  <1>2. QED
    BY <1>1, Invariance, PTL

(* No turn is lost or doubled on its way from release() to acquire(), also  *)
(* when the caller it was granted to leaves.                                *)
THEOREM NoTurnLost == Spec => []TurnsAccounted
  <1>1. IInv => TurnsAccounted
    BY DEF IInv
  <1>2. QED
    BY <1>1, Invariance, PTL

(* Nobody stands in line while a turn is free.                              *)
THEOREM WorkConserving == Spec => []NoIdleTurn
  <1>1. IInv => NoIdleTurn
    BY DEF IInv
  <1>2. QED
    BY <1>1, Invariance, PTL

(* _waiters has no duplicates, only waiting callers, and respects its bound.*)
THEOREM LineBounded == Spec => []LineSound
  <1>1. IInv => LineSound
    BY DEF IInv
  <1>2. QED
    BY <1>1, Invariance, PTL

(* A channel ends with the true place of its caller, or with its grant.     *)
THEOREM NoGrantLost == Spec => []ChannelsTruthful
  <1>1. IInv => ChannelsTruthful
    BY DEF IInv
  <1>2. QED
    BY <1>1, Invariance, PTL

(* With max_concurrent = 1, as in production, nobody shares the turn.       *)
OneAtATime ==
  MaxConcurrent = 1 =>
    \A p, q \in Requests : phase[p] = "holding" /\ phase[q] = "holding" => p = q

THEOREM TurnIsExclusive == Spec => []OneAtATime
  <1>1. IInv => OneAtATime
    <2> SUFFICES ASSUME IInv, MaxConcurrent = 1,
                        NEW p \in Requests, NEW q \in Requests,
                        phase[p] = "holding", phase[q] = "holding", p # q
                 PROVE  FALSE
      BY DEF OneAtATime
    <2>1. IsFiniteSet(TurnHolders) /\ Cardinality(TurnHolders) \in 0 .. 1
      BY DEF IInv, TypeOK, TurnsAccounted
    <2>2. {p, q} \subseteq TurnHolders
      BY DEF TurnHolders
    <2>3. Cardinality({p, q}) <= Cardinality(TurnHolders)
      BY <2>1, <2>2, FS_Subset
    <2>4. IsFiniteSet({p}) /\ Cardinality({p}) = 1
      BY FS_Singleton
    <2>5. Cardinality({p} \cup {q}) = 2
      BY <2>4, FS_AddElement
    <2>6. {p} \cup {q} = {p, q}
      OBVIOUS
    <2>7. QED
      BY <2>1, <2>3, <2>5, <2>6
  <1>2. QED
    BY <1>1, Invariance, PTL

(* request_queue.py is a first-come first-served turnstile (safety part of  *)
(* ImplementsTurnstile).                                                    *)
THEOREM RefinesTurnstile == Spec => Abstract!Spec
  <1>1. Init => Abstract!Init
    BY DEF Init, Abstract!Init, TurnHolders
  <1>2. IInv /\ [Next]_vars => [Abstract!Next]_(Abstract!tvars)
    BY NextStep
  <1>3. QED
    BY <1>1, <1>2, Invariance, PTL DEF Spec, Abstract!Spec

-----------------------------------------------------------------------------
(* The line only moves forward *)

(* What is still to be read in a channel after shown never grows.           *)
Shrinks(ch, shown) ==
  \A i \in DOMAIN ch :
    ch[i] # Granted => ch[i] <= IF i = 1 THEN shown ELSE ch[i - 1]

LineForward ==
  \A r \in Requests : /\ phase[r] = "new" => announced[r] = 0
                      /\ phase[r] = "waiting" => Shrinks(channel[r], announced[r])

LEMMA ShrinksAppend ==
  ASSUME NEW ch \in Seq(Nat), NEW shown \in Nat, Shrinks(ch, shown), NEW v \in Nat,
         v # Granted => v <= IF ch = <<>> THEN shown ELSE Last(ch)
  PROVE  Shrinks(Append(ch, v), shown)
  <1> DEFINE longer == Append(ch, v)
  <1>1. /\ Len(ch) \in Nat /\ DOMAIN ch = 1 .. Len(ch)
        /\ DOMAIN longer = 1 .. Len(ch) + 1
        /\ \A i \in 1 .. Len(ch) : longer[i] = ch[i]
        /\ longer[Len(ch) + 1] = v
    BY AppendProperties, LenProperties
  <1> HIDE DEF longer
  <1>2. ASSUME NEW i \in 1 .. Len(ch), longer[i] # Granted
        PROVE  longer[i] <= IF i = 1 THEN shown ELSE longer[i - 1]
    <2>1. CASE i = 1
      BY <1>1, <1>2, <2>1 DEF Shrinks
    <2>2. CASE i # 1
      <3>1. i - 1 \in 1 .. Len(ch)
        BY <1>1, <2>2
      <3>2. QED
        BY <1>1, <1>2, <2>2, <3>1 DEF Shrinks
    <2>3. QED
      BY <2>1, <2>2
  <1>3. ASSUME v # Granted
        PROVE  v <= IF Len(ch) + 1 = 1 THEN shown ELSE longer[Len(ch)]
    <2>1. CASE ch = <<>>
      BY <1>1, <1>3, <2>1, EmptySeq
    <2>2. CASE ch # <<>>
      BY <1>1, <1>3, <2>2, EmptySeq DEF Last
    <2>3. QED
      BY <2>1, <2>2
  <1>4. ASSUME NEW i \in 1 .. Len(ch) + 1, longer[i] # Granted
        PROVE  longer[i] <= IF i = 1 THEN shown ELSE longer[i - 1]
    <2>1. CASE i = Len(ch) + 1
      BY <1>1, <1>3, <1>4, <2>1
    <2>2. CASE i # Len(ch) + 1
      BY <1>1, <1>2, <1>4, <2>2
    <2>3. QED
      BY <2>1, <2>2
  <1>5. QED
    BY <1>1, <1>4 DEF Shrinks, longer

LEMMA ShrinksTail ==
  ASSUME NEW ch \in Seq(Nat), NEW shown, Shrinks(ch, shown), ch # <<>>
  PROVE  Shrinks(Tail(ch), Head(ch))
  <1>1. /\ Len(ch) \in Nat \ {0} /\ DOMAIN ch = 1 .. Len(ch)
        /\ DOMAIN Tail(ch) = 1 .. Len(ch) - 1
        /\ \A i \in 1 .. Len(ch) - 1 : Tail(ch)[i] = ch[i + 1]
        /\ Head(ch) = ch[1]
    BY EmptySeq, HeadTailProperties, LenProperties
  <1>2. ASSUME NEW i \in 1 .. Len(ch) - 1, Tail(ch)[i] # Granted
        PROVE  Tail(ch)[i] <= IF i = 1 THEN Head(ch) ELSE Tail(ch)[i - 1]
    <2>1. i + 1 \in 1 .. Len(ch) /\ i + 1 # 1 /\ (i + 1) - 1 = i
      BY <1>1
    <2>2. ch[i + 1] <= ch[i]
      BY <1>1, <1>2, <2>1 DEF Shrinks
    <2>3. CASE i = 1
      BY <1>1, <2>2, <2>3
    <2>4. CASE i # 1
      <3>1. i - 1 \in 1 .. Len(ch) - 1 /\ (i - 1) + 1 = i
        BY <1>1, <2>4
      <3>2. QED
        BY <1>1, <2>2, <2>4, <3>1
    <2>5. QED
      BY <2>3, <2>4
  <1>3. QED
    BY <1>1, <1>2 DEF Shrinks

(* Whoever stays in line when somebody leaves it moves up, or stays.        *)
LEMMA PlacesMoveUp ==
  ASSUME NEW S, NEW line \in Seq(S), IsInjective(line), NEW shorter \in Seq(S),
         MovesUp(shorter, line), NEW q \in Range(shorter)
  PROVE  Position(shorter, q) \in Nat /\ Position(shorter, q) <= Position(line, q)
  <1>1. Position(shorter, q) \in 1 .. Len(shorter) /\ shorter[Position(shorter, q)] = q
    BY PositionFound
  <1>2. PICK j \in 1 .. Len(line) : Position(shorter, q) <= j /\ q = line[j]
    BY <1>1 DEF MovesUp
  <1>3. Position(line, q) = j
    BY <1>2, PositionUnique
  <1>4. QED
    BY <1>1, <1>2, <1>3, LenProperties

(* Somebody leaves, and the others are told their places, or their grant.   *)
LEMMA MovedUp ==
  ASSUME IInv, LineForward, NEW r \in Requests,
         phase' = [phase EXCEPT ![r] = "gone"], UNCHANGED announced,
         waiters' \in Seq(Requests), Range(waiters') \subseteq Range(waiters),
         MovesUp(waiters', waiters),
         \A q \in Requests :
           \/ channel'[q] = channel[q]
           \/ channel'[q] = Append(channel[q], Granted)
           \/ /\ q \in Range(waiters')
              /\ channel'[q] = Append(channel[q], Position(waiters', q))
  PROVE  LineForward'
  <1> SUFFICES ASSUME NEW q \in Requests
               PROVE  /\ phase'[q] = "new" => announced'[q] = 0
                      /\ phase'[q] = "waiting" => Shrinks(channel'[q], announced'[q])
    BY DEF LineForward
  <1>1. phase'[q] = IF q = r THEN "gone" ELSE phase[q]
    BY DEF IInv, TypeOK
  <1>2. phase'[q] = "new" => announced'[q] = 0
    BY <1>1 DEF LineForward
  <1>3. ASSUME phase'[q] = "waiting"
        PROVE  Shrinks(channel'[q], announced[q])
    <2>1. phase[q] = "waiting" /\ Shrinks(channel[q], announced[q])
      BY <1>1, <1>3 DEF LineForward
    <2>2. channel[q] \in Seq(Nat) /\ announced[q] \in Nat /\ waiters \in Seq(Requests)
      BY DEF IInv, TypeOK
    <2>3. CASE channel'[q] = channel[q]
      BY <2>1, <2>3
    <2>4. CASE channel'[q] = Append(channel[q], Granted)
      <3>1. Granted \in Nat
        BY DEF Granted
      <3>2. QED
        BY <2>1, <2>2, <2>4, <3>1, ShrinksAppend
    <2>5. ASSUME q \in Range(waiters'),
                 channel'[q] = Append(channel[q], Position(waiters', q))
          PROVE  Shrinks(channel'[q], announced[q])
      <3>1. Truthful(channel[q], announced[q], Position(waiters, q))
        BY <2>1, <2>5 DEF IInv, ChannelsTruthful, ChannelTruthful
      <3>2. /\ Position(waiters', q) \in Nat
            /\ Position(waiters', q) <= Position(waiters, q)
        BY <2>2, <2>5, PlacesMoveUp DEF IInv, LineSound
      <3>3. Position(waiters', q)
              <= IF channel[q] = <<>> THEN announced[q] ELSE Last(channel[q])
        BY <3>1, <3>2 DEF Truthful
      <3>4. QED
        BY <2>1, <2>2, <2>5, <3>2, <3>3, ShrinksAppend
    <2>6. QED
      BY <2>3, <2>4, <2>5
  <1>4. QED
    BY <1>2, <1>3

(* release(), and _abandon() by a caller whose turn was granted.            *)
LEMMA PassedForward ==
  ASSUME IInv, LineForward, NEW r \in Requests, PassTurnOn,
         phase' = [phase EXCEPT ![r] = "gone"], UNCHANGED announced
  PROVE  LineForward'
  <1>1. waiters \in Seq(Requests) /\ channel \in [Requests -> Seq(Nat)]
    BY DEF IInv, TypeOK
  <1>2. CASE waiters = <<>>
    <2>1. UNCHANGED <<waiters, channel>> /\ Len(waiters) = 0
      BY <1>2 DEF PassTurnOn
    <2>2. waiters' \in Seq(Requests) /\ Range(waiters') \subseteq Range(waiters)
      BY <1>1, <2>1
    <2>3. MovesUp(waiters', waiters)
      BY <2>1 DEF MovesUp
    <2>4. \A q \in Requests : channel'[q] = channel[q]
      BY <2>1
    <2>5. QED
      BY <2>2, <2>3, <2>4, MovedUp
  <1>3. CASE waiters # <<>>
    <2> DEFINE granted == [channel EXCEPT ![Head(waiters)] = Append(@, Granted)]
    <2>1. waiters' = Tail(waiters) /\ channel' = NotifyPositions(granted, waiters')
      BY <1>3 DEF PassTurnOn
    <2>2. /\ Head(waiters) \in Range(waiters)
          /\ waiters' \in Seq(Requests)
          /\ Range(waiters') = Range(waiters) \ {Head(waiters)}
          /\ MovesUp(waiters', waiters)
      BY <1>1, <1>3, <2>1, LineTail DEF IInv, LineSound
    <2>3. Head(waiters) \in Requests
      BY <1>1, <2>2, LineMembers
    <2>4. Append(channel[Head(waiters)], Granted) \in Seq(Nat)
      <3>1. Granted \in Nat /\ channel[Head(waiters)] \in Seq(Nat)
        BY <1>1, <2>3 DEF Granted
      <3>2. QED
        BY <3>1, AppendProperties
    <2>5. /\ granted \in [Requests -> Seq(Nat)]
          /\ \A q \in Requests : granted[q] = IF q = Head(waiters)
                                              THEN Append(channel[q], Granted)
                                              ELSE channel[q]
      BY <1>1, <2>3, <2>4
    <2> HIDE DEF granted
    <2>6. ASSUME NEW q \in Requests
          PROVE  \/ channel'[q] = channel[q]
                 \/ channel'[q] = Append(channel[q], Granted)
                 \/ /\ q \in Range(waiters')
                    /\ channel'[q] = Append(channel[q], Position(waiters', q))
      <3>1. CASE q \in Range(waiters')
        <4>1. q # Head(waiters)
          BY <2>2, <3>1
        <4>2. channel'[q] = Append(granted[q], Position(waiters', q))
          BY <2>1, <2>2, <2>5, <3>1, NotifyTouches
        <4>3. QED
          BY <2>5, <3>1, <4>1, <4>2
      <3>2. CASE q \notin Range(waiters')
        <4>1. channel'[q] = granted[q]
          BY <2>1, <2>2, <2>5, <3>2, NotifyTouches
        <4>2. QED
          BY <2>5, <4>1
      <3>3. QED
        BY <3>1, <3>2
    <2>7. Range(waiters') \subseteq Range(waiters)
      BY <2>2
    <2>8. QED
      BY <2>2, <2>6, <2>7, MovedUp
  <1>4. QED
    BY <1>2, <1>3

(* _abandon() by a caller in line.                                          *)
LEMMA LeftForward ==
  ASSUME IInv, LineForward, NEW r \in Range(waiters),
         waiters' = RemoveAt(waiters, Position(waiters, r)),
         channel' = NotifyPositions(channel, waiters'),
         phase' = [phase EXCEPT ![r] = "gone"], UNCHANGED announced
  PROVE  LineForward'
  <1>1. /\ waiters \in Seq(Requests) /\ IsInjective(waiters)
        /\ channel \in [Requests -> Seq(Nat)] /\ r \in Requests
    BY LineMembers DEF IInv, TypeOK, LineSound
  <1>2. /\ Position(waiters, r) \in 1 .. Len(waiters)
        /\ waiters[Position(waiters, r)] = r
    BY <1>1, PositionFound
  <1>3. /\ waiters' \in Seq(Requests)
        /\ Range(waiters') = Range(waiters) \ {r}
        /\ MovesUp(waiters', waiters)
    BY <1>1, <1>2, LineRemove
  <1>4. \A q \in Requests :
          \/ channel'[q] = channel[q]
          \/ /\ q \in Range(waiters')
             /\ channel'[q] = Append(channel[q], Position(waiters', q))
    BY <1>1, <1>3, NotifyTouches
  <1>5. Range(waiters') \subseteq Range(waiters)
    BY <1>3
  <1>6. QED
    BY <1>1, <1>3, <1>4, <1>5, MovedUp

(* acquire(): the newcomer reads nothing until it is told something, and a  *)
(* caller that read one number has that one to compare the next with.       *)
LEMMA AcquireForward ==
  ASSUME IInv, LineForward, NEW r \in Requests,
         \/ Take(r) \/ Reject(r) \/ Join(r) \/ Advance(r) \/ TakeGranted(r)
  PROVE  LineForward'
  <1> SUFFICES ASSUME NEW q \in Requests
               PROVE  /\ phase'[q] = "new" => announced'[q] = 0
                      /\ phase'[q] = "waiting" => Shrinks(channel'[q], announced'[q])
    BY DEF LineForward
  <1>1. /\ phase \in [Requests -> Phases] /\ announced \in [Requests -> Nat]
        /\ channel \in [Requests -> Seq(Nat)]
        /\ phase[q] = "new" => announced[q] = 0
        /\ phase[q] = "waiting" => Shrinks(channel[q], announced[q])
    BY DEF IInv, TypeOK, LineForward
  <1>2. CASE q # r
    <2>1. /\ phase'[q] = phase[q] /\ announced'[q] = announced[q]
          /\ channel'[q] = channel[q]
      BY <1>1, <1>2 DEF Take, Reject, Join, Advance, TakeGranted
    <2>2. QED
      BY <1>1, <2>1
  <1>3. CASE q = r /\ (Take(r) \/ Reject(r) \/ TakeGranted(r))
    BY <1>1, <1>3 DEF Take, Reject, TakeGranted
  <1>4. CASE q = r /\ Join(r)
    <2>1. phase'[r] = "waiting" /\ channel'[r] = <<>>
      BY <1>1, <1>4 DEF Join, IInv, ChannelsTruthful, ChannelTruthful
    <2>2. QED
      BY <1>4, <2>1 DEF Shrinks
  <1>5. CASE q = r /\ Advance(r)
    <2>1. /\ phase'[r] = "waiting" /\ phase[r] = "waiting"
          /\ channel[r] # <<>> /\ channel[r] \in Seq(Nat)
          /\ channel'[r] = Tail(channel[r]) /\ announced'[r] = Head(channel[r])
      BY <1>1, <1>5 DEF Advance
    <2>2. Shrinks(channel'[r], announced'[r])
      BY <1>1, <1>5, <2>1, ShrinksTail
    <2>3. QED
      BY <1>5, <2>1, <2>2
  <1>6. QED
    BY <1>2, <1>3, <1>4, <1>5

(* Every step keeps what is still to be read from growing.                  *)
LEMMA ForwardStep ==
  ASSUME IInv, LineForward, [Next]_vars
  PROVE  LineForward'
  <1>1. ASSUME NEW r \in Requests, Release(r)
        PROVE  LineForward'
    BY <1>1, PassedForward DEF Release
  <1>2. ASSUME NEW r \in Requests, Abandon(r)
        PROVE  LineForward'
    <2>1. CASE r \in Range(waiters)
      BY <1>2, <2>1, LeftForward DEF Abandon
    <2>2. CASE r \notin Range(waiters)
      BY <1>2, <2>2, PassedForward DEF Abandon
    <2>3. QED
      BY <2>1, <2>2
  <1>3. CASE UNCHANGED vars
    BY <1>3 DEF vars, LineForward
  <1>4. QED
    BY <1>1, <1>2, <1>3, AcquireForward DEF Next, Quiescent

(* acquire() never yields a position behind the one it yielded before, and  *)
(* never yields none, whatever the others did between the two.              *)
THEOREM LineMovesForward == Spec => PositionsOnlyShrink
  <1>1. Init => LineForward
    BY DEF Init, LineForward
  <1>2. IInv /\ LineForward /\ [Next]_vars => LineForward'
    BY ForwardStep
  <1>3. ASSUME IInv, LineForward, [Next]_vars, NEW r \in Requests, announced[r] # 0
        PROVE  announced'[r] # 0 /\ announced'[r] <= announced[r]
    <2>1. announced \in [Requests -> Nat] /\ channel[r] \in Seq(Nat)
      BY <1>3 DEF IInv, TypeOK
    <2>2. CASE Join(r)
      BY <1>3, <2>2 DEF Join, LineForward
    <2>3. CASE Advance(r)
      <3>1. /\ Shrinks(channel[r], announced[r]) /\ channel[r] # <<>>
            /\ Head(channel[r]) # Granted /\ announced'[r] = Head(channel[r])
        BY <1>3, <2>1, <2>3 DEF Advance, LineForward
      <3>2. 1 \in DOMAIN channel[r] /\ Head(channel[r]) = channel[r][1]
        BY <2>1, <3>1, EmptySeq, LenProperties, HeadTailProperties
      <3>3. QED
        BY <3>1, <3>2 DEF Shrinks, Granted
    <2>4. CASE ~Join(r) /\ ~Advance(r)
      <3>1. announced'[r] = announced[r]
        BY <1>3, <2>1, <2>4
        DEF Next, Take, Reject, Join, Advance, TakeGranted, Release, Abandon,
            Quiescent, vars
      <3>2. QED
        BY <1>3, <2>1, <3>1
    <2>5. QED
      BY <2>2, <2>3, <2>4
  <1>4. IInv /\ LineForward /\ [Next]_vars =>
          [\A r \in Requests :
             announced[r] # 0 => announced'[r] # 0 /\ announced'[r] <= announced[r]]_vars
    BY <1>3
  <1>5. QED
    BY <1>1, <1>2, <1>4, Invariance, PTL DEF Spec, PositionsOnlyShrink
=============================================================================
