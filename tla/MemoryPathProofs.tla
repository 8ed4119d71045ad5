-------------------------- MODULE MemoryPathProofs --------------------------
(***************************************************************************)
(* Theorems about the buses of the memory path (the AXI-Lite master, the   *)
(* pipelined Wishbone master, the Wishbone bus) and the instruction cache, *)
(* each for every value of its parameters, and with them the statements of *)
(* the run about them.                                                     *)
(***************************************************************************)
EXTENDS MCMemoryPath, SequenceTheorems, FiniteSetTheorems, WellFoundedInduction, TLAPS

-----------------------------------------------------------------------------
(***************************************************************************)
(* Queues: what the first and the last element of a sequence are when it   *)
(* is made of parts.                                                       *)
(***************************************************************************)
LEMMA TailOfConcat ==
    ASSUME NEW S, NEW s \in Seq(S), NEW t \in Seq(S), s # <<>>
    PROVE  Tail(s \o t) = Tail(s) \o t /\ Head(s \o t) = Head(s) /\ s \o t # <<>>
<1>1. /\ s \o t \in Seq(S) /\ Len(s \o t) = Len(s) + Len(t)
      /\ \A i \in 1 .. Len(s) + Len(t) : (s \o t)[i] = IF i <= Len(s) THEN s[i] ELSE t[i - Len(s)]
  BY ConcatProperties
<1>2. Len(s) \in Nat \ {0} /\ Len(t) \in Nat
  BY EmptySeq, LenProperties
<1>3. s \o t # <<>>
  BY <1>1, <1>2, EmptySeq
<1>4. /\ Tail(s \o t) \in Seq(S) /\ Len(Tail(s \o t)) = Len(s) + Len(t) - 1
      /\ \A i \in 1 .. Len(s) + Len(t) - 1 : Tail(s \o t)[i] = (s \o t)[i + 1]
  <2>1. /\ Tail(s \o t) \in Seq(S) /\ Len(Tail(s \o t)) = Len(s \o t) - 1
        /\ \A i \in 1 .. Len(Tail(s \o t)) : Tail(s \o t)[i] = (s \o t)[i + 1]
    BY <1>1, <1>3, HeadTailProperties
  <2> QED BY <1>1, <2>1
<1>5. /\ Tail(s) \in Seq(S) /\ Len(Tail(s)) = Len(s) - 1
      /\ \A i \in 1 .. Len(s) - 1 : Tail(s)[i] = s[i + 1]
  <2>1. /\ Tail(s) \in Seq(S) /\ Len(Tail(s)) = Len(s) - 1
        /\ \A i \in 1 .. Len(Tail(s)) : Tail(s)[i] = s[i + 1]
    BY HeadTailProperties
  <2> QED BY <2>1
<1>6. /\ Tail(s) \o t \in Seq(S) /\ Len(Tail(s) \o t) = Len(s) + Len(t) - 1
      /\ \A i \in 1 .. Len(s) + Len(t) - 1 : (Tail(s) \o t)[i] =
            IF i <= Len(s) - 1 THEN Tail(s)[i] ELSE t[i - (Len(s) - 1)]
  <2>1. /\ Tail(s) \o t \in Seq(S) /\ Len(Tail(s) \o t) = Len(Tail(s)) + Len(t)
        /\ \A i \in 1 .. Len(Tail(s)) + Len(t) : (Tail(s) \o t)[i] =
              IF i <= Len(Tail(s)) THEN Tail(s)[i] ELSE t[i - Len(Tail(s))]
    BY <1>5, ConcatProperties
  <2>2. Len(Tail(s)) + Len(t) = Len(s) + Len(t) - 1
    BY <1>2, <1>5
  <2> QED BY <1>5, <2>1, <2>2
<1>7. ASSUME NEW i \in 1 .. Len(s) + Len(t) - 1
      PROVE  Tail(s \o t)[i] = (Tail(s) \o t)[i]
  <2>1. i + 1 \in 1 .. Len(s) + Len(t) /\ i + 1 - Len(s) = i - (Len(s) - 1)
    BY <1>2
  <2>2. Tail(s \o t)[i] = IF i + 1 <= Len(s) THEN s[i + 1] ELSE t[i + 1 - Len(s)]
    BY <1>1, <1>4, <2>1
  <2>3. CASE i + 1 <= Len(s)
    <3>1. i <= Len(s) - 1 /\ i \in 1 .. Len(s) - 1
      BY <1>2, <2>3
    <3> QED BY <1>5, <1>6, <2>2, <2>3, <3>1
  <2>4. CASE ~(i + 1 <= Len(s))
    <3>1. ~(i <= Len(s) - 1)
      BY <1>2, <2>4
    <3> QED BY <1>6, <2>1, <2>2, <2>4, <3>1
  <2> QED BY <2>3, <2>4
<1>8. Tail(s \o t) = Tail(s) \o t
  BY <1>4, <1>6, <1>7, SeqEqual
<1>9. Head(s \o t) = Head(s)
  <2>1. (s \o t)[1] = s[1]
    BY <1>1, <1>2
  <2> QED BY <1>1, <1>2, <1>3, <2>1
<1> QED BY <1>3, <1>8, <1>9

LEMMA HeadThenTail ==
    ASSUME NEW S, NEW s \in Seq(S), s # <<>>
    PROVE  <<Head(s)>> \o Tail(s) = s
<1>1. Len(s) \in Nat \ {0} /\ 1 \in 1 .. Len(s) /\ Len(s) \in 1 .. Len(s) /\ 1 + 1 = 2
  BY EmptySeq
<1>2. SubSeq(s, 1, Len(s)) = <<s[1]>> \o SubSeq(s, 1 + 1, Len(s))
  BY <1>1, SubSeqRecursiveFirst
<1>3. Tail(s) = SubSeq(s, 2, Len(s)) /\ SubSeq(s, 1, Len(s)) = s
  BY TailIsSubSeq, SubSeqFull
<1>4. Head(s) = s[1]
  BY <1>1
<1> QED BY <1>1, <1>2, <1>3, <1>4

LEMMA OneIsSeq == ASSUME NEW S, NEW e \in S PROVE <<e>> \in Seq(S) /\ Len(<<e>>) = 1
OBVIOUS

\* The sequences of at most one element.
AtMostOne(S) == {<<>>} \cup {<<t>> : t \in S}

LEMMA AtMostOneFacts ==
    ASSUME NEW S, NEW s \in AtMostOne(S), s # <<>>
    PROVE  s \in Seq(S) /\ Tail(s) = <<>> /\ <<Head(s)>> = s
<1>1. PICK t \in S : s = <<t>>
  BY DEF AtMostOne
<1> QED BY <1>1

LEMMA AtMostOneIsSeq == \A S : \A s \in AtMostOne(S) : s \in Seq(S)
BY AtMostOneFacts, EmptySeq

\* Concatenation as an operator the provers do not expand.
Cat(a, b) == a \o b

LEMMA CatFacts ==
    ASSUME NEW S, NEW a \in Seq(S), NEW b \in Seq(S)
    PROVE  /\ Cat(a, b) \in Seq(S) /\ Cat(a, <<>>) = a /\ Cat(<<>>, a) = a
           /\ a # <<>> => Tail(Cat(a, b)) = Cat(Tail(a), b) /\ Head(Cat(a, b)) = Head(a)
                          /\ Cat(<<Head(a)>>, Tail(a)) = a
BY ConcatProperties, ConcatEmptySeq, TailOfConcat, HeadThenTail DEF Cat

LEMMA TailOfCat ==
    ASSUME NEW S, NEW a \in Seq(S), NEW b \in Seq(S), a # <<>>
    PROVE  Tail(Cat(a, b)) = Cat(Tail(a), b)
BY TailOfConcat DEF Cat

LEMMA CancelLeft ==
    ASSUME NEW S, NEW a \in Seq(S), NEW b \in Seq(S), NEW c \in Seq(S), Cat(a, b) = Cat(a, c)
    PROVE  b = c
<1>1. \A s, t, v \in Seq(S) : s \o t = s \o v => t = v
  BY ConcatSimplifications
<1> QED BY <1>1, Zenon DEF Cat

LEMMA CatAssociative ==
    ASSUME NEW S, NEW a \in Seq(S), NEW b \in Seq(S), NEW c \in Seq(S)
    PROVE  Cat(Cat(a, b), c) = Cat(a, Cat(b, c))
BY ConcatAssociative, SMTT(60) DEF Cat

LEMMA RegroupFour ==
    ASSUME NEW S, NEW a \in Seq(S), NEW b \in Seq(S), NEW c \in Seq(S), NEW d \in Seq(S)
    PROVE  Cat(Cat(Cat(a, b), c), d) = Cat(a, Cat(Cat(b, c), d))
<1>1. Cat(b, c) \in Seq(S)
  BY CatFacts
<1>2. Cat(Cat(a, b), c) = Cat(a, Cat(b, c))
  BY CatAssociative
<1>3. Cat(Cat(a, Cat(b, c)), d) = Cat(a, Cat(Cat(b, c), d))
  BY <1>1, CatAssociative
<1> QED BY <1>2, <1>3

LEMMA RegroupMiddle ==
    ASSUME NEW S, NEW a \in Seq(S), NEW b \in Seq(S), NEW c \in Seq(S), NEW d \in Seq(S)
    PROVE  Cat(Cat(a, Cat(b, c)), d) = Cat(a, Cat(b, Cat(c, d)))
<1>1. Cat(b, c) \in Seq(S)
  BY CatFacts
<1>2. Cat(Cat(a, Cat(b, c)), d) = Cat(a, Cat(Cat(b, c), d))
  BY <1>1, CatAssociative
<1>3. Cat(Cat(b, c), d) = Cat(b, Cat(c, d))
  BY CatAssociative
<1> QED BY <1>2, <1>3

LEMMA RegroupFive ==
    ASSUME NEW S, NEW a \in Seq(S), NEW b \in Seq(S), NEW c \in Seq(S), NEW d \in Seq(S),
           NEW e \in Seq(S)
    PROVE  Cat(a, Cat(Cat(b, c), Cat(d, e))) = Cat(Cat(Cat(a, b), Cat(c, d)), e)
<1>1. Cat(d, e) \in Seq(S) /\ Cat(c, d) \in Seq(S)
  BY CatFacts
<1>2. Cat(Cat(c, d), e) \in Seq(S) /\ Cat(a, b) \in Seq(S)
  BY <1>1, CatFacts
<1>3. Cat(Cat(b, c), Cat(d, e)) = Cat(b, Cat(c, Cat(d, e)))
  BY <1>1, CatAssociative
<1>4. Cat(c, Cat(d, e)) = Cat(Cat(c, d), e)
  BY CatAssociative
<1>5. Cat(Cat(a, b), Cat(Cat(c, d), e)) = Cat(a, Cat(b, Cat(Cat(c, d), e)))
  BY <1>2, CatAssociative
<1>6. Cat(Cat(Cat(a, b), Cat(c, d)), e) = Cat(Cat(a, b), Cat(Cat(c, d), e))
  BY <1>1, <1>2, CatAssociative
<1> QED BY <1>3, <1>4, <1>5, <1>6

-----------------------------------------------------------------------------
(***************************************************************************)
(* The inductive invariant of the AXI-Lite master: each channel holds at   *)
(* most one request or answer, an answer is accepted only into an empty    *)
(* forwarder, and every channel of a kind holds all its requests in order. *)
(***************************************************************************)
AxiTypes(k) ==
    /\ sent \in [Axi(k)!OutChannels -> AtMostOne(k.tags)] /\ rdy \in [Axi(k)!Kinds -> BOOLEAN]
    /\ axiFwd \in [Axi(k)!Kinds -> AtMostOne(k.tags)] /\ offer \in [Axi(k)!Kinds -> AtMostOne(k.tags)]
    /\ got \in [Axi(k)!OutChannels -> Seq(k.tags)] /\ asked \in [Axi(k)!Kinds -> Seq(k.tags)]

RoomForAnswer(k) == \A kd \in Axi(k)!Kinds : rdy[kd] => axiFwd[kd] = <<>>

AxiInv(k) == AxiTypes(k) /\ RoomForAnswer(k) /\ Axi(k)!NothingLost

\* The channels and their kinds.
LEMMA AxiChannelKinds ==
    ASSUME NEW CONSTANT k
    PROVE  /\ \A c \in Axi(k)!OutChannels : Axi(k)!KindOf[c] \in Axi(k)!Kinds
           /\ \A kd \in Axi(k)!Kinds : /\ (CHOOSE c \in Axi(k)!Inputs(kd) : c # "wd") \in Axi(k)!OutChannels
                 /\ Axi(k)!KindOf[CHOOSE c \in Axi(k)!Inputs(kd) : c # "wd"] = kd
<1>1. /\ Axi(k)!KindOf["ra"] = "read" /\ Axi(k)!KindOf["wa"] = "write" /\ Axi(k)!KindOf["wd"] = "write"
  BY DEF Axi!KindOf, Axi!OutChannels
<1>2. \A c \in Axi(k)!OutChannels : Axi(k)!KindOf[c] \in Axi(k)!Kinds
  BY <1>1 DEF Axi!OutChannels, Axi!Kinds
<1>3. ASSUME NEW kd \in Axi(k)!Kinds PROVE \E c \in Axi(k)!Inputs(kd) : c # "wd"
  BY <1>1 DEF Axi!Kinds, Axi!Inputs, Axi!OutChannels
<1> QED BY <1>2, <1>3 DEF Axi!Inputs

\* The address and the data of a write have the same oldest request.
LEMMA AxiSameHead ==
    ASSUME NEW CONSTANT k, AxiInv(k), NEW c \in Axi(k)!OutChannels, NEW d \in Axi(k)!OutChannels,
           Axi(k)!KindOf[c] = Axi(k)!KindOf[d], got[c] # <<>>, got[d] # <<>>
    PROVE  Head(got[c]) = Head(got[d])
<1> DEFINE S == k.tags
<1>1. PICK f \in Seq(S), o \in Seq(S) : f = axiFwd[Axi(k)!KindOf[c]] /\ o = offer[Axi(k)!KindOf[c]]
  BY AxiChannelKinds, AtMostOneIsSeq DEF AxiInv, AxiTypes
<1>2. PICK g \in Seq(S), s \in Seq(S) : g = got[c] /\ s = sent[c]
  BY AtMostOneIsSeq DEF AxiInv, AxiTypes
<1>3. PICK h \in Seq(S), t \in Seq(S) : h = got[d] /\ t = sent[d]
  BY AtMostOneIsSeq DEF AxiInv, AxiTypes
<1>4. Cat(Cat(Cat(f, o), g), s) = Cat(Cat(Cat(f, o), h), t)
  BY <1>1, <1>2, <1>3 DEF AxiInv, Axi!NothingLost, Cat
<1>5. Head(g) = Head(h)
  <2>1. Cat(f, o) \in Seq(S) /\ Cat(g, s) \in Seq(S) /\ Cat(h, t) \in Seq(S)
    BY ONLY <1>1, <1>2, <1>3, CatFacts
  <2>2. Cat(Cat(f, o), Cat(g, s)) = Cat(Cat(f, o), Cat(h, t))
    <3>1. Cat(Cat(Cat(f, o), g), s) = Cat(Cat(f, o), Cat(g, s))
      BY ONLY <2>1, g \in Seq(S), s \in Seq(S), CatAssociative
    <3>2. Cat(Cat(Cat(f, o), h), t) = Cat(Cat(f, o), Cat(h, t))
      BY ONLY <2>1, h \in Seq(S), t \in Seq(S), CatAssociative
    <3> QED BY <1>4, <3>1, <3>2
  <2>3. Cat(g, s) = Cat(h, t)
    BY ONLY <2>1, <2>2, CancelLeft
  <2>4. Head(Cat(g, s)) = Head(g) /\ Head(Cat(h, t)) = Head(h)
    BY <1>2, <1>3, CatFacts
  <2> QED BY <2>3, <2>4
<1> QED BY <1>2, <1>3, <1>5

\* One cycle on one channel.
LEMMA AxiChannelStep ==
    ASSUME NEW CONSTANT k, AxiInv(k), NEW rq \in Axi(k)!Wishes, NEW take \in SUBSET Axi(k)!Kinds,
           NEW accept \in SUBSET Axi(k)!OutChannels, NEW answer \in SUBSET Axi(k)!Kinds,
           Axi(k)!Cycle(rq, take, accept, answer), NEW c \in Axi(k)!OutChannels
    PROVE  LET kd == Axi(k)!KindOf[c]
           IN  asked'[kd] = axiFwd'[kd] \o offer'[kd] \o got'[c] \o sent'[c]
<1> DEFINE kd == Axi(k)!KindOf[c]
           S == k.tags
           tr == Axi(k)!Transfer(kd)
           ac == Axi(k)!Accepted(c, accept)
           F == IF tr THEN Cat(axiFwd[kd], offer[kd]) ELSE axiFwd[kd]
           oo == IF kd \in answer THEN <<Head(got[c])>> ELSE IF tr THEN <<>> ELSE offer[kd]
           ss == IF rq[kd] # <<>> THEN rq[kd] ELSE IF ac THEN <<>> ELSE sent[c]
           q == Cat(Cat(Cat(axiFwd[kd], offer[kd]), got[c]), sent[c])
           gg == Cat(IF kd \in answer THEN Tail(got[c]) ELSE got[c], IF ac THEN sent[c] ELSE <<>>)
<1>1. kd \in Axi(k)!Kinds
  BY AxiChannelKinds
<1>2. /\ axiFwd[kd] \in AtMostOne(S) /\ offer[kd] \in AtMostOne(S) /\ got[c] \in Seq(S)
      /\ sent[c] \in AtMostOne(S) /\ rq[kd] \in AtMostOne(S) /\ rdy[kd] \in BOOLEAN
  BY <1>1 DEF AxiInv, AxiTypes, Axi!Wishes, AtMostOne
<1>3. /\ tr \in BOOLEAN /\ ac \in BOOLEAN
      /\ tr => axiFwd[kd] = <<>> /\ offer[kd] # <<>>
      /\ Axi(k)!Written(kd) = tr
  BY <1>1, <1>2 DEF Axi!Transfer, Axi!Accepted, Axi!Written, AxiInv, RoomForAnswer
<1>4. /\ kd \in take => axiFwd[kd] # <<>> \/ tr
      /\ rq[kd] # <<>> => sent[c] = <<>> \/ ac
      /\ ac => sent[c] # <<>>
  BY <1>1, <1>3 DEF Axi!Cycle, Axi!MasterCycle, Axi!CanTake, Axi!RequestGuard, Axi!RequestReady,
     Axi!Accepted
<1>5. kd \in answer => (offer[kd] = <<>> \/ tr) /\ got[c] # <<>>
  BY <1>1 DEF Axi!Cycle, Axi!CanAnswer, Axi!Inputs
<1>6. /\ asked'[kd] = Cat(IF kd \in take THEN Tail(q) ELSE q, rq[kd])
      /\ axiFwd'[kd] = (IF kd \in take THEN Tail(F) ELSE F)
      /\ sent'[c] = ss /\ got'[c] = gg
  <2>1. asked[kd] = q
    BY DEF AxiInv, Axi!NothingLost, Cat
  <2>2. asked'[kd] = Cat(IF kd \in take THEN Tail(asked[kd]) ELSE asked[kd], rq[kd])
    BY <1>1 DEF Axi!Cycle, Axi!MasterCycle, Cat
  <2>3. axiFwd'[kd] = (IF kd \in take THEN Tail(F) ELSE F)
    BY <1>1, <1>3 DEF Axi!Cycle, Axi!MasterCycle, Axi!NextFwd, Cat
  <2>4. sent'[c] = ss
    BY DEF Axi!Cycle, Axi!MasterCycle, Axi!NextSent
  <2>5. got'[c] = gg
    BY DEF Axi!Cycle, Axi!SlaveCycle, Cat
  <2> QED BY <2>1, <2>2, <2>3, <2>4, <2>5
<1>7. offer'[kd] = oo
  <2>1. CASE kd \in answer
    <3> DEFINE d == CHOOSE x \in Axi(k)!Inputs(kd) : x # "wd"
    <3>1. d \in Axi(k)!OutChannels /\ Axi(k)!KindOf[d] = kd
      BY <1>1, AxiChannelKinds
    <3>2. got[d] # <<>> /\ got[c] # <<>>
      BY <1>1, <2>1, <3>1 DEF Axi!Cycle, Axi!CanAnswer, Axi!Inputs
    <3>3. offer'[kd] = <<Head(got[d])>>
      BY <1>1, <2>1 DEF Axi!Cycle, Axi!SlaveCycle
    <3> HIDE DEF d
    <3>4. Head(got[d]) = Head(got[c])
      BY <3>1, <3>2, AxiSameHead
    <3> QED BY <2>1, <3>3, <3>4
  <2>2. CASE kd \notin answer
    BY <1>1, <2>2 DEF Axi!Cycle, Axi!SlaveCycle
  <2> QED BY <2>1, <2>2
<1>8. Cat(IF kd \in take THEN Tail(q) ELSE q, rq[kd]) =
        Cat(Cat(Cat(IF kd \in take THEN Tail(F) ELSE F, oo), gg), ss)
  <2>1. PICK a \in AtMostOne(S), b \in AtMostOne(S), g \in Seq(S), s \in AtMostOne(S),
             r \in AtMostOne(S) :
          a = axiFwd[kd] /\ b = offer[kd] /\ g = got[c] /\ s = sent[c] /\ r = rq[kd]
    BY <1>2
  <2> DEFINE tk == kd \in take
             an == kd \in answer
             F1 == IF tr THEN Cat(a, b) ELSE a
             o1 == IF an THEN <<Head(g)>> ELSE IF tr THEN <<>> ELSE b
             s1 == IF r # <<>> THEN r ELSE IF ac THEN <<>> ELSE s
             q1 == Cat(Cat(Cat(a, b), g), s)
             O == IF tr THEN <<>> ELSE b
             G == IF an THEN Tail(g) ELSE g
             A == IF ac THEN s ELSE <<>>
             ff == IF tk THEN Tail(F1) ELSE F1
             p == IF tk THEN Tail(q1) ELSE q1
  <2>2. tk \in BOOLEAN /\ an \in BOOLEAN /\ tr \in BOOLEAN /\ ac \in BOOLEAN
    BY <1>3
  <2>3. /\ tr => a = <<>> /\ b # <<>>
        /\ tk => a # <<>> \/ tr
        /\ an => (b = <<>> \/ tr) /\ g # <<>>
        /\ ac => s # <<>>
        /\ r # <<>> => s = <<>> \/ ac
    BY <1>3, <1>4, <1>5, <2>1
  <2> HIDE DEF tr, ac, tk, an
  <2>4. a \in Seq(S) /\ b \in Seq(S) /\ s \in Seq(S) /\ r \in Seq(S) /\ <<>> \in Seq(S)
    BY ONLY <2>1, AtMostOneIsSeq, EmptySeq
  <2>5. F1 = (IF tr THEN b ELSE a) /\ Cat(a, b) = Cat(F1, O)
    BY ONLY <2>2, <2>3, <2>4, CatFacts DEF F1, O
  <2>6. O \in Seq(S) /\ A \in Seq(S) /\ F1 \in Seq(S) /\ s1 \in Seq(S) /\ (tk => F1 # <<>>)
    BY ONLY <2>2, <2>3, <2>4, <2>5 DEF O, A, s1
  <2>7. Cat(s, r) = Cat(A, s1)
    BY ONLY <2>2, <2>3, <2>4, CatFacts DEF A, s1
  <2>8. G \in Seq(S) /\ o1 \in Seq(S) /\ Cat(O, g) = Cat(o1, G)
    <3>1. CASE an
      <4>1. Tail(g) \in Seq(S) /\ Head(g) \in S
        BY <2>3, <3>1, HeadTailProperties
      <4>2. O = <<>> /\ o1 = <<Head(g)>> /\ G = Tail(g)
        BY <2>3, <3>1 DEF O, o1, G
      <4>3. Cat(<<Head(g)>>, Tail(g)) = g /\ Cat(<<>>, g) = g
        BY <2>3, <3>1, CatFacts
      <4>4. <<Head(g)>> \in Seq(S)
        BY ONLY <4>1
      <4> QED BY <4>1, <4>2, <4>3, <4>4
    <3>2. CASE ~an
      BY <2>4, <3>2 DEF O, o1, G
    <3> QED BY <3>1, <3>2
  <2>9. q1 \in Seq(S) /\ (q1 # <<>> \/ ~tk)
    <3>1. F1 # <<>> => Cat(a, b) # <<>>
      BY <2>4, <2>5, <2>6, ConcatEqualIffEmpty DEF Cat
    <3>2. Cat(a, b) \in Seq(S)
      BY ONLY <2>4, CatFacts
    <3>3. Cat(Cat(a, b), g) \in Seq(S)
      BY ONLY <3>2, <2>1, CatFacts
    <3>4. q1 \in Seq(S)
      BY ONLY <3>3, <2>4, CatFacts DEF q1
    <3>5. Cat(a, b) # <<>> => Cat(Cat(a, b), g) # <<>>
      BY <3>2, ConcatEqualIffEmpty DEF Cat
    <3>6. Cat(Cat(a, b), g) # <<>> => q1 # <<>>
      BY <2>4, <3>3, ConcatEqualIffEmpty DEF Cat, q1
    <3> QED BY <2>2, <2>6, <3>1, <3>4, <3>5, <3>6
  <2>10. p \in Seq(S) /\ ff \in Seq(S) /\ q1 = Cat(Cat(Cat(a, b), g), s)
    <3>1. tk => Tail(q1) \in Seq(S) /\ Tail(F1) \in Seq(S)
      BY ONLY <2>6, <2>9, HeadTailProperties
    <3>2. p \in Seq(S) /\ ff \in Seq(S)
      BY ONLY <2>6, <2>9, <3>1 DEF p, ff
    <3> QED BY <3>2 DEF q1
  <2>11. \/ p = q1 /\ ff = F1
         \/ p = Tail(q1) /\ ff = Tail(F1) /\ F1 # <<>>
    BY <2>6 DEF p, ff
  <2> HIDE DEF F1, o1, s1, q1, O, G, A, ff, p
  <2>12. Cat(p, r) = Cat(Cat(Cat(ff, o1), Cat(G, A)), s1)
    <3>1. Cat(O, g) \in Seq(S)
      BY ONLY <2>6, g \in Seq(S), CatFacts
    <3>2. Cat(Cat(O, g), s) \in Seq(S)
      BY ONLY <2>4, <3>1, CatFacts
    <3>3. q1 = Cat(F1, Cat(Cat(O, g), s))
      <4>1. Cat(Cat(Cat(F1, O), g), s) = Cat(F1, Cat(Cat(O, g), s))
        BY ONLY <2>4, <2>6, g \in Seq(S), RegroupFour, SMTT(60)
      <4> QED BY <2>5, <2>10, <4>1
    <3>4. p = Cat(ff, Cat(Cat(O, g), s))
      <4>1. ASSUME F1 # <<>>
            PROVE  Tail(Cat(F1, Cat(Cat(O, g), s))) = Cat(Tail(F1), Cat(Cat(O, g), s))
        BY ONLY <2>6, <3>2, <4>1, TailOfCat
      <4> QED BY <2>11, <3>3, <4>1
    <3>5. Cat(Cat(ff, Cat(Cat(O, g), s)), r) = Cat(ff, Cat(Cat(o1, G), Cat(A, s1)))
      <4>1. Cat(Cat(ff, Cat(Cat(O, g), s)), r) = Cat(ff, Cat(Cat(O, g), Cat(s, r)))
        BY ONLY <2>4, <2>10, <3>1, RegroupMiddle
      <4> QED BY <2>7, <2>8, <4>1
    <3>6. Cat(ff, Cat(Cat(o1, G), Cat(A, s1))) = Cat(Cat(Cat(ff, o1), Cat(G, A)), s1)
      BY ONLY <2>6, <2>8, <2>10, RegroupFive
    <3> QED BY <3>4, <3>5, <3>6
  <2> QED BY <2>1, <2>12 DEF tk, an, F1, o1, s1, q1, O, G, A, ff, p
<1> QED BY <1>6, <1>7, <1>8 DEF Cat
\* One cycle on the answers of one kind.
LEMMA AxiAnswerStep ==
    ASSUME NEW CONSTANT k, AxiInv(k), NEW rq \in Axi(k)!Wishes, NEW take \in SUBSET Axi(k)!Kinds,
           NEW accept \in SUBSET Axi(k)!OutChannels, NEW answer \in SUBSET Axi(k)!Kinds,
           Axi(k)!Cycle(rq, take, accept, answer), NEW kd \in Axi(k)!Kinds
    PROVE  /\ axiFwd'[kd] \in AtMostOne(k.tags) /\ rdy'[kd] \in BOOLEAN
           /\ rdy'[kd] => axiFwd'[kd] = <<>>
           /\ offer'[kd] \in AtMostOne(k.tags) /\ asked'[kd] \in Seq(k.tags)
<1> DEFINE S == k.tags
           tr == Axi(k)!Transfer(kd)
<1>1. /\ axiFwd[kd] \in AtMostOne(S) /\ offer[kd] \in AtMostOne(S) /\ rdy[kd] \in BOOLEAN
      /\ asked[kd] \in Seq(S) /\ rq[kd] \in AtMostOne(S) /\ <<>> \in AtMostOne(S)
  BY DEF AxiInv, AxiTypes, Axi!Wishes, AtMostOne
<1>2. /\ tr => axiFwd[kd] = <<>> /\ offer[kd] # <<>> /\ rdy[kd]
      /\ Axi(k)!Written(kd) = tr /\ tr \in BOOLEAN
      /\ kd \in take => axiFwd[kd] # <<>> \/ tr
  BY <1>1 DEF Axi!Transfer, Axi!Written, AxiInv, RoomForAnswer, Axi!Cycle, Axi!MasterCycle,
     Axi!CanTake
<1>3. axiFwd'[kd] = LET all == IF tr THEN axiFwd[kd] \o offer[kd] ELSE axiFwd[kd]
                    IN  IF kd \in take THEN Tail(all) ELSE all
  BY <1>2 DEF Axi!Cycle, Axi!MasterCycle, Axi!NextFwd
<1>4. rdy'[kd] = IF tr THEN kd \in take ELSE axiFwd[kd] = <<>>
  BY DEF Axi!Cycle, Axi!MasterCycle, Axi!NextRdy
<1> HIDE DEF tr
<1>5. /\ axiFwd'[kd] \in AtMostOne(S) /\ rdy'[kd] \in BOOLEAN
      /\ rdy'[kd] => axiFwd'[kd] = <<>>
  <2>1. PICK f \in AtMostOne(S), o \in AtMostOne(S) : f = axiFwd[kd] /\ o = offer[kd]
    BY <1>1
  <2>2. CASE tr
    <3>1. f \o o = o /\ o # <<>> /\ Tail(o) = <<>>
      BY <1>2, <2>1, <2>2, AtMostOneFacts, ConcatEmptySeq
    <3>2. axiFwd'[kd] = IF kd \in take THEN <<>> ELSE o
      BY <1>2, <1>3, <2>1, <2>2, <3>1
    <3>3. rdy'[kd] = (kd \in take)
      BY <1>4, <2>2
    <3>4. rdy'[kd] \in BOOLEAN
      BY <3>3
    <3>5. rdy'[kd] => axiFwd'[kd] = <<>>
      BY <3>2, <3>3
    <3> QED BY <1>1, <2>1, <3>2, <3>4, <3>5
  <2>3. CASE ~tr
    <3>1. f # <<>> => Tail(f) = <<>>
      BY <2>1, AtMostOneFacts
    <3> QED BY <1>1, <1>2, <1>3, <1>4, <2>1, <2>3, <3>1
  <2> QED BY <1>2, <2>2, <2>3
<1>6. offer'[kd] \in AtMostOne(S)
  <2>1. CASE kd \in answer
    <3> DEFINE d == CHOOSE x \in Axi(k)!Inputs(kd) : x # "wd"
    <3>1. d \in Axi(k)!OutChannels /\ Axi(k)!KindOf[d] = kd
      BY AxiChannelKinds
    <3>2. got[d] # <<>> /\ got[d] \in Seq(S)
      BY <2>1, <3>1 DEF Axi!Cycle, Axi!CanAnswer, Axi!Inputs, AxiInv, AxiTypes
    <3>3. offer'[kd] = <<Head(got[d])>>
      BY <2>1 DEF Axi!Cycle, Axi!SlaveCycle
    <3> HIDE DEF d
    <3>4. Head(got[d]) \in S
      BY <3>2, HeadTailProperties
    <3> QED BY <3>3, <3>4 DEF AtMostOne
  <2>2. CASE kd \notin answer
    BY <1>1, <2>2 DEF Axi!Cycle, Axi!SlaveCycle
  <2> QED BY <2>1, <2>2
<1>7. asked'[kd] \in Seq(S)
  <2>1. kd \in take => asked[kd] # <<>>
    <3>1. PICK c \in Axi(k)!OutChannels : Axi(k)!KindOf[c] = kd
      BY AxiChannelKinds
    <3>2. PICK f \in Seq(S), o \in Seq(S), g \in Seq(S), s \in Seq(S) :
             f = axiFwd[kd] /\ o = offer[kd] /\ g = got[c] /\ s = sent[c]
      BY <1>1, <3>1, AtMostOneIsSeq DEF AxiInv, AxiTypes
    <3>3. asked[kd] = ((f \o o) \o g) \o s
      BY <3>1, <3>2 DEF AxiInv, Axi!NothingLost
    <3>4. kd \in take => f # <<>> \/ o # <<>>
      BY <1>2, <3>2
    <3>5. f \o o \in Seq(S) /\ (f # <<>> \/ o # <<>> => f \o o # <<>>)
      BY ONLY f \in Seq(S), o \in Seq(S), ConcatProperties, ConcatEqualIffEmpty
    <3>6. (f \o o) \o g \in Seq(S) /\ (f \o o # <<>> => (f \o o) \o g # <<>>)
      BY ONLY <3>5, g \in Seq(S), ConcatProperties, ConcatEqualIffEmpty
    <3>7. (f \o o) \o g # <<>> => ((f \o o) \o g) \o s # <<>>
      BY ONLY <3>6, s \in Seq(S), ConcatEqualIffEmpty
    <3> QED BY <3>3, <3>4, <3>5, <3>6, <3>7
  <2>2. (IF kd \in take THEN Tail(asked[kd]) ELSE asked[kd]) \in Seq(S) /\ rq[kd] \in Seq(S)
    BY <1>1, <2>1, HeadTailProperties, AtMostOneIsSeq
  <2>3. asked'[kd] = (IF kd \in take THEN Tail(asked[kd]) ELSE asked[kd]) \o rq[kd]
    BY DEF Axi!Cycle, Axi!MasterCycle
  <2>4. PICK x \in Seq(S), y \in Seq(S) :
          /\ x = IF kd \in take THEN Tail(asked[kd]) ELSE asked[kd]
          /\ y = rq[kd]
    BY <2>2
  <2>5. x \o y \in Seq(S)
    BY ONLY x \in Seq(S), y \in Seq(S), ConcatProperties
  <2> QED BY <2>3, <2>4, <2>5
<1> QED BY <1>5, <1>6, <1>7

\* One cycle on the registers of one request channel and what the slave has of it.
LEMMA AxiRequestStep ==
    ASSUME NEW CONSTANT k, AxiInv(k), NEW rq \in Axi(k)!Wishes, NEW take \in SUBSET Axi(k)!Kinds,
           NEW accept \in SUBSET Axi(k)!OutChannels, NEW answer \in SUBSET Axi(k)!Kinds,
           Axi(k)!Cycle(rq, take, accept, answer), NEW c \in Axi(k)!OutChannels
    PROVE  sent'[c] \in AtMostOne(k.tags) /\ got'[c] \in Seq(k.tags)
<1> DEFINE kd == Axi(k)!KindOf[c]
           S == k.tags
<1>1. kd \in Axi(k)!Kinds
  BY AxiChannelKinds
<1>2. sent[c] \in AtMostOne(S) /\ got[c] \in Seq(S) /\ rq[kd] \in AtMostOne(S)
  BY <1>1 DEF AxiInv, AxiTypes, Axi!Wishes, AtMostOne
<1>3. sent'[c] \in AtMostOne(S)
  BY <1>2 DEF Axi!Cycle, Axi!MasterCycle, Axi!NextSent, AtMostOne
<1>4. kd \in answer => got[c] # <<>>
  BY <1>1 DEF Axi!Cycle, Axi!CanAnswer, Axi!Inputs
<1>5. /\ (IF kd \in answer THEN Tail(got[c]) ELSE got[c]) \in Seq(S)
      /\ (IF Axi(k)!Accepted(c, accept) THEN sent[c] ELSE <<>>) \in Seq(S)
  BY <1>2, <1>4, HeadTailProperties, AtMostOneIsSeq, EmptySeq
<1>6. got'[c] = (IF kd \in answer THEN Tail(got[c]) ELSE got[c])
                \o (IF Axi(k)!Accepted(c, accept) THEN sent[c] ELSE <<>>)
  BY DEF Axi!Cycle, Axi!SlaveCycle
<1>7. got'[c] \in Seq(S)
  <2>1. PICK x \in Seq(S), y \in Seq(S) :
          /\ x = IF kd \in answer THEN Tail(got[c]) ELSE got[c]
          /\ y = IF Axi(k)!Accepted(c, accept) THEN sent[c] ELSE <<>>
    BY <1>5
  <2>2. x \o y \in Seq(S)
    BY ONLY x \in Seq(S), y \in Seq(S), ConcatProperties
  <2> QED BY <1>6, <2>1, <2>2
<1> QED BY <1>3, <1>7

LEMMA AxiInitInv == ASSUME NEW CONSTANT k, Axi(k)!Init PROVE AxiInv(k)
<1>1. <<>> \in AtMostOne(k.tags) /\ <<>> \in Seq(k.tags)
  BY EmptySeq DEF AtMostOne
<1>2. AxiTypes(k) /\ RoomForAnswer(k)
  BY <1>1 DEF Axi!Init, AxiTypes, RoomForAnswer
<1>3. Axi(k)!NothingLost
  <2>1. <<>> \o <<>> \o <<>> \o <<>> = <<>>
    BY <1>1, ConcatEmptySeq
  <2> QED BY <2>1, AxiChannelKinds DEF Axi!Init, Axi!NothingLost
<1> QED BY <1>2, <1>3 DEF AxiInv

LEMMA AxiStep ==
    ASSUME NEW CONSTANT k, AxiInv(k), [Axi(k)!Next]_(Axi(k)!vars)
    PROVE  AxiInv(k)'
<1>1. CASE UNCHANGED Axi(k)!vars
  BY <1>1 DEF Axi!vars, AxiInv, AxiTypes, RoomForAnswer, Axi!NothingLost
<1>2. CASE Axi(k)!Next
  <2>1. PICK rq \in Axi(k)!Wishes, take \in SUBSET Axi(k)!Kinds,
             accept \in SUBSET Axi(k)!OutChannels, answer \in SUBSET Axi(k)!Kinds :
          Axi(k)!Cycle(rq, take, accept, answer)
    BY <1>2 DEF Axi!Next
  <2>2. /\ sent' = [c \in Axi(k)!OutChannels |-> sent'[c]]
        /\ rdy' = [kd \in Axi(k)!Kinds |-> rdy'[kd]]
        /\ axiFwd' = [kd \in Axi(k)!Kinds |-> axiFwd'[kd]]
        /\ asked' = [kd \in Axi(k)!Kinds |-> asked'[kd]]
    <3>1. Axi(k)!MasterCycle(rq, take, accept)
      BY <2>1 DEF Axi!Cycle
    <3> QED BY <3>1 DEF Axi!MasterCycle
  <2>6. /\ got' = [c \in Axi(k)!OutChannels |-> got'[c]]
        /\ offer' = [kd \in Axi(k)!Kinds |-> offer'[kd]]
    <3>1. Axi(k)!SlaveCycle(accept, answer)
      BY <2>1 DEF Axi!Cycle
    <3>2. got' = [c \in Axi(k)!OutChannels |-> got'[c]]
      BY <3>1 DEF Axi!SlaveCycle
    <3>3. offer' = [kd \in Axi(k)!Kinds |-> offer'[kd]]
      BY <3>1 DEF Axi!SlaveCycle
    <3> QED BY <3>2, <3>3
  <2>3. AxiTypes(k)'
    BY <2>1, <2>2, <2>6, AxiAnswerStep, AxiRequestStep DEF AxiTypes
  <2>4. RoomForAnswer(k)'
    BY <2>1, AxiAnswerStep DEF RoomForAnswer
  <2>5. Axi(k)!NothingLost'
    BY <2>1, AxiChannelStep, Zenon DEF Axi!NothingLost
  <2> QED BY <2>3, <2>4, <2>5 DEF AxiInv
<1> QED BY <1>1, <1>2

\* The AXI-Lite master, for every set of requests and every number in flight: none is
\* lost, repeated or overtaken between its channels (axi_lite.py, bus_adapter.py).
THEOREM AxiKeepsOrder ==
    ASSUME NEW CONSTANT k
    PROVE  Axi(k)!Spec => []Axi(k)!NothingLost
<1>1. Axi(k)!Init => AxiInv(k)
  BY AxiInitInv
<1>2. AxiInv(k) /\ [Axi(k)!Next]_(Axi(k)!vars) => AxiInv(k)'
  BY AxiStep
<1>3. AxiInv(k) => Axi(k)!NothingLost
  BY DEF AxiInv
<1> QED BY <1>1, <1>2, <1>3, PTL DEF Axi!Spec

-----------------------------------------------------------------------------
(***************************************************************************)
(* The pipelined Wishbone master. The first components of a queue of       *)
(* pairs: the requests that the results in the FIFO belong to.             *)
(***************************************************************************)
Firsts(q) == [i \in DOMAIN q |-> q[i][1]]

FirstsIn(P, S) == \A x \in P : x[1] \in S

LEMMA FirstsIsSeq ==
    ASSUME NEW S, NEW P, FirstsIn(P, S), NEW q \in Seq(P)
    PROVE  /\ Firsts(q) \in Seq(S) /\ Len(Firsts(q)) = Len(q)
           /\ \A i \in 1 .. Len(q) : Firsts(q)[i] = q[i][1]
           /\ Firsts(q) = <<>> <=> q = <<>>
<1>1. DOMAIN q = 1 .. Len(q) /\ Len(q) \in Nat
  BY LenProperties
<1>2. \A i \in 1 .. Len(q) : q[i] \in P
  BY ElementOfSeq
<1>3. [i \in 1 .. Len(q) |-> q[i][1]] \in Seq(S)
  BY <1>1, <1>2 DEF FirstsIn
<1>4. Firsts(q) = [i \in 1 .. Len(q) |-> q[i][1]]
  BY <1>1 DEF Firsts
<1>5. Firsts(q) \in Seq(S) /\ Len(Firsts(q)) = Len(q)
  BY <1>1, <1>3, <1>4
<1>6. Firsts(q) = <<>> <=> q = <<>>
  BY <1>5, EmptySeq
<1> QED BY <1>4, <1>5, <1>6

LEMMA FirstsTail ==
    ASSUME NEW S, NEW P, FirstsIn(P, S), NEW q \in Seq(P), q # <<>>
    PROVE  Firsts(Tail(q)) = Tail(Firsts(q))
<1>1. /\ Tail(q) \in Seq(P) /\ Len(Tail(q)) = Len(q) - 1 /\ Len(q) \in Nat \ {0}
      /\ \A i \in 1 .. Len(Tail(q)) : Tail(q)[i] = q[i + 1]
  BY HeadTailProperties, EmptySeq
<1>2. /\ Firsts(q) \in Seq(S) /\ Firsts(q) # <<>> /\ Len(Firsts(q)) = Len(q)
      /\ \A i \in 1 .. Len(q) : Firsts(q)[i] = q[i][1]
  BY <1>1, FirstsIsSeq
<1>3. /\ Firsts(Tail(q)) \in Seq(S) /\ Len(Firsts(Tail(q))) = Len(q) - 1
      /\ \A i \in 1 .. Len(q) - 1 : Firsts(Tail(q))[i] = Tail(q)[i][1]
  BY <1>1, FirstsIsSeq
<1>4. /\ Tail(Firsts(q)) \in Seq(S) /\ Len(Tail(Firsts(q))) = Len(q) - 1
      /\ \A i \in 1 .. Len(q) - 1 : Tail(Firsts(q))[i] = Firsts(q)[i + 1]
  BY <1>2, HeadTailProperties
<1>5. ASSUME NEW i \in 1 .. Len(q) - 1 PROVE Firsts(Tail(q))[i] = Tail(Firsts(q))[i]
  <2>1. i + 1 \in 1 .. Len(q)
    BY <1>1
  <2> QED BY <1>1, <1>2, <1>3, <1>4, <2>1
<1> QED BY <1>3, <1>4, <1>5, SeqEqual

LEMMA FirstsAdd ==
    ASSUME NEW S, NEW P, FirstsIn(P, S), NEW q \in Seq(P), NEW x \in P
    PROVE  Firsts(q \o <<x>>) = Firsts(q) \o <<x[1]>>
<1> DEFINE a == x[1]
           r == Append(q, x)
           f == Firsts(q)
<1>1. a \in S /\ x[1] = a /\ Len(q) \in Nat
  BY DEF FirstsIn
<1> HIDE DEF a
<1>2. /\ r \in Seq(P) /\ Len(r) = Len(q) + 1 /\ r[Len(q) + 1] = x
      /\ \A i \in 1 .. Len(q) : r[i] = q[i]
  BY <1>1, AppendProperties
<1>3. r = q \o <<x>>
  BY <1>1, AppendIsConcat
<1>4. f \in Seq(S) /\ Len(f) = Len(q) /\ \A i \in 1 .. Len(q) : f[i] = q[i][1]
  <2>1. /\ Firsts(q) \in Seq(S) /\ Len(Firsts(q)) = Len(q)
        /\ \A i \in 1 .. Len(q) : Firsts(q)[i] = q[i][1]
    BY FirstsIsSeq
  <2> QED BY <2>1
<1> HIDE DEF f
<1>5. /\ Append(f, a) \in Seq(S) /\ Len(Append(f, a)) = Len(q) + 1
      /\ Append(f, a)[Len(q) + 1] = a /\ \A i \in 1 .. Len(q) : Append(f, a)[i] = f[i]
  BY <1>1, <1>4, AppendProperties
<1>6. Append(f, a) = f \o <<a>>
  BY <1>4, AppendIsConcat
<1> HIDE DEF r
<1>7. /\ Firsts(r) \in Seq(S) /\ Len(Firsts(r)) = Len(q) + 1
      /\ \A i \in 1 .. Len(q) + 1 : Firsts(r)[i] = r[i][1]
  BY <1>2, FirstsIsSeq
<1>8. ASSUME NEW i \in 1 .. Len(q) + 1 PROVE Firsts(r)[i] = Append(f, a)[i]
  <2>1. CASE i = Len(q) + 1
    BY <1>1, <1>2, <1>5, <1>7, <2>1
  <2>2. CASE i # Len(q) + 1
    <3>1. i \in 1 .. Len(q)
      BY <1>1, <2>2
    <3> QED BY <1>2, <1>4, <1>5, <1>7, <3>1
  <2> QED BY <2>1, <2>2
<1>9. Firsts(r) = Append(f, a)
  BY <1>5, <1>7, <1>8, SeqEqual
<1> QED BY <1>3, <1>6, <1>9 DEF a, f

(***************************************************************************)
(* Its inductive invariant: the counter is the number of requests the      *)
(* slave still has, together with the results in the FIFO they never       *)
(* exceed its depth (so a result is never dropped), and the results and    *)
(* the open requests are, in order, what was asked.                        *)
(***************************************************************************)
PlPairs(k) == k.tags \X BOOLEAN
PlInv(k) ==
    /\ fifo \in Seq(PlPairs(k)) /\ slave \in Seq(k.tags)
    /\ pending = Len(slave) /\ pending + Len(fifo) <= k.maxReq
    /\ plAsked = Firsts(fifo) \o slave /\ abandoned = FALSE

\* One cycle of the queue: what is taken from it, what is asked, what is finished.
LEMMA PlQueueStep ==
    ASSUME NEW S, NEW X \in Seq(S), NEW s \in Seq(S), NEW r \in Seq(S), NEW q, q = Cat(s, r)
    PROVE  /\ q \in Seq(S) /\ Cat(Cat(X, s), r) = Cat(X, q)
           /\ q # <<>> => /\ Head(q) \in S /\ Tail(q) \in Seq(S)
                         /\ Cat(X, q) = Cat(Cat(X, <<Head(q)>>), Tail(q))
<1>1. q \in Seq(S)
  BY CatFacts
<1>2. Cat(Cat(X, s), r) = Cat(X, q)
  BY CatAssociative
<1>3. ASSUME q # <<>>
      PROVE  /\ Head(q) \in S /\ Tail(q) \in Seq(S)
             /\ Cat(X, q) = Cat(Cat(X, <<Head(q)>>), Tail(q))
  <2>1. Head(q) \in S /\ Tail(q) \in Seq(S)
    BY <1>1, <1>3, HeadTailProperties
  <2>2. PICK h \in Seq(S) : h = <<Head(q)>>
    BY ONLY <2>1, OneIsSeq
  <2>3. Cat(h, Tail(q)) = q
    BY <1>1, <1>3, <2>2, CatFacts
  <2>4. Cat(Cat(X, h), Tail(q)) = Cat(X, Cat(h, Tail(q)))
    <3>1. PICK t \in Seq(S) : t = Tail(q)
      BY <2>1
    <3>2. Cat(Cat(X, h), t) = Cat(X, Cat(h, t))
      BY ONLY X \in Seq(S), h \in Seq(S), t \in Seq(S), CatAssociative
    <3> QED BY <3>1, <3>2
  <2> QED BY <2>1, <2>2, <2>3, <2>4
<1> QED BY <1>1, <1>2, <1>3

\* The result of a request belongs to it.
LEMMA PlPairsFirst == \A k : FirstsIn(PlPairs(k), k.tags)
BY DEF FirstsIn, PlPairs

LEMMA PlInitInv ==
    ASSUME NEW CONSTANT k, Pipelined(k)!PipelinedAssumption, Pipelined(k)!Init PROVE PlInv(k)
<1>1. fifo = <<>> /\ slave = <<>> /\ plAsked = <<>> /\ pending = 0 /\ abandoned = FALSE
  BY DEF Pipelined!Init
<1>2. <<>> \in Seq(PlPairs(k)) /\ <<>> \in Seq(k.tags) /\ Len(<<>>) = 0 /\ k.maxReq \in Nat
  BY EmptySeq DEF Pipelined!PipelinedAssumption
<1>3. Firsts(<<>>) = <<>>
  BY <1>2, FirstsIsSeq, PlPairsFirst
<1>4. <<>> \o <<>> = <<>>
  BY <1>2, ConcatEmptySeq
<1> QED BY <1>1, <1>2, <1>3, <1>4 DEF PlInv

LEMMA PlStep ==
    ASSUME NEW CONSTANT k, Pipelined(k)!PipelinedAssumption, PlInv(k),
           [Pipelined(k)!Next]_(Pipelined(k)!vars)
    PROVE  PlInv(k)'
<1>1. CASE UNCHANGED Pipelined(k)!vars
  BY <1>1 DEF Pipelined!vars, PlInv
<1>2. CASE Pipelined(k)!Next
  <2>1. PICK rq \in AtMostOne(k.tags), stall \in BOOLEAN, term \in {"none", "ack", "err", "rty"},
             rd \in BOOLEAN : Pipelined(k)!Cycle(rq, stall, term, rd)
    BY <1>2 DEF Pipelined!Next, AtMostOne
  <2> DEFINE S == k.tags
             P == PlPairs(k)
             q == Cat(slave, rq)
             fin == term # "none"
             stb_ == rq # <<>>
             x == <<Head(q), term # "ack">>
             F == IF rd THEN Tail(fifo) ELSE fifo
  <2>2. /\ fifo \in Seq(P) /\ slave \in Seq(S) /\ rq \in Seq(S) /\ pending = Len(slave)
        /\ Len(slave) \in Nat /\ Len(fifo) \in Nat /\ Len(slave) + Len(fifo) <= k.maxReq
        /\ k.maxReq \in Nat /\ plAsked = Cat(Firsts(fifo), slave) /\ abandoned = FALSE
    BY AtMostOneIsSeq, LenProperties DEF PlInv, Pipelined!PipelinedAssumption, Cat
  <2>3. /\ stb_ => Len(slave) + Len(fifo) < k.maxReq
        /\ fin => q # <<>> /\ (stb_ \/ Len(slave) > 0)
        /\ rd => fifo # <<>>
        /\ pending' = IF stb_ /\ ~fin THEN pending + 1 ELSE IF fin /\ ~stb_ THEN pending - 1 ELSE pending
        /\ fifo' = F \o (IF fin /\ Len(fifo) < k.maxReq THEN <<x>> ELSE <<>>)
        /\ slave' = IF fin THEN Tail(q) ELSE q
        /\ plAsked' = Cat(IF rd THEN Tail(plAsked) ELSE plAsked, rq)
        /\ abandoned' = (abandoned \/ (q # <<>> /\ ~(stb_ \/ Len(slave) > 0)))
    BY <2>1, <2>2 DEF Pipelined!Cycle, Pipelined!RequestReady, Pipelined!Cyc,
       Pipelined!NextPending, Pipelined!NextFifo, Cat
  <2> HIDE DEF q, x
  <2>4. Len(rq) = (IF stb_ THEN 1 ELSE 0) /\ Len(q) = Len(slave) + Len(rq) /\ q \in Seq(S)
    <3>1. Len(q) = Len(slave) + Len(rq) /\ q \in Seq(S)
      BY <2>2, ConcatProperties DEF q, Cat
    <3>2. CASE rq = <<>>
      BY <3>1, <3>2
    <3>3. ASSUME NEW t \in S, rq = <<t>> PROVE Len(rq) = 1 /\ rq # <<>>
      BY <3>3
    <3> QED BY <3>1, <3>2, <3>3 DEF AtMostOne
  <2>5. Len(F) = Len(fifo) - (IF rd THEN 1 ELSE 0) /\ F \in Seq(P) /\ Len(F) \in Nat
    BY <2>2, <2>3, HeadTailProperties, LenProperties
  <2>6. /\ Firsts(F) = (IF rd THEN Tail(Firsts(fifo)) ELSE Firsts(fifo))
        /\ Firsts(fifo) \in Seq(S) /\ Firsts(F) \in Seq(S) /\ (rd => Firsts(fifo) # <<>>)
    <3>1. Firsts(fifo) \in Seq(S) /\ (Firsts(fifo) = <<>> <=> fifo = <<>>)
      BY ONLY <2>2, PlPairsFirst, FirstsIsSeq
    <3>2. Firsts(F) \in Seq(S)
      BY ONLY <2>5, PlPairsFirst, FirstsIsSeq
    <3>3. rd => Firsts(Tail(fifo)) = Tail(Firsts(fifo))
      BY ONLY <2>2, <2>3, PlPairsFirst, FirstsTail
    <3> QED BY <2>3, <3>1, <3>2, <3>3
  <2> HIDE DEF F
  <2>7. plAsked' = Cat(Firsts(F), q)
    <3>1. rd => Tail(plAsked) = Cat(Tail(Firsts(fifo)), slave)
      BY <2>2, <2>6, TailOfCat
    <3>2. plAsked' = Cat(Cat(Firsts(F), slave), rq)
      BY <2>2, <2>3, <2>6, <3>1
    <3>3. Cat(Cat(Firsts(F), slave), rq) = Cat(Firsts(F), Cat(slave, rq))
      BY ONLY <2>2, <2>6, CatAssociative
    <3> QED BY <3>2, <3>3 DEF q
  <2>8. abandoned' = FALSE
    <3>1. q # <<>> => Len(q) > 0
      BY <2>4, EmptySeq
    <3>2. ~(q # <<>> /\ ~(stb_ \/ Len(slave) > 0))
      BY <2>2, <2>4, <3>1
    <3> QED BY <2>2, <2>3, <3>2
  <2>9. CASE fin
    <3>1. q # <<>> /\ Len(fifo) < k.maxReq /\ Head(q) \in S /\ Tail(q) \in Seq(S)
          /\ Len(Tail(q)) = Len(q) - 1
      BY <2>2, <2>3, <2>4, <2>9, HeadTailProperties
    <3>2. x \in P /\ x[1] = Head(q)
      BY <3>1 DEF x, PlPairs
    <3>3. fifo' = F \o <<x>> /\ slave' = Tail(q)
      BY <2>3, <2>9, <3>1
    <3>4. fifo' \in Seq(P) /\ Len(fifo') = Len(F) + 1
      <4>1. PICK y \in Seq(P) : y = <<x>> /\ Len(y) = 1
        BY <3>2, OneIsSeq
      <4> QED BY <2>5, <3>3, <4>1, ConcatProperties
    <3>5. Firsts(fifo') = Cat(Firsts(F), <<Head(q)>>)
      <4>1. Firsts(F \o <<x>>) = Firsts(F) \o <<x[1]>>
        <5>1. FirstsIn(P, S) /\ F \in Seq(P) /\ x \in P
          BY <2>5, <3>2, PlPairsFirst
        <5> HIDE DEF P, S
        <5> QED BY ONLY <5>1, FirstsAdd
      <4> QED BY <3>2, <3>3, <4>1 DEF Cat
    <3>6. Cat(Firsts(F), q) = Cat(Cat(Firsts(F), <<Head(q)>>), Tail(q))
      BY <2>2, <2>6, <3>1, PlQueueStep DEF q
    <3>7. plAsked' = Firsts(fifo') \o slave'
      BY <2>7, <3>3, <3>5, <3>6 DEF Cat
    <3>8. pending' = Len(slave') /\ pending' + Len(fifo') <= k.maxReq
      <4>1. pending' = IF stb_ THEN pending ELSE pending - 1
        BY <2>3, <2>9
      <4>2. Len(slave') = IF stb_ THEN Len(slave) ELSE Len(slave) - 1
        BY <2>2, <2>4, <3>1, <3>3
      <4>3. Len(fifo') <= Len(fifo) + 1
        BY <2>2, <2>5, <3>4
      <4>4. CASE stb_
        <5>1. Len(slave) + Len(fifo) < k.maxReq
          BY <2>3, <4>4
        <5> QED BY <2>2, <2>5, <3>4, <4>1, <4>2, <4>3, <4>4, <5>1
      <4>5. CASE ~stb_
        BY <2>2, <2>5, <3>4, <4>1, <4>2, <4>3, <4>5
      <4> QED BY <4>4, <4>5
    <3> QED BY <2>8, <3>1, <3>3, <3>4, <3>7, <3>8 DEF PlInv
  <2>10. CASE ~fin
    <3>1. fifo' = F /\ slave' = q
      BY <2>3, <2>5, <2>10, ConcatEmptySeq
    <3>2. pending' = Len(slave') /\ pending' + Len(fifo') <= k.maxReq
      BY <2>2, <2>3, <2>4, <2>5, <2>10, <3>1
    <3>3. plAsked' = Firsts(fifo') \o slave'
      BY <2>7, <3>1 DEF Cat
    <3> QED BY <2>4, <2>5, <2>8, <3>1, <3>2, <3>3 DEF PlInv
  <2> QED BY <2>9, <2>10
<1> QED BY <1>1, <1>2

LEMMA PlInvRight ==
    ASSUME NEW CONSTANT k, PlInv(k) PROVE Pipelined(k)!ResultsKept /\ Pipelined(k)!CycHeld
BY DEF PlInv, Pipelined!ResultsKept, Pipelined!CycHeld, Firsts

\* The pipelined Wishbone master, for every depth of its FIFO: each request gets one
\* result, in order, and the bus cycle lasts until the last (wishbone.py
\* PipelinedWishboneMaster).
THEOREM PipelinedKeepsOrder ==
    ASSUME NEW CONSTANT k, Pipelined(k)!PipelinedAssumption
    PROVE  Pipelined(k)!Spec => [](Pipelined(k)!ResultsKept /\ Pipelined(k)!CycHeld)
<1>1. Pipelined(k)!Init => PlInv(k)
  BY PlInitInv
<1>2. PlInv(k) /\ [Pipelined(k)!Next]_(Pipelined(k)!vars) => PlInv(k)'
  BY PlStep
<1>3. PlInv(k) => Pipelined(k)!ResultsKept /\ Pipelined(k)!CycHeld
  BY PlInvRight
<1> QED BY <1>1, <1>2, <1>3, PTL DEF Pipelined!Spec

\* The run's statement about requests in flight.
THEOREM RequestsHold == Spec => []RequestsInOrder
<1> DEFINE I == /\ part = "Axi" => AxiInv(AxiChannels)
                /\ part = "Pipelined" => PlInv(InFlight)
<1>1. Init => I
  <2>1. /\ Init /\ part = "Axi" => Axi(AxiChannels)!Init
        /\ Init /\ part = "Pipelined" => Pipelined(InFlight)!Init
    BY Zenon DEF Init
  <2> QED BY <2>1, InstancesAssumption, AxiInitInv, PlInitInv DEF InstancesAssumption
<1>2. I /\ [Next]_vars => I'
  <2> SUFFICES ASSUME I, [Next]_vars PROVE I'
    OBVIOUS
  <2>1. /\ part' = part
        /\ part = "Axi" => [Axi(AxiChannels)!Next]_(Axi(AxiChannels)!vars)
        /\ part = "Pipelined" => [Pipelined(InFlight)!Next]_(Pipelined(InFlight)!vars)
    BY Zenon DEF Next, vars, AxiLiteVars, PipelinedMasterVars, Axi!vars, Pipelined!vars
  <2> QED BY <2>1, InstancesAssumption, AxiStep, PlStep DEF InstancesAssumption
<1>3. I => RequestsInOrder
  BY PlInvRight DEF RequestsInOrder, AxiInv
<1> QED BY <1>1, <1>2, <1>3, PTL DEF Spec

-----------------------------------------------------------------------------
(***************************************************************************)
(* The Wishbone bus. What holds of a master for any number of masters and  *)
(* slaves: while its request is on the bus, its forwarder is empty, the    *)
(* serializer holds just the port of the request, and it was not executed; *)
(* after the transfer its result waits, or there is nothing left.          *)
(***************************************************************************)
OnTheBus == {"WBWaitACK", "WBCycStart"}

\* Nothing waits for a port, or the one result does.
NothingLeft(m) == res[m] = <<>> /\ pend[m] = <<>>
ResultWaits(m) == /\ res[m] = <<res[m][1]>> /\ pend[m] = <<txn[m].port>>
                  /\ ~res[m][1].err => execs[m] = 1

MasterOK(k, m) ==
    /\ wbFsm[m] \in {"Reset", "Idle"} \cup OnTheBus
    /\ cyc[m] = (wbFsm[m] \in OnTheBus) /\ stb[m] = (wbFsm[m] = "WBWaitACK")
    /\ execs[m] \in {0, 1}
    /\ wbFsm[m] \in OnTheBus => /\ res[m] = <<>> /\ pend[m] = <<txn[m].port>>
                               /\ execs[m] = 0 /\ txn[m] \in Bus(k)!Requests
    /\ wbFsm[m] \notin OnTheBus => NothingLeft(m) \/ ResultWaits(m)

BusInv(k) == \A m \in k.masters : MasterOK(k, m)

\* What one cycle does to one master, in terms of what it takes in.
LEMMA MasterStep ==
    ASSUME NEW CONSTANT k, BusInv(k), NEW rq \in Bus(k)!Wishes, NEW rd \in SUBSET k.masters,
           NEW retry \in BOOLEAN, Bus(k)!Cycle(rq, rd, retry), NEW m \in k.masters
    PROVE  /\ MasterOK(k, m)'
           /\ rq[m] # <<>> => txn'[m] = rq[m][1]
           /\ rq[m] = <<>> => txn'[m] = txn[m]
           /\ res'[m] # <<>> => /\ txn'[m] = txn[m]
                               /\ IF Bus(k)!Ends(m, retry) THEN res'[m][1] = Bus(k)!Result(m, retry)
                                  ELSE res'[m] = res[m] /\ res[m] # <<>>
<1> DEFINE ends == Bus(k)!Ends(m, retry)
           new == rq[m] # <<>>
           take == m \in rd
           result == Bus(k)!Result(m, retry)
           term == Bus(k)!Term(m, retry)
           rty == term = "rty"
           acked == m = grant /\ Bus(k)!Answer(retry) = "ack"
<1>1. MasterOK(k, m)
  BY DEF BusInv
<1>2. /\ take => res[m] # <<>> \/ ends
      /\ new => res[m] = <<>> /\ (wbFsm[m] = "Idle" \/ (ends /\ take))
      /\ rq[m] = <<>> \/ \E r \in Bus(k)!Requests : rq[m] = <<r>>
  BY DEF Bus!Cycle, Bus!CanRead, Bus!RequestReady, Bus!Wishes
<1>3. /\ wbFsm'[m] = Bus(k)!NextFsm(m, new, retry)
      /\ stb'[m] = (wbFsm'[m] = "WBWaitACK") /\ cyc'[m] = (wbFsm'[m] \in OnTheBus)
  BY DEF Bus!Cycle, Bus!MasterCycle, OnTheBus
<1>4. /\ txn'[m] = IF new THEN rq[m][1] ELSE txn[m]
      /\ pend'[m] = (IF take THEN Tail(pend[m]) ELSE pend[m])
                      \o (IF new THEN <<rq[m][1].port>> ELSE <<>>)
  BY DEF Bus!Cycle, Bus!MasterCycle
<1>5. res'[m] = LET all == IF ends THEN Append(res[m], result) ELSE res[m]
                IN  IF take THEN Tail(all) ELSE all
  BY DEF Bus!Cycle, Bus!MasterCycle
<1>6. execs'[m] = IF new THEN 0 ELSE IF acked /\ execs[m] < 2 THEN execs[m] + 1 ELSE execs[m]
  BY DEF Bus!Cycle, Bus!MasterCycle
<1>7. /\ ends => wbFsm[m] = "WBWaitACK" /\ m = grant /\ ~rty
      /\ acked => ends
      /\ ends /\ ~acked => result.err = TRUE
      /\ ends /\ acked => result.err = FALSE
      /\ result = [for |-> Bus(k)!AnswerFor, err |-> result.err]
  <2>1. ends => wbFsm[m] = "WBWaitACK" /\ m = grant /\ ~rty
    BY DEF Bus!Ends, Bus!Term
  <2>2. acked => ends
    <3>1. acked => stb[m]
      BY DEF Bus!Answer, Bus!SlaveStb
    <3>2. acked => wbFsm[m] = "WBWaitACK"
      BY <1>1, <3>1 DEF MasterOK
    <3> QED BY <3>2 DEF Bus!Ends, Bus!Term
  <2>3. /\ ends /\ ~acked => result.err = TRUE
        /\ ends /\ acked => result.err = FALSE
    BY DEF Bus!Ends, Bus!Term, Bus!Result
  <2>4. result = [for |-> Bus(k)!AnswerFor, err |-> result.err]
    BY DEF Bus!Result
  <2> QED BY <2>1, <2>2, <2>3, <2>4
<1>8. wbFsm'[m] = IF wbFsm[m] = "Reset" THEN "Idle"
                  ELSE IF new \/ wbFsm[m] = "WBCycStart" THEN "WBWaitACK"
                  ELSE IF ends THEN "Idle"
                  ELSE IF wbFsm[m] = "WBWaitACK" /\ rty THEN "WBCycStart" ELSE wbFsm[m]
  BY <1>3 DEF Bus!NextFsm
<1> HIDE DEF ends, result, acked, rty, take
<1>9. /\ rq[m] # <<>> => txn'[m] = rq[m][1]
      /\ rq[m] = <<>> => txn'[m] = txn[m]
  BY <1>4
<1>10. CASE new
  <2>1. PICK r \in Bus(k)!Requests : rq[m] = <<r>>
    BY <1>2, <1>10
  <2>2. wbFsm'[m] = "WBWaitACK" /\ txn'[m] = r /\ execs'[m] = 0 /\ res[m] = <<>>
    BY <1>2, <1>4, <1>6, <1>7, <1>8, <1>10, <2>1
  <2>3. res'[m] = <<>> /\ (IF take THEN Tail(pend[m]) ELSE pend[m]) = <<>>
    <3>1. CASE ends /\ take
      <4>1. pend[m] = <<txn[m].port>>
        BY <1>1, <1>7, <3>1 DEF MasterOK, OnTheBus
      <4> QED BY <1>5, <2>2, <3>1, <4>1
    <3>2. CASE ~(ends /\ take)
      <4>1. wbFsm[m] = "Idle" /\ ~ends /\ ~take
        BY <1>2, <1>7, <1>10, <2>2, <3>2
      <4>2. pend[m] = <<>>
        BY <1>1, <2>2, <4>1 DEF MasterOK, OnTheBus, NothingLeft, ResultWaits
      <4> QED BY <1>5, <2>2, <4>1, <4>2
    <3> QED BY <3>1, <3>2
  <2>4. pend'[m] = <<txn'[m].port>>
    <3>1. pend'[m] = <<>> \o <<r.port>>
      <4>1. rq[m][1] = r
        BY <2>1
      <4> QED BY <1>4, <1>10, <2>3, <4>1, Zenon
    <3> QED BY <2>2, <3>1
  <2>5. MasterOK(k, m)'
    BY <1>3, <2>2, <2>3, <2>4 DEF MasterOK, OnTheBus
  <2> QED BY <1>9, <2>3, <2>5
<1>11. CASE ~new /\ ends
  <2>1. /\ wbFsm[m] = "WBWaitACK" /\ wbFsm'[m] = "Idle" /\ res[m] = <<>>
        /\ pend[m] = <<txn[m].port>> /\ execs[m] = 0 /\ txn'[m] = txn[m]
    BY <1>1, <1>4, <1>7, <1>8, <1>11 DEF MasterOK, OnTheBus
  <2>2. execs'[m] = IF acked THEN 1 ELSE 0
    BY <1>6, <1>11, <2>1
  <2>3. CASE take
    <3>1. res'[m] = <<>>
      BY <1>5, <1>11, <2>1, <2>3
    <3>2. pend'[m] = <<>>
      BY <1>4, <1>11, <2>1, <2>3
    <3>3. MasterOK(k, m)'
      BY <1>3, <2>1, <2>2, <3>1, <3>2 DEF MasterOK, OnTheBus, NothingLeft
    <3> QED BY <1>9, <3>1, <3>3
  <2>4. CASE ~take
    <3>1. res'[m] = <<result>>
      BY <1>5, <1>11, <2>1, <2>4
    <3>2. pend'[m] = <<txn'[m].port>>
      BY <1>4, <1>11, <2>1, <2>4
    <3>3. ResultWaits(m)'
      BY <1>7, <1>11, <2>2, <3>1, <3>2 DEF ResultWaits
    <3>4. MasterOK(k, m)'
      BY <1>3, <2>1, <2>2, <3>3 DEF MasterOK, OnTheBus
    <3> QED BY <1>9, <1>11, <2>1, <3>1, <3>4 DEF ends, result
  <2> QED BY <2>3, <2>4
<1>12. CASE ~new /\ ~ends
  <2>1. txn'[m] = txn[m] /\ execs'[m] = execs[m] /\ pend'[m] = IF take THEN Tail(pend[m]) ELSE pend[m]
    <3>1. PICK p : p = IF take THEN Tail(pend[m]) ELSE pend[m]
      OBVIOUS
    <3>2. pend[m] = <<>> \/ \E x : pend[m] = <<x>>
      BY <1>1 DEF MasterOK, OnTheBus, NothingLeft, ResultWaits
    <3>3. take => res[m] # <<>>
      BY <1>2, <1>12
    <3>4. p \o <<>> = p
      <4>1. CASE pend[m] = <<>>
        <5>1. ~take
          BY <1>1, <3>3, <4>1 DEF MasterOK, OnTheBus, NothingLeft, ResultWaits
        <5> QED BY <3>1, <4>1, <5>1
      <4>2. ASSUME NEW x, pend[m] = <<x>> PROVE p \o <<>> = p
        <5>1. p = <<x>> \/ p = <<>>
          BY <3>1, <4>2
        <5> QED BY <5>1
      <4> QED BY <3>2, <4>1, <4>2
    <3> QED BY <1>4, <1>6, <1>7, <1>12, <3>1, <3>4
  <2>2. res'[m] = IF take THEN Tail(res[m]) ELSE res[m]
    BY <1>5, <1>12
  <2>3. CASE wbFsm[m] \in OnTheBus
    <3>1. ~take /\ res[m] = <<>> /\ wbFsm'[m] \in OnTheBus
      BY <1>1, <1>2, <1>8, <1>12, <2>3 DEF MasterOK, OnTheBus
    <3>2. MasterOK(k, m)'
      BY <1>1, <1>3, <2>1, <2>2, <2>3, <3>1 DEF MasterOK, OnTheBus
    <3> QED BY <1>9, <2>2, <3>1, <3>2
  <2>4. CASE wbFsm[m] \notin OnTheBus
    <3>1. wbFsm'[m] = "Idle"
      BY <1>1, <1>8, <1>12, <2>4 DEF MasterOK, OnTheBus
    <3>2. CASE take
      <4>1. ResultWaits(m)
        BY <1>1, <1>2, <1>12, <2>4, <3>2 DEF MasterOK, NothingLeft
      <4>2. res'[m] = <<>> /\ pend'[m] = <<>>
        <5>1. PICK x, y : res[m] = <<x>> /\ pend[m] = <<y>>
          BY <4>1 DEF ResultWaits
        <5> QED BY <2>1, <2>2, <3>2, <5>1
      <4>3. MasterOK(k, m)'
        BY <1>1, <1>3, <2>1, <3>1, <4>2 DEF MasterOK, OnTheBus, NothingLeft
      <4> QED BY <1>9, <4>2, <4>3
    <3>3. CASE ~take
      <4>1. MasterOK(k, m)'
        BY <1>1, <1>3, <2>1, <2>2, <2>4, <3>1, <3>3 DEF MasterOK, OnTheBus, NothingLeft, ResultWaits
      <4> QED BY <1>9, <1>12, <2>1, <2>2, <3>3, <4>1 DEF ends
    <3> QED BY <3>2, <3>3
  <2> QED BY <2>3, <2>4
<1> QED BY <1>10, <1>11, <1>12

LEMMA BusInitInv == ASSUME NEW CONSTANT k, Bus(k)!Init PROVE BusInv(k)
<1> SUFFICES ASSUME NEW m \in k.masters PROVE MasterOK(k, m)
  BY DEF BusInv
<1>1. /\ wbFsm[m] = "Reset" /\ cyc[m] = FALSE /\ stb[m] = FALSE /\ res[m] = <<>>
      /\ pend[m] = <<>> /\ execs[m] = 0
  BY DEF Bus!Init
<1>2. wbFsm[m] \notin OnTheBus /\ wbFsm[m] # "WBWaitACK" /\ NothingLeft(m)
  BY <1>1 DEF OnTheBus, NothingLeft
<1>3. cyc[m] = (wbFsm[m] \in OnTheBus) /\ stb[m] = (wbFsm[m] = "WBWaitACK")
  <2>1. (wbFsm[m] \in OnTheBus) = FALSE /\ (wbFsm[m] = "WBWaitACK") = FALSE
    BY <1>2
  <2>2. cyc[m] = FALSE /\ stb[m] = FALSE
    BY <1>1
  <2> QED BY ONLY <2>1, <2>2, Zenon
<1>4. wbFsm[m] \in {"Reset", "Idle"} \cup OnTheBus /\ execs[m] \in {0, 1}
  BY <1>1
<1> QED BY ONLY <1>2, <1>3, <1>4, Zenon DEF MasterOK

LEMMA BusStep ==
    ASSUME NEW CONSTANT k, BusInv(k), [Bus(k)!Next]_(Bus(k)!vars)
    PROVE  BusInv(k)'
<1>1. CASE UNCHANGED Bus(k)!vars
  BY <1>1 DEF Bus!vars, BusInv, MasterOK, NothingLeft, ResultWaits
<1>2. CASE Bus(k)!Next
  BY <1>2, MasterStep DEF Bus!Next, BusInv
<1> QED BY <1>1, <1>2

LEMMA BusInvRight ==
    ASSUME NEW CONSTANT k, BusInv(k) PROVE Bus(k)!ExecutedOnce /\ Bus(k)!ResultHasRoom
<1>1. Bus(k)!ResultHasRoom
  BY DEF BusInv, MasterOK, OnTheBus, Bus!ResultHasRoom
<1>2. Bus(k)!ExecutedOnce
  <2> SUFFICES ASSUME NEW m \in k.masters
               PROVE  execs[m] <= 1 /\ (res[m] # <<>> /\ ~res[m][1].err => execs[m] = 1)
    BY DEF Bus!ExecutedOnce
  <2>1. MasterOK(k, m)
    BY DEF BusInv
  <2> QED BY <2>1 DEF MasterOK, OnTheBus, NothingLeft, ResultWaits
<1> QED BY <1>1, <1>2

\* For any number of masters, ports and slaves, any address map and any retries: a
\* request whose result has no error was executed exactly once, and every result finds
\* its forwarder empty (wishbone.py, bus_adapter.py).
THEOREM BusExecutesOnce ==
    ASSUME NEW CONSTANT k
    PROVE  Bus(k)!Spec => [](Bus(k)!ExecutedOnce /\ Bus(k)!ResultHasRoom)
<1>1. Bus(k)!Init => BusInv(k)
  BY BusInitInv
<1>2. BusInv(k) /\ [Bus(k)!Next]_(Bus(k)!vars) => BusInv(k)'
  BY BusStep
<1>3. BusInv(k) => Bus(k)!ExecutedOnce /\ Bus(k)!ResultHasRoom
  BY BusInvRight
<1> QED BY <1>1, <1>2, <1>3, PTL DEF Bus!Spec

(***************************************************************************)
(* Whose answer it is. A slave whose reads take a cycle answers what it    *)
(* started to read, so the bus must not have changed hands in between: the *)
(* arbiter does not ensure that. The answers are right when such a slave   *)
(* has one master, or when every slave answers in the cycle of the strobe. *)
(***************************************************************************)
Undisturbed(k) == k.readsWait => k.masters = {0}

AnswersRight(k) == \A m \in k.masters : res[m] # <<>> => res[m][1].for = txn[m]

ReadsRight(k) ==
    /\ DOMAIN rdFor = k.slaves /\ rdFor = [s \in k.slaves |-> rdFor[s]]
    /\ \A s \in k.slaves : sl[s] = "Read" =>
          /\ k.readsWait /\ wbFsm[0] = "WBWaitACK"
          /\ s = k.slaveOf[txn[0].addr] /\ rdFor[s] = txn[0]
    /\ k.readsWait => grant = 0

AnswerInv(k) == AnswersRight(k) /\ ReadsRight(k)

LEMMA AnswerInit ==
    ASSUME NEW CONSTANT k, Bus(k)!Init PROVE AnswerInv(k)
BY DEF Bus!Init, AnswerInv, AnswersRight, ReadsRight

\* With one master the arbiter has nobody else to give the bus to.
LEMMA GrantStays ==
    ASSUME NEW CONSTANT k, k.masters = {0}, grant = 0 PROVE Bus(k)!NextGrant = 0
<1>1. Bus(k)!Cardinality(k.masters) = 1
  <2>1. Cardinality({0}) = 1
    BY FS_Singleton
  <2> QED BY <2>1, Zenon DEF Bus!Cardinality, Cardinality
<1>2. Bus(k)!Distance(0) = 0
  BY <1>1 DEF Bus!Distance
<1>3. Bus(k)!Requesting = {} \/ Bus(k)!Requesting = {0}
  BY DEF Bus!Requesting
<1>4. CASE Bus(k)!Requesting = {0}
  <2>1. Bus(k)!NextGrant = CHOOSE m \in {0} : \A o \in {0} : Bus(k)!Distance(m) <= Bus(k)!Distance(o)
    BY <1>4 DEF Bus!NextGrant
  <2>2. \E m \in {0} : \A o \in {0} : Bus(k)!Distance(m) <= Bus(k)!Distance(o)
    BY <1>2
  <2> QED BY <2>1, <2>2
<1>5. CASE Bus(k)!Requesting = {}
  BY <1>5 DEF Bus!NextGrant
<1> QED BY <1>3, <1>4, <1>5

LEMMA AnswerStep ==
    ASSUME NEW CONSTANT k, Bus(k)!BusAssumption, Undisturbed(k), BusInv(k), AnswerInv(k),
           [Bus(k)!Next]_(Bus(k)!vars)
    PROVE  AnswerInv(k)'
<1>1. CASE UNCHANGED Bus(k)!vars
  BY <1>1 DEF Bus!vars, AnswerInv, AnswersRight, ReadsRight
<1>2. CASE Bus(k)!Next
  <2>1. PICK rq \in Bus(k)!Wishes, rd \in SUBSET k.masters, retry \in BOOLEAN :
          Bus(k)!Cycle(rq, rd, retry)
    BY <1>2 DEF Bus!Next
  <2>2. ASSUME NEW m \in k.masters, res'[m] # <<>> PROVE res'[m][1].for = txn'[m]
    <3>1. /\ txn'[m] = txn[m]
          /\ IF Bus(k)!Ends(m, retry) THEN res'[m][1] = Bus(k)!Result(m, retry)
             ELSE res'[m] = res[m] /\ res[m] # <<>>
      BY <2>1, <2>2, MasterStep
    <3>2. CASE Bus(k)!Ends(m, retry)
      <4>1. m = grant /\ wbFsm[m] = "WBWaitACK"
        BY <3>2 DEF Bus!Ends, Bus!Term
      <4>2. txn[m] \in Bus(k)!Requests
        BY <4>1 DEF BusInv, MasterOK, OnTheBus
      <4>3. k.slaveOf[txn[m].addr] \in k.slaves
        BY <4>2 DEF Bus!Requests, Bus!BusAssumption
      <4>4. Bus(k)!AnswerFor = txn[m]
        <5>1. CASE sl[k.slaveOf[txn[m].addr]] = "Read"
          <6>1. m = 0 /\ rdFor[k.slaveOf[txn[m].addr]] = txn[0]
            BY <4>3, <5>1 DEF AnswerInv, ReadsRight, Undisturbed
          <6> QED BY <4>1, <5>1, <6>1 DEF Bus!AnswerFor, Bus!Selected, Bus!OnBus
        <5>2. CASE sl[k.slaveOf[txn[m].addr]] # "Read"
          BY <4>1, <5>2 DEF Bus!AnswerFor, Bus!Selected, Bus!OnBus
        <5> QED BY <5>1, <5>2
      <4>5. res'[m][1].for = Bus(k)!AnswerFor
        BY <3>1, <3>2 DEF Bus!Result
      <4> QED BY <3>1, <4>4, <4>5
    <3>3. CASE ~Bus(k)!Ends(m, retry)
      BY <3>1, <3>3 DEF AnswerInv, AnswersRight
    <3> QED BY <3>2, <3>3
  <2>3. DOMAIN rdFor' = k.slaves /\ rdFor' = [s \in k.slaves |-> rdFor'[s]]
    BY <2>1 DEF Bus!Cycle, Bus!SlaveCycle, AnswerInv, ReadsRight
  <2>4. k.readsWait => grant' = 0
    BY <2>1, GrantStays DEF Bus!Cycle, Bus!ArbiterCycle, AnswerInv, ReadsRight, Undisturbed
  <2>5. ASSUME NEW s \in k.slaves, sl'[s] = "Read"
        PROVE  /\ k.readsWait /\ wbFsm'[0] = "WBWaitACK"
               /\ s = k.slaveOf[txn'[0].addr] /\ rdFor'[s] = txn'[0]
    <3>1. s = Bus(k)!Selected /\ Bus(k)!StartsRead(retry)
      BY <2>1, <2>5 DEF Bus!Cycle, Bus!SlaveCycle
    <3>2. Bus(k)!Answer(retry) = "none" /\ stb[grant] /\ k.readsWait
      BY <3>1 DEF Bus!StartsRead, Bus!Strobe, Bus!SlaveStb, Bus!SlaveCyc, Bus!Answer
    <3>3. grant = 0 /\ 0 \in k.masters
      BY <3>2 DEF AnswerInv, ReadsRight, Undisturbed
    <3>4. wbFsm[0] = "WBWaitACK" /\ ~Bus(k)!Ends(0, retry)
      BY <3>2, <3>3 DEF BusInv, MasterOK, Bus!Ends, Bus!Term
    <3>5. rq[0] = <<>>
      BY <2>1, <3>3, <3>4 DEF Bus!Cycle, Bus!RequestReady
    <3>6. txn'[0] = txn[0]
      BY <2>1, <3>3, <3>5, MasterStep
    <3>7. wbFsm'[0] = "WBWaitACK"
      <4>1. wbFsm'[0] = Bus(k)!NextFsm(0, rq[0] # <<>>, retry)
        BY <2>1, <3>3 DEF Bus!Cycle, Bus!MasterCycle
      <4> QED BY <3>2, <3>4, <3>5, <4>1 DEF Bus!NextFsm, Bus!Term
    <3>8. s = k.slaveOf[txn[0].addr] /\ rdFor'[s] = txn[0]
      BY <2>1, <3>1, <3>3 DEF Bus!Cycle, Bus!SlaveCycle, Bus!Selected, Bus!OnBus, AnswerInv, ReadsRight
    <3> QED BY <3>2, <3>6, <3>7, <3>8
  <2> QED BY <2>2, <2>3, <2>4, <2>5 DEF AnswerInv, AnswersRight, ReadsRight
<1> QED BY <1>1, <1>2

LEMMA AnswerInvRight ==
    ASSUME NEW CONSTANT k, BusInv(k), AnswerInv(k) PROVE Bus(k)!RightAnswer
<1> SUFFICES ASSUME NEW m \in k.masters, res[m] # <<>>
             PROVE  res[m][1].for = txn[m] /\ res[m][1].for.port = Head(pend[m])
  BY DEF Bus!RightAnswer
<1>1. res[m][1].for = txn[m]
  BY DEF AnswerInv, AnswersRight
<1>2. pend[m] = <<txn[m].port>>
  <2>1. MasterOK(k, m)
    BY DEF BusInv
  <2> QED BY <2>1 DEF MasterOK, NothingLeft, ResultWaits
<1> QED BY <1>1, <1>2

\* The answer a port takes is the answer to its own request, whatever the number of its
\* ports and slaves, the addresses and the retries, if the bus is undisturbed
\* (wishbone.py, bus_adapter.py).
THEOREM BusAnswersOwn ==
    ASSUME NEW CONSTANT k, Bus(k)!BusAssumption, Undisturbed(k)
    PROVE  Bus(k)!Spec => []Bus(k)!RightAnswer
<1> DEFINE I == BusInv(k) /\ AnswerInv(k)
<1>1. Bus(k)!Init => I
  BY BusInitInv, AnswerInit
<1>2. I /\ [Bus(k)!Next]_(Bus(k)!vars) => I'
  BY BusStep, AnswerStep
<1>3. I => Bus(k)!RightAnswer
  BY AnswerInvRight
<1> QED BY <1>1, <1>2, <1>3, PTL DEF Bus!Spec

\* The run's statement about the bus: one master, and two behind the arbiter.
THEOREM BusAnswersHold == Spec => []BusAnswersRight
<1> DEFINE I == /\ part = "OneMaster" => BusInv(OneMaster) /\ AnswerInv(OneMaster)
                /\ part = "TwoMasters" => BusInv(TwoMasters) /\ AnswerInv(TwoMasters)
<1>1. /\ Bus(OneMaster)!BusAssumption /\ Bus(TwoMasters)!BusAssumption
      /\ Undisturbed(OneMaster) /\ Undisturbed(TwoMasters)
  <2>1. Bus(OneMaster)!BusAssumption /\ Bus(TwoMasters)!BusAssumption
    BY InstancesAssumption, Zenon DEF InstancesAssumption
  <2>2. Undisturbed(OneMaster) /\ Undisturbed(TwoMasters)
    BY DEF Undisturbed, OneMaster, TwoMasters
  <2> QED BY <2>1, <2>2
<1>2. Init => I
  <2>1. /\ Init /\ part = "OneMaster" => Bus(OneMaster)!Init
        /\ Init /\ part = "TwoMasters" => Bus(TwoMasters)!Init
    BY Zenon DEF Init
  <2> QED BY <2>1, BusInitInv, AnswerInit
<1>3. I /\ [Next]_vars => I'
  <2> SUFFICES ASSUME I, [Next]_vars PROVE I'
    OBVIOUS
  <2>1. /\ part' = part
        /\ part = "OneMaster" => [Bus(OneMaster)!Next]_(Bus(OneMaster)!vars)
        /\ part = "TwoMasters" => [Bus(TwoMasters)!Next]_(Bus(TwoMasters)!vars)
    BY Zenon DEF Next, vars, WishboneBusVars, Bus!vars
  <2> QED BY <1>1, <2>1, BusStep, AnswerStep
<1>4. I => BusAnswersRight
  BY BusInvRight, AnswerInvRight DEF BusAnswersRight
<1> QED BY <1>2, <1>3, <1>4, PTL DEF Spec

-----------------------------------------------------------------------------
(***************************************************************************)
(* The instruction cache (icache.py, refiller.py). The counters of the     *)
(* refiller count the words of a line; the words of a block are those      *)
(* whose number has the same quotient.                                     *)
(***************************************************************************)
LEMMA QuotientIs ==
    ASSUME NEW B \in Nat \ {0}, NEW q \in Nat, NEW r \in 0 .. B - 1, NEW n, n = q * B + r
    PROVE  n \div B = q /\ n % B = r
<1>1. (q * B + r) \div B = q /\ (q * B + r) % B = r
  OBVIOUS
<1> QED BY <1>1

LEMMA QuotientAndRest ==
    ASSUME NEW B \in Nat \ {0}, NEW n \in Nat
    PROVE  n \div B \in Nat /\ n % B \in 0 .. B - 1 /\ n = (n \div B) * B + (n % B)
OBVIOUS

LEMMA NextWord ==
    ASSUME NEW B \in Nat \ {0}, NEW n \in Nat
    PROVE  IF (n + 1) % B = 0 THEN n % B = B - 1 /\ (n + 1) \div B = (n \div B) + 1
           ELSE (n + 1) % B = (n % B) + 1 /\ (n + 1) \div B = n \div B /\ (n % B) + 1 < B
<1> DEFINE q == n \div B
           r == n % B
<1>1. q \in Nat /\ r \in 0 .. B - 1 /\ n = q * B + r
  BY QuotientAndRest
<1> HIDE DEF q, r
<1>2. CASE r = B - 1
  <2>1. n + 1 = (q + 1) * B + 0 /\ q + 1 \in Nat /\ 0 \in 0 .. B - 1
    BY <1>1, <1>2
  <2>2. PICK p \in Nat : p = q + 1
    BY <2>1
  <2>3. (n + 1) \div B = p /\ (n + 1) % B = 0
    BY <2>1, <2>2, QuotientIs
  <2> QED BY <1>1, <1>2, <2>2, <2>3 DEF q, r
<1>3. CASE r # B - 1
  <2>1. n + 1 = q * B + (r + 1) /\ r + 1 \in 0 .. B - 1 /\ r + 1 # 0
    BY <1>1, <1>3
  <2>2. PICK t \in 0 .. B - 1 : t = r + 1
    BY <2>1
  <2>3. n + 1 = q * B + t
    BY <2>1, <2>2
  <2>4. (n + 1) \div B = q /\ (n + 1) % B = t
    <3>1. PICK x : x = n + 1
      OBVIOUS
    <3>2. x \div B = q /\ x % B = t
      <4>1. q \in Nat
        BY <1>1
      <4> QED BY ONLY <2>3, <3>1, <4>1, t \in 0 .. B - 1, B \in Nat \ {0}, QuotientIs
    <3> QED BY <3>1, <3>2
  <2> QED BY <1>1, <2>1, <2>2, <2>4 DEF q, r
<1> QED BY <1>2, <1>3

LEMMA LastWordOfLine ==
    ASSUME NEW B \in Nat \ {0}, NEW L \in Nat \ {0}, NEW n \in 0 .. L * B - 1
    PROVE  /\ n \div B \in 0 .. L - 1
           /\ n = L * B - 1 => (n + 1) % B = 0 /\ n \div B = L - 1
<1> DEFINE q == n \div B
           r == n % B
<1>1. L * B \in Nat /\ n \in Nat
  OBVIOUS
<1>2. q \in Nat /\ r \in 0 .. B - 1 /\ n = q * B + r
  BY <1>1, QuotientAndRest
<1> HIDE DEF q, r
<1>3. q < L
  <2> SUFFICES ASSUME L <= q PROVE FALSE
    BY <1>2
  <2>1. L * B <= q * B
    BY <1>2
  <2> QED BY <1>1, <1>2, <2>1
<1>4. ASSUME n = L * B - 1 PROVE (n + 1) % B = 0 /\ n \div B = L - 1
  <2>1. n + 1 = L * B + 0 /\ 0 \in 0 .. B - 1
    BY <1>1, <1>4
  <2>2. (n + 1) % B = 0
    BY <2>1, QuotientIs
  <2>3. PICK p \in Nat : p = L - 1
    OBVIOUS
  <2>4. n = p * B + (B - 1) /\ B - 1 \in 0 .. B - 1
    BY <1>4, <2>3
  <2>5. n \div B = p
    BY <2>4, QuotientIs
  <2> QED BY <2>2, <2>3, <2>5
<1> QED BY <1>2, <1>3, <1>4 DEF q

\* A line has at least one word.
LEMMA LineWordsKind ==
    ASSUME NEW CONSTANT k, Cache(k)!CacheAssumption
    PROVE  /\ Cache(k)!LineWords \in Nat \ {0}
           /\ Cache(k)!LineWords = k.blocks * k.blockWords
           /\ k.blocks \in Nat \ {0} /\ k.blockWords \in Nat \ {0}
<1>1. k.blocks \in Nat \ {0} /\ k.blockWords \in Nat \ {0}
  BY DEF Cache!CacheAssumption
<1>2. k.blocks * k.blockWords \in Nat \ {0}
  BY <1>1
<1> QED BY <1>1, <1>2 DEF Cache!LineWords

\* A word was read where it should have been, at a time the history s allows; so were
\* all words of a block, and the words of an unfinished block, the last ones of a queue.
RightWord(x, l, n, s) == x[1] = l /\ x[2] = n /\ x[3] \in s[l]
RightWords(k, ws, l, b, s) ==
    /\ Len(ws) = k.blockWords
    /\ \A i \in 1 .. k.blockWords : RightWord(ws[i], l, b * k.blockWords + i - 1, s)
EntryRight(k, d, l, s) == \A b \in 0 .. k.blocks - 1 : RightWords(k, d[b], l, b, s)
Gathered(k, buf, l, n, s) ==
    LET r == n % k.blockWords
    IN  /\ r <= Len(buf)
        /\ \A i \in 1 .. r : RightWord(buf[Len(buf) - r + i], l, n - r + i - 1, s)

LEMMA RightForLonger ==
    ASSUME NEW k, NEW l, NEW s, NEW t, s[l] \subseteq t[l]
    PROVE  /\ \A x, n : RightWord(x, l, n, s) => RightWord(x, l, n, t)
           /\ \A ws, b : RightWords(k, ws, l, b, s) => RightWords(k, ws, l, b, t)
           /\ \A d : EntryRight(k, d, l, s) => EntryRight(k, d, l, t)
           /\ \A buf, n : Gathered(k, buf, l, n, s) => Gathered(k, buf, l, n, t)
<1>1. \A x, n : RightWord(x, l, n, s) => RightWord(x, l, n, t)
  BY DEF RightWord
<1>2. \A ws, b : RightWords(k, ws, l, b, s) => RightWords(k, ws, l, b, t)
  BY <1>1 DEF RightWords
<1>3. \A d : EntryRight(k, d, l, s) => EntryRight(k, d, l, t)
  BY <1>2 DEF EntryRight
<1>4. \A buf, n : Gathered(k, buf, l, n, s) => Gathered(k, buf, l, n, t)
  BY <1>1, Zenon DEF Gathered
<1> QED BY <1>1, <1>2, <1>3, <1>4

\* What the refiller keeps when a word arrives.
NextWords(k, blk) == IF Len(blk) < k.blockWords THEN blk ELSE Tail(blk)

LEMMA NextWordsKind ==
    ASSUME NEW k, k.blockWords \in Nat \ {0}, NEW S, NEW buf \in Seq(S),
           Len(buf) < k.blockWords, NEW w \in S
    PROVE  /\ Append(buf, w) \in Seq(S) /\ NextWords(k, Append(buf, w)) \in Seq(S)
           /\ Len(NextWords(k, Append(buf, w))) < k.blockWords
<1>1. Append(buf, w) \in Seq(S) /\ Len(Append(buf, w)) = Len(buf) + 1 /\ Len(buf) \in Nat
  OBVIOUS
<1>2. Append(buf, w) # <<>>
  BY <1>1
<1>3. Tail(Append(buf, w)) \in Seq(S) /\ Len(Tail(Append(buf, w))) = Len(buf)
  <2> PICK c \in Seq(S) : c = Append(buf, w)
    BY <1>1
  <2>1. Tail(c) \in Seq(S) /\ Len(Tail(c)) = Len(c) - 1
    BY <1>2, HeadTailProperties
  <2> QED BY <1>1, <2>1
<1> QED BY <1>1, <1>3 DEF NextWords

LEMMA WordGathered ==
    ASSUME NEW k, k.blockWords \in Nat \ {0}, NEW S, NEW buf \in Seq(S),
           Len(buf) < k.blockWords, NEW w \in S, NEW n \in Nat, NEW l, NEW s,
           Gathered(k, buf, l, n, s), RightWord(w, l, n, s)
    PROVE  /\ Gathered(k, NextWords(k, Append(buf, w)), l, n + 1, s)
           /\ (n + 1) % k.blockWords = 0 =>
                RightWords(k, Append(buf, w), l, n \div k.blockWords, s)
<1>b. PICK B \in Nat \ {0} : B = k.blockWords
  OBVIOUS
<1>c. PICK c : c = Append(buf, w)
  OBVIOUS
<1>r. PICK r \in 0 .. B - 1 : r = n % B
  BY QuotientAndRest
<1>m. PICK m \in Nat : m = Len(buf)
  OBVIOUS
<1>1. /\ c \in Seq(S) /\ Len(c) = m + 1 /\ c[m + 1] = w
      /\ \A i \in 1 .. m : c[i] = buf[i]
  BY <1>c, <1>m
<1>2. /\ r <= m
      /\ \A i \in 1 .. r : RightWord(buf[m - r + i], l, n - r + i - 1, s)
  BY <1>b, <1>r, <1>m DEF Gathered
<1>3. /\ (n + 1) % B = 0 => r = B - 1
      /\ (n + 1) % B # 0 => (n + 1) % B = r + 1 /\ r + 1 < B
  BY <1>r, NextWord
<1>4. CASE (n + 1) % B = 0
  <2>1. m = B - 1 /\ r = B - 1
    BY <1>b, <1>m, <1>2, <1>3, <1>4
  <2>2. PICK q \in Nat : q = n \div B /\ n = q * B + (n % B)
    BY QuotientAndRest
  <2>3. PICK p \in Nat : p = q * B
    OBVIOUS
  <2>4. n = p + r
    BY <1>r, <2>2, <2>3
  <2>5. ASSUME NEW i \in 1 .. B PROVE RightWord(c[i], l, p + i - 1, s)
    <3>1. CASE i = B
      <4>1. i = m + 1 /\ p + i - 1 = n
        BY ONLY <2>1, <2>4, <3>1, p \in Nat, m \in Nat, B \in Nat
      <4> QED BY <1>1, <4>1
    <3>2. CASE i # B
      <4>1. i \in 1 .. r /\ i \in 1 .. m /\ m - r + i = i /\ n - r + i - 1 = p + i - 1
        BY ONLY <2>1, <2>4, <3>2, p \in Nat, m \in Nat, B \in Nat, i \in 1 .. B
      <4> QED BY <1>1, <1>2, <4>1
    <3> QED BY <3>1, <3>2
  <2>6. Len(c) = B
    BY ONLY <1>1, <2>1, B \in Nat
  <2>7. RightWords(k, c, l, q, s)
    BY ONLY <1>b, <2>3, <2>5, <2>6 DEF RightWords
  <2>8. Gathered(k, NextWords(k, c), l, n + 1, s)
    <3>1. NextWords(k, c) \in Seq(S)
      BY <1>c, NextWordsKind
    <3>2. Len(NextWords(k, c)) \in Nat
      BY <3>1
    <3> QED BY <1>b, <1>4, <3>2 DEF Gathered
  <2> QED BY <1>b, <1>c, <2>2, <2>7, <2>8
<1>5. CASE (n + 1) % B # 0
  <2>1. (n + 1) % B = r + 1 /\ r + 1 < B
    BY <1>3, <1>5
  <2>d. PICK d \in Seq(S) : d = NextWords(k, c)
    BY <1>c, NextWordsKind
  <2>2. PICK g \in 0 .. 1 : /\ Len(d) = m + 1 - g /\ r + 1 <= Len(d)
                            /\ \A i \in 1 .. Len(d) : d[i] = c[i + g]
    <3>1. CASE Len(c) < B
      <4>1. d = c
        BY <1>b, <2>d, <3>1 DEF NextWords
      <4>2. \A i \in 1 .. Len(d) : d[i] = c[i + 0]
        BY <1>1, <4>1
      <4>3. Len(d) = m + 1 - 0 /\ r + 1 <= Len(d)
        BY ONLY <1>1, <1>2, <4>1, m \in Nat, r \in 0 .. B - 1
      <4> QED BY <4>2, <4>3
    <3>2. CASE ~(Len(c) < B)
      <4>1. d = Tail(c)
        BY <1>b, <2>d, <3>2 DEF NextWords
      <4>2. c # <<>> /\ Len(c) = B
        BY <1>b, <1>m, <1>1, <3>2
      <4>3. Len(d) = Len(c) - 1 /\ \A i \in 1 .. Len(d) : d[i] = c[i + 1]
        BY <1>1, <4>1, <4>2, HeadTailProperties
      <4>4. Len(d) = m + 1 - 1 /\ r + 1 <= Len(d)
        BY ONLY <1>1, <2>1, <4>2, <4>3, m \in Nat, B \in Nat, r \in 0 .. B - 1
      <4> QED BY <4>3, <4>4
    <3> QED BY <3>1, <3>2
  <2>3. ASSUME NEW i \in 1 .. r + 1
        PROVE  RightWord(d[Len(d) - (r + 1) + i], l, (n + 1) - (r + 1) + i - 1, s)
    <3>1. /\ Len(d) - (r + 1) + i \in 1 .. Len(d)
          /\ Len(d) - (r + 1) + i + g = m - r + i
          /\ (n + 1) - (r + 1) + i - 1 = n - r + i - 1
      <4>1. PICK e \in Nat : e = Len(d)
        OBVIOUS
      <4>2. e = m + 1 - g /\ r + 1 <= e
        BY <2>2, <4>1
      <4> QED BY ONLY <4>1, <4>2, n \in Nat, m \in Nat, r \in 0 .. B - 1, B \in Nat, g \in 0 .. 1,
                      i \in 1 .. r + 1
    <3>2. d[Len(d) - (r + 1) + i] = c[m - r + i]
      BY ONLY <2>2, <3>1
    <3>3. CASE i = r + 1
      <4>1. m - r + i = m + 1 /\ n - r + i - 1 = n
        BY ONLY <3>3, n \in Nat, m \in Nat, r \in 0 .. B - 1, B \in Nat
      <4> QED BY <1>1, <3>1, <3>2, <4>1
    <3>4. CASE i # r + 1
      <4>1. i \in 1 .. r /\ m - r + i \in 1 .. m
        BY ONLY <1>2, <3>4, m \in Nat, r \in 0 .. B - 1, B \in Nat, i \in 1 .. r + 1
      <4> QED BY <1>1, <1>2, <3>1, <3>2, <4>1
    <3> QED BY <3>3, <3>4
  <2>4. r + 1 <= Len(d)
    BY <2>2
  <2>5. Gathered(k, d, l, n + 1, s)
    BY ONLY <1>b, <2>1, <2>3, <2>4 DEF Gathered
  <2> QED BY <1>b, <1>c, <1>5, <2>d, <2>5
<1> QED BY <1>4, <1>5

-----------------------------------------------------------------------------
(***************************************************************************)
(* The inductive invariant of the cache. The kinds of its variables come   *)
(* first.                                                                  *)
(***************************************************************************)
CacheWords(k) == Cache(k)!Lines \X Nat \X {0, 1}
CacheForwards(k) == [line : Cache(k)!Lines, block : 0 .. k.blocks - 1,
                     words : Seq(CacheWords(k)), error : BOOLEAN, last : BOOLEAN]
CacheResults(k) == [addr : Cache(k)!Addrs, out : SUBSET Seq(CacheWords(k)), error : BOOLEAN,
                    may : SUBSET {0, 1}]

LookupKinds(k) ==
    /\ fsm \in {"FLUSH", "LOOKUP", "REFILL"} /\ flushIndex \in 0 .. k.sets - 1
    /\ readAddr \in Cache(k)!Addrs /\ outputValid \in BOOLEAN /\ errorSaved \in BOOLEAN
    /\ args \in Seq(Cache(k)!Addrs) /\ results \in AtMostOne(CacheResults(k))
MemoryKinds(k) ==
    /\ waySelector \in 0 .. k.ways - 1
    /\ tags \in [0 .. k.sets - 1 -> [0 .. k.ways - 1 -> [valid : BOOLEAN, tag : 0 .. k.tags - 1]]]
    /\ data \in [0 .. k.sets - 1 -> [0 .. k.ways - 1 -> [0 .. k.blocks - 1 -> Seq(CacheWords(k))]]]
RefillerKinds(k) ==
    /\ line \in Cache(k)!Lines
    /\ active \in BOOLEAN /\ flushing \in BOOLEAN /\ sending \in BOOLEAN
    /\ reqCounter \in 0 .. Cache(k)!LineWords - 1 /\ respCounter \in 0 .. Cache(k)!LineWords - 1
    /\ buffer \in Seq(CacheWords(k)) /\ Len(buffer) < k.blockWords
    /\ blockFwd \in AtMostOne(CacheForwards(k)) /\ bus \in Seq(Cache(k)!Lines \X Nat)
HistoryKinds(k) ==
    /\ version \in [Cache(k)!Lines -> {0, 1}] /\ since \in [Cache(k)!Lines -> SUBSET {0, 1}]
    /\ \A l \in Cache(k)!Lines : version[l] \in since[l]

\* The requests in progress: the oldest one has its result, or is the one looked up; the
\* state machine refills for it, and an error waits for it.
CacheAsked(k) ==
    /\ results = <<>> => args = IF outputValid THEN <<readAddr>> ELSE <<>>
    /\ results # <<>> => IF outputValid THEN Len(args) = 2 /\ args[2] = readAddr
                         ELSE Len(args) = 1
    /\ errorSaved => outputValid
    /\ fsm = "REFILL" => outputValid /\ results = <<>> /\ line = Cache(k)!LineOf(readAddr)
    /\ active /\ ~flushing => fsm = "REFILL"
    /\ blockFwd # <<>> => fsm = "REFILL"

\* Of the words of the line s were requested and r answered; those between are on the bus.
\* After an error no request follows, and the rest is answered.
CountOf(k, n) == IF n = Cache(k)!LineWords THEN 0 ELSE n
OnTheWay(b, l, s, r) == Len(b) = s - r /\ \A n \in 1 .. s - r : b[n] = <<l, r + n - 1>>
CacheCounts(k, s, r) ==
    /\ r <= s /\ reqCounter = CountOf(k, s) /\ respCounter = CountOf(k, r)
    /\ OnTheWay(bus, line, s, r)
    /\ sending => s < Cache(k)!LineWords
    /\ IF flushing THEN r >= 1 /\ ~sending ELSE r < Cache(k)!LineWords
CacheRequests(k) ==
    IF active THEN \E s, r \in 0 .. Cache(k)!LineWords : CacheCounts(k, s, r)
    ELSE bus = <<>> /\ ~sending /\ ~flushing

\* The block being gathered, and the one the refiller hands over.
CacheGathered(k) == active /\ ~flushing => Gathered(k, buffer, line, respCounter, since)
ForwardRight(k, ret) ==
    /\ ret.line = line
    /\ IF ret.last THEN ~active \/ flushing
       ELSE /\ active /\ ~flushing /\ ~ret.error
            /\ ret.block + 1 = respCounter \div k.blockWords
    /\ ~ret.error => RightWords(k, ret.words, line, ret.block, since)
    /\ ret.last /\ ~ret.error => ret.block = k.blocks - 1
CacheForwarded(k) == blockFwd # <<>> => ForwardRight(k, blockFwd[1])

\* The blocks of the refill that are in the data memory already.
Stored(k, b) == IF blockFwd # <<>> THEN ~blockFwd[1].error /\ b < blockFwd[1].block
                ELSE active /\ ~flushing /\ b < respCounter \div k.blockWords
CacheRefilled(k) ==
    fsm = "REFILL" => \A b \in 0 .. k.blocks - 1 :
        Stored(k, b) => RightWords(k, data[line[2]][waySelector][b], line, b, since)
LineAbsent(k) ==
    fsm = "REFILL" => \A w \in 0 .. k.ways - 1 :
        tags[readAddr.index][w].valid => tags[readAddr.index][w].tag # readAddr.tag

\* What the memories hold: nothing in the sets that were flushed; elsewhere every valid
\* entry is the line of its tag, but for the way that is refilled.
SetsFlushed(k) ==
    fsm = "FLUSH" => \A i \in 0 .. k.sets - 1 : \A w \in 0 .. k.ways - 1 :
        i < flushIndex => ~tags[i][w].valid
Overwritten(i, w) == fsm = "REFILL" /\ i = readAddr.index /\ w = waySelector
EntriesRight(k) ==
    fsm # "FLUSH" => \A i \in 0 .. k.sets - 1 : \A w \in 0 .. k.ways - 1 :
        tags[i][w].valid /\ ~Overwritten(i, w) =>
            EntryRight(k, data[i][w], <<tags[i][w].tag, i>>, since)

CacheInv(k) ==
    /\ LookupKinds(k) /\ MemoryKinds(k) /\ RefillerKinds(k) /\ HistoryKinds(k)
    /\ CacheAsked(k) /\ CacheRequests(k) /\ CacheGathered(k) /\ CacheForwarded(k)
    /\ CacheRefilled(k) /\ LineAbsent(k) /\ SetsFlushed(k) /\ EntriesRight(k)
    /\ Cache(k)!NoDoubleHit /\ Cache(k)!RightBlock

LEMMA CacheRanges ==
    ASSUME NEW CONSTANT k, Cache(k)!CacheAssumption
    PROVE  /\ k.tags \in Nat \ {0} /\ k.sets \in Nat \ {0} /\ k.ways \in Nat \ {0}
           /\ 0 \in 0 .. k.tags - 1 /\ 0 \in 0 .. k.sets - 1 /\ 0 \in 0 .. k.ways - 1
           /\ 0 \in 0 .. k.blocks - 1 /\ 0 \in 0 .. Cache(k)!LineWords - 1
           /\ k.blockWords > 0 /\ <<0, 0>> \in Cache(k)!Lines
           /\ Cache(k)!NoAddr \in Cache(k)!Addrs
<1>1. /\ k.tags \in Nat \ {0} /\ k.sets \in Nat \ {0} /\ k.ways \in Nat \ {0}
  BY DEF Cache!CacheAssumption
<1>2. /\ 0 \in 0 .. k.tags - 1 /\ 0 \in 0 .. k.sets - 1 /\ 0 \in 0 .. k.ways - 1
  BY <1>1
<1>3. /\ 0 \in 0 .. k.blocks - 1 /\ 0 \in 0 .. Cache(k)!LineWords - 1 /\ k.blockWords > 0
  BY LineWordsKind
<1>4. <<0, 0>> \in Cache(k)!Lines /\ Cache(k)!NoAddr \in Cache(k)!Addrs
  BY <1>2, <1>3 DEF Cache!Lines, Cache!NoAddr, Cache!Addrs
<1> QED BY <1>1, <1>2, <1>3, <1>4

LEMMA CacheInit ==
    ASSUME NEW CONSTANT k, Cache(k)!CacheAssumption, Cache(k)!Init
    PROVE  CacheInv(k)
<1>1. LookupKinds(k)
  <2>1. /\ fsm = "FLUSH" /\ flushIndex \in 0 .. k.sets - 1 /\ readAddr \in Cache(k)!Addrs
        /\ outputValid = FALSE /\ errorSaved = FALSE /\ args = <<>> /\ results = <<>>
    BY CacheRanges DEF Cache!Init
  <2>2. results \in AtMostOne(CacheResults(k)) /\ args \in Seq(Cache(k)!Addrs)
    BY <2>1, Zenon, EmptySeq DEF AtMostOne
  <2> QED BY <2>1, <2>2 DEF LookupKinds
<1>2. MemoryKinds(k)
  <2>1. <<>> \in Seq(CacheWords(k)) /\ Cache(k)!NoTag \in [valid : BOOLEAN, tag : 0 .. k.tags - 1]
    BY CacheRanges DEF Cache!NoTag
  <2> QED BY <2>1, CacheRanges DEF Cache!Init, MemoryKinds
<1>3. RefillerKinds(k)
  <2>1. /\ line \in Cache(k)!Lines /\ active = FALSE /\ flushing = FALSE /\ sending = FALSE
        /\ reqCounter = 0 /\ respCounter = 0 /\ buffer = <<>> /\ blockFwd = <<>> /\ bus = <<>>
    BY CacheRanges DEF Cache!Init
  <2>2. blockFwd \in AtMostOne(CacheForwards(k))
    BY <2>1, Zenon DEF AtMostOne
  <2>3. buffer \in Seq(CacheWords(k)) /\ Len(buffer) < k.blockWords /\ bus \in Seq(Cache(k)!Lines \X Nat)
    BY <2>1, CacheRanges, EmptySeq
  <2> QED BY <2>1, <2>2, <2>3, CacheRanges DEF RefillerKinds
<1>4. HistoryKinds(k)
  BY DEF Cache!Init, HistoryKinds
<1>5. CacheAsked(k) /\ CacheRequests(k) /\ CacheGathered(k) /\ CacheForwarded(k)
  BY DEF Cache!Init, CacheAsked, CacheRequests, CacheGathered, CacheForwarded
<1>6. CacheRefilled(k) /\ LineAbsent(k) /\ EntriesRight(k)
  BY DEF Cache!Init, CacheRefilled, LineAbsent, EntriesRight
<1>7. SetsFlushed(k) /\ Cache(k)!NoDoubleHit /\ Cache(k)!RightBlock
  BY DEF Cache!Init, SetsFlushed, Cache!NoDoubleHit, Cache!NoTag, Cache!RightBlock
<1> QED BY <1>1, <1>2, <1>3, <1>4, <1>5, <1>6, <1>7 DEF CacheInv

LEMMA CacheStutters ==
    ASSUME NEW CONSTANT k, CacheInv(k), UNCHANGED Cache(k)!vars
    PROVE  CacheInv(k)'
<1>1. /\ fsm' = fsm /\ flushIndex' = flushIndex /\ waySelector' = waySelector
      /\ readAddr' = readAddr /\ outputValid' = outputValid /\ errorSaved' = errorSaved
      /\ tags' = tags /\ data' = data /\ args' = args /\ results' = results
  BY DEF Cache!vars, Cache!cache
<1>2. /\ line' = line /\ active' = active /\ flushing' = flushing /\ sending' = sending
      /\ reqCounter' = reqCounter /\ respCounter' = respCounter /\ buffer' = buffer
      /\ blockFwd' = blockFwd /\ bus' = bus /\ version' = version /\ since' = since
  BY DEF Cache!vars, Cache!refill
<1>3. LookupKinds(k)' /\ MemoryKinds(k)' /\ RefillerKinds(k)' /\ HistoryKinds(k)'
  BY <1>1, <1>2 DEF CacheInv, LookupKinds, MemoryKinds, RefillerKinds, HistoryKinds
<1>4. CacheAsked(k)' /\ CacheRequests(k)' /\ CacheGathered(k)' /\ CacheForwarded(k)'
  BY <1>1, <1>2 DEF CacheInv, CacheAsked, CacheRequests, CacheCounts, CacheGathered, CacheForwarded,
                    ForwardRight
<1>5. CacheRefilled(k)' /\ LineAbsent(k)' /\ SetsFlushed(k)' /\ EntriesRight(k)'
  BY <1>1, <1>2 DEF CacheInv, CacheRefilled, Stored, LineAbsent, SetsFlushed, EntriesRight, Overwritten
<1>6. Cache(k)!NoDoubleHit' /\ Cache(k)!RightBlock'
  BY <1>1, <1>2 DEF CacheInv, Cache!NoDoubleHit, Cache!RightBlock
<1> QED BY <1>3, <1>4, <1>5, <1>6 DEF CacheInv

\* A step of the lookup leaves the refiller alone, and most of them the memories too.
LEMMA RefillerStays ==
    ASSUME NEW CONSTANT k, CacheInv(k), UNCHANGED <<Cache(k)!refill, version, since>>
    PROVE  /\ RefillerKinds(k)' /\ HistoryKinds(k)' /\ CacheRequests(k)'
           /\ CacheGathered(k)' /\ CacheForwarded(k)'
<1>1. /\ line' = line /\ active' = active /\ flushing' = flushing /\ sending' = sending
      /\ reqCounter' = reqCounter /\ respCounter' = respCounter /\ buffer' = buffer
      /\ blockFwd' = blockFwd /\ bus' = bus /\ version' = version /\ since' = since
  BY DEF Cache!refill
<1>2. RefillerKinds(k)' /\ HistoryKinds(k)'
  BY <1>1 DEF CacheInv, RefillerKinds, HistoryKinds
<1>3. CacheRequests(k)' /\ CacheGathered(k)'
  BY <1>1 DEF CacheInv, CacheRequests, CacheCounts, CacheGathered
<1>4. CacheForwarded(k)'
  BY <1>1 DEF CacheInv, CacheForwarded, ForwardRight
<1> QED BY <1>2, <1>3, <1>4

LEMMA MemoriesStay ==
    ASSUME NEW CONSTANT k, CacheInv(k), UNCHANGED <<Cache(k)!refill, since>>,
           UNCHANGED <<fsm, flushIndex, waySelector, tags, data>>,
           fsm = "REFILL" => readAddr' = readAddr
    PROVE  /\ MemoryKinds(k)' /\ CacheRefilled(k)' /\ LineAbsent(k)' /\ SetsFlushed(k)'
           /\ EntriesRight(k)' /\ Cache(k)!NoDoubleHit'
<1>1. /\ line' = line /\ active' = active /\ flushing' = flushing
      /\ respCounter' = respCounter /\ blockFwd' = blockFwd /\ since' = since
  BY DEF Cache!refill
<1>2. /\ fsm' = fsm /\ flushIndex' = flushIndex /\ waySelector' = waySelector
      /\ tags' = tags /\ data' = data
  OBVIOUS
<1>3. MemoryKinds(k)' /\ SetsFlushed(k)' /\ Cache(k)!NoDoubleHit'
  BY <1>2 DEF CacheInv, MemoryKinds, SetsFlushed, Cache!NoDoubleHit
<1>4. CacheRefilled(k)'
  BY <1>1, <1>2 DEF CacheInv, CacheRefilled, Stored
<1>5. LineAbsent(k)' /\ EntriesRight(k)'
  BY <1>1, <1>2 DEF CacheInv, LineAbsent, EntriesRight, Overwritten
<1> QED BY <1>3, <1>4, <1>5

LEMMA IssueReqStep ==
    ASSUME NEW CONSTANT k, Cache(k)!CacheAssumption, CacheInv(k),
           NEW a \in Cache(k)!Addrs, Cache(k)!IssueReq(a)
    PROVE  CacheInv(k)'
<1>1. /\ outputValid = FALSE /\ Len(args) < 2
      /\ readAddr' = a /\ outputValid' = TRUE /\ args' = Append(args, a)
      /\ UNCHANGED <<fsm, flushIndex, waySelector, errorSaved, tags, data, results,
                     Cache(k)!refill, version, since>>
  BY Zenon DEF Cache!IssueReq, CacheInv, LookupKinds
<1>2. fsm # "REFILL"
  BY <1>1 DEF CacheInv, CacheAsked
<1>3. /\ RefillerKinds(k)' /\ HistoryKinds(k)' /\ CacheRequests(k)' /\ CacheGathered(k)'
      /\ CacheForwarded(k)' /\ MemoryKinds(k)' /\ CacheRefilled(k)' /\ LineAbsent(k)'
      /\ SetsFlushed(k)' /\ EntriesRight(k)' /\ Cache(k)!NoDoubleHit'
  BY <1>1, <1>2, RefillerStays, MemoriesStay
<1>4. LookupKinds(k)'
  BY <1>1 DEF CacheInv, LookupKinds
<1>5. CacheAsked(k)'
  <2>1. line' = line /\ active' = active /\ flushing' = flushing /\ blockFwd' = blockFwd
    BY <1>1 DEF Cache!refill
  <2>2. results = <<>> => args' = <<a>>
    BY <1>1 DEF CacheInv, CacheAsked
  <2>3. results # <<>> => Len(args') = 2 /\ args'[2] = a
    BY <1>1 DEF CacheInv, CacheAsked, LookupKinds
  <2> QED BY <1>1, <1>2, <2>1, <2>2, <2>3 DEF CacheInv, CacheAsked
<1>6. Cache(k)!RightBlock'
  BY <1>1 DEF CacheInv, Cache!RightBlock
<1> QED BY <1>3, <1>4, <1>5, <1>6 DEF CacheInv

LEMMA OneElement ==
    ASSUME NEW S, NEW s \in Seq(S), Len(s) = 1
    PROVE  s = <<s[1]>>
<1>1. <<s[1]>> \in Seq(S) /\ Len(<<s[1]>>) = 1 /\ <<s[1]>>[1] = s[1]
  OBVIOUS
<1>2. \A i \in 1 .. Len(s) : s[i] = <<s[1]>>[i]
  BY <1>1
<1> QED BY <1>1, <1>2, SeqEqual

LEMMA AcceptResStep ==
    ASSUME NEW CONSTANT k, Cache(k)!CacheAssumption, CacheInv(k), Cache(k)!AcceptRes
    PROVE  CacheInv(k)'
<1>1. /\ results # <<>> /\ results' = <<>> /\ args' = Tail(args)
      /\ UNCHANGED <<fsm, flushIndex, waySelector, readAddr, outputValid, errorSaved, tags,
                     data, Cache(k)!refill, version, since>>
  BY Zenon DEF Cache!AcceptRes
<1>2. fsm # "REFILL"
  BY <1>1 DEF CacheInv, CacheAsked
<1>3. /\ RefillerKinds(k)' /\ HistoryKinds(k)' /\ CacheRequests(k)' /\ CacheGathered(k)'
      /\ CacheForwarded(k)' /\ MemoryKinds(k)' /\ CacheRefilled(k)' /\ LineAbsent(k)'
      /\ SetsFlushed(k)' /\ EntriesRight(k)' /\ Cache(k)!NoDoubleHit'
  BY <1>1, <1>2, RefillerStays, MemoriesStay
<1>4. args \in Seq(Cache(k)!Addrs) /\ args # <<>>
      /\ IF outputValid THEN Len(args) = 2 /\ args[2] = readAddr ELSE Len(args) = 1
  <2>1. IF outputValid THEN Len(args) = 2 /\ args[2] = readAddr ELSE Len(args) = 1
    BY <1>1, Zenon DEF CacheInv, CacheAsked
  <2>2. args \in Seq(Cache(k)!Addrs)
    BY DEF CacheInv, LookupKinds
  <2>3. args # <<>>
    BY <2>1
  <2> QED BY <2>1, <2>2, <2>3, Zenon
<1>5. args' \in Seq(Cache(k)!Addrs) /\ args' = IF outputValid THEN <<readAddr>> ELSE <<>>
  <2> PICK c \in Seq(Cache(k)!Addrs) : c = args
    BY <1>4
  <2> PICK v : v = outputValid
    OBVIOUS
  <2>1. Tail(c) \in Seq(Cache(k)!Addrs) /\ Len(Tail(c)) = Len(c) - 1
        /\ \A i \in 1 .. Len(Tail(c)) : Tail(c)[i] = c[i + 1]
    BY <1>4, HeadTailProperties
  <2>2. CASE v
    <3>1. Len(Tail(c)) = 1 /\ Tail(c)[1] = readAddr
      BY <1>4, <2>1, <2>2
    <3>2. Tail(c) = <<readAddr>>
      BY <2>1, <3>1, OneElement
    <3> QED BY <1>1, <2>1, <2>2, <3>2
  <2>3. CASE ~v
    <3>1. Len(Tail(c)) = 0
      BY <1>4, <2>1, <2>3
    <3>2. Tail(c) = <<>>
      BY <2>1, <3>1, EmptySeq
    <3> QED BY <1>1, <2>1, <2>3, <3>2
  <2> QED BY <2>2, <2>3
<1>6. LookupKinds(k)'
  <2>1. results' \in AtMostOne(CacheResults(k))
    BY <1>1, Zenon DEF AtMostOne
  <2> QED BY <1>1, <1>5, <2>1 DEF CacheInv, LookupKinds
<1>7. CacheAsked(k)'
  <2>1. line' = line /\ active' = active /\ flushing' = flushing /\ blockFwd' = blockFwd
    BY <1>1 DEF Cache!refill
  <2> QED BY <1>1, <1>2, <1>5, <2>1 DEF CacheInv, CacheAsked
<1>8. Cache(k)!RightBlock'
  BY <1>1 DEF Cache!RightBlock
<1> QED BY <1>3, <1>6, <1>7, <1>8 DEF CacheInv

\* The request that is looked up is the oldest one.
LEMMA LookedUp ==
    ASSUME NEW CONSTANT k, CacheInv(k), Cache(k)!MemReadReady
    PROVE  /\ args = <<readAddr>> /\ Head(args) = readAddr /\ outputValid = TRUE
           /\ fsm = "LOOKUP" /\ results = <<>> /\ active = FALSE
           /\ flushing = FALSE /\ sending = FALSE /\ bus = <<>> /\ blockFwd = <<>>
           /\ readAddr.index \in 0 .. k.sets - 1 /\ readAddr.tag \in 0 .. k.tags - 1
           /\ readAddr.block \in 0 .. k.blocks - 1
<1>1. /\ fsm = "LOOKUP" /\ (outputValid \/ errorSaved) /\ args # <<>> /\ results = <<>> /\ ~active
  BY Zenon DEF Cache!MemReadReady
<1>2. outputValid = TRUE /\ active = FALSE
  BY <1>1 DEF CacheInv, CacheAsked, LookupKinds, RefillerKinds
<1>3. args = <<readAddr>> /\ blockFwd = <<>>
  BY <1>1, <1>2 DEF CacheInv, CacheAsked
<1>4. flushing = FALSE /\ sending = FALSE /\ bus = <<>>
  BY <1>2 DEF CacheInv, CacheRequests, RefillerKinds
<1>5. /\ readAddr.index \in 0 .. k.sets - 1 /\ readAddr.tag \in 0 .. k.tags - 1
      /\ readAddr.block \in 0 .. k.blocks - 1
  BY DEF CacheInv, LookupKinds, Cache!Addrs
<1> QED BY <1>1, <1>2, <1>3, <1>4, <1>5

LEMMA StoredKind ==
    ASSUME NEW CONSTANT k, CacheInv(k), NEW i \in 0 .. k.sets - 1, NEW w \in 0 .. k.ways - 1,
           NEW b \in 0 .. k.blocks - 1
    PROVE  data[i][w][b] \in Seq(CacheWords(k))
<1>1. data \in [0 .. k.sets - 1 -> [0 .. k.ways - 1 -> [0 .. k.blocks - 1 -> Seq(CacheWords(k))]]]
  BY DEF CacheInv, MemoryKinds
<1>2. data[i] \in [0 .. k.ways - 1 -> [0 .. k.blocks - 1 -> Seq(CacheWords(k))]]
  BY <1>1
<1>3. data[i][w] \in [0 .. k.blocks - 1 -> Seq(CacheWords(k))]
  BY <1>2
<1> QED BY <1>3

\* A lookup that hits in one way reads a block of the line.
LEMMA HitIsRight ==
    ASSUME NEW CONSTANT k, CacheInv(k), Cache(k)!MemReadReady, Cache(k)!HitWays # {}
    PROVE  \E block \in Seq(CacheWords(k)) :
             /\ Cache(k)!MemOut = {block}
             /\ RightWords(k, block, Cache(k)!LineOf(readAddr), readAddr.block, since)
<1>1. /\ Head(args) = readAddr /\ fsm = "LOOKUP" /\ readAddr.index \in 0 .. k.sets - 1
      /\ readAddr.block \in 0 .. k.blocks - 1
  BY LookedUp
<1>2. PICK w \in 0 .. k.ways - 1 : tags[readAddr.index][w].valid /\ tags[readAddr.index][w].tag = readAddr.tag
  BY <1>1 DEF Cache!HitWays
<1>3. ASSUME NEW v \in Cache(k)!HitWays PROVE v = w
  BY <1>1, <1>2, <1>3 DEF CacheInv, Cache!NoDoubleHit, Cache!HitWays
<1>4. Cache(k)!HitWays = {w}
  BY <1>1, <1>2, <1>3 DEF Cache!HitWays
<1>5. Cache(k)!MemOut = {data[readAddr.index][w][readAddr.block]}
  BY <1>4 DEF Cache!MemOut
<1>6. EntryRight(k, data[readAddr.index][w], <<readAddr.tag, readAddr.index>>, since)
  BY <1>1, <1>2 DEF CacheInv, EntriesRight, Overwritten
<1>7. data[readAddr.index][w][readAddr.block] \in Seq(CacheWords(k))
  BY <1>1, StoredKind
<1> QED BY <1>1, <1>5, <1>6, <1>7 DEF EntryRight, Cache!LineOf

LEMMA MemReadHitStep ==
    ASSUME NEW CONSTANT k, Cache(k)!CacheAssumption, CacheInv(k), Cache(k)!MemReadHit
    PROVE  CacheInv(k)'
<1>1. /\ Cache(k)!MemReadReady /\ (Cache(k)!HitWays # {} \/ errorSaved)
      /\ results' = <<[addr |-> Head(args), out |-> Cache(k)!MemOut, error |-> errorSaved,
                       may |-> since[Cache(k)!LineOf(Head(args))]]>>
      /\ errorSaved' = FALSE /\ outputValid' = FALSE
      /\ UNCHANGED <<fsm, flushIndex, waySelector, readAddr, tags, data, args,
                     Cache(k)!refill, version, since>>
  BY Zenon DEF Cache!MemReadHit
<1>2. /\ args = <<readAddr>> /\ Head(args) = readAddr /\ fsm = "LOOKUP" /\ blockFwd = <<>>
      /\ active = FALSE /\ readAddr.index \in 0 .. k.sets - 1
      /\ readAddr.tag \in 0 .. k.tags - 1 /\ readAddr.block \in 0 .. k.blocks - 1
  BY <1>1, LookedUp
<1>3. /\ RefillerKinds(k)' /\ HistoryKinds(k)' /\ CacheRequests(k)' /\ CacheGathered(k)'
      /\ CacheForwarded(k)' /\ MemoryKinds(k)' /\ CacheRefilled(k)' /\ LineAbsent(k)'
      /\ SetsFlushed(k)' /\ EntriesRight(k)' /\ Cache(k)!NoDoubleHit'
  BY <1>1, RefillerStays, MemoriesStay
<1>4. PICK r : r = [addr |-> readAddr, out |-> Cache(k)!MemOut, error |-> errorSaved,
                    may |-> since[Cache(k)!LineOf(readAddr)]]
  OBVIOUS
<1>5. results' = <<r>> /\ r.addr = readAddr /\ r.out = Cache(k)!MemOut /\ r.error = errorSaved
      /\ r.may = since[Cache(k)!LineOf(readAddr)]
  BY <1>1, <1>2, <1>4, Zenon
<1>6. r \in CacheResults(k)
  <2>1. Cache(k)!MemOut \in SUBSET Seq(CacheWords(k))
    <3>1. \A w \in 0 .. k.ways - 1 : data[readAddr.index][w][readAddr.block] \in Seq(CacheWords(k))
      BY <1>2, StoredKind
    <3>2. Cache(k)!HitWays \subseteq 0 .. k.ways - 1
      BY DEF Cache!HitWays
    <3> QED BY <3>1, <3>2 DEF Cache!MemOut
  <2>2. since[Cache(k)!LineOf(readAddr)] \in SUBSET {0, 1}
    BY <1>2 DEF CacheInv, HistoryKinds, Cache!LineOf, Cache!Lines
  <2>3. errorSaved \in BOOLEAN /\ readAddr \in Cache(k)!Addrs
    BY DEF CacheInv, LookupKinds
  <2> QED BY <1>4, <2>1, <2>2, <2>3, Zenon DEF CacheResults
<1>7. LookupKinds(k)'
  <2>1. results' \in AtMostOne(CacheResults(k))
    BY <1>5, <1>6, Zenon DEF AtMostOne
  <2> QED BY <1>1, <2>1 DEF CacheInv, LookupKinds
<1>8. CacheAsked(k)'
  <2>1. line' = line /\ active' = active /\ flushing' = flushing /\ blockFwd' = blockFwd
    BY <1>1 DEF Cache!refill
  <2>2. results' # <<>> /\ Len(args') = 1
    BY <1>1, <1>2, <1>5
  <2> QED BY <1>1, <1>2, <2>1, <2>2 DEF CacheAsked
<1>9. Cache(k)!RightBlock'
  <2> SUFFICES ASSUME ~errorSaved
               PROVE  \E block \in r.out :
                        /\ r.out = {block} /\ Len(block) = k.blockWords
                        /\ \A i \in 1 .. k.blockWords :
                             /\ block[i][1] = Cache(k)!LineOf(r.addr)
                             /\ block[i][2] = r.addr.block * k.blockWords + i - 1
                             /\ block[i][3] \in r.may
    <3>1. results'[1] = r
      BY <1>5
    <3> QED BY <1>5, <3>1 DEF Cache!RightBlock, Cache!LineOf
  <2>1. PICK block : /\ Cache(k)!MemOut = {block}
                     /\ RightWords(k, block, Cache(k)!LineOf(readAddr), readAddr.block, since)
    BY <1>1, HitIsRight
  <2> QED BY <1>5, <2>1 DEF RightWords, RightWord
<1> QED BY <1>3, <1>7, <1>8, <1>9 DEF CacheInv

LEMMA MemReadMissStep ==
    ASSUME NEW CONSTANT k, Cache(k)!CacheAssumption, CacheInv(k), Cache(k)!MemReadMiss
    PROVE  CacheInv(k)'
<1>1. /\ Cache(k)!MemReadReady /\ Cache(k)!HitWays = {} /\ fsm' = "REFILL"
      /\ line' = Cache(k)!LineOf(Head(args)) /\ reqCounter' = 0 /\ respCounter' = 0
      /\ sending' = TRUE /\ active' = TRUE
      /\ UNCHANGED <<flushIndex, waySelector, readAddr, outputValid, errorSaved, tags, data,
                     args, results, flushing, buffer, blockFwd, bus, version, since>>
  BY Zenon DEF Cache!MemReadMiss
<1>2. /\ args = <<readAddr>> /\ Head(args) = readAddr /\ fsm = "LOOKUP" /\ blockFwd = <<>>
      /\ outputValid = TRUE /\ results = <<>> /\ flushing = FALSE /\ bus = <<>>
      /\ readAddr.index \in 0 .. k.sets - 1 /\ readAddr.tag \in 0 .. k.tags - 1
  BY <1>1, LookedUp
<1>3. line' = Cache(k)!LineOf(readAddr) /\ line' \in Cache(k)!Lines
  BY <1>1, <1>2 DEF Cache!LineOf, Cache!Lines
<1>4. LookupKinds(k)' /\ MemoryKinds(k)' /\ HistoryKinds(k)'
  BY <1>1 DEF CacheInv, LookupKinds, MemoryKinds, HistoryKinds
<1>5. RefillerKinds(k)'
  <2>1. 0 \in 0 .. Cache(k)!LineWords - 1
    BY CacheRanges
  <2> QED BY <1>1, <1>3, <2>1 DEF CacheInv, RefillerKinds
<1>6. CacheAsked(k)'
  BY <1>1, <1>2, <1>3 DEF CacheInv, CacheAsked
<1>7. CacheRequests(k)'
  <2>1. Cache(k)!LineWords \in Nat \ {0}
    BY LineWordsKind
  <2>2. 0 \in 0 .. Cache(k)!LineWords /\ 0 < Cache(k)!LineWords /\ 0 # Cache(k)!LineWords
    BY <2>1
  <2>3. OnTheWay(bus', line', 0, 0)
    BY <1>1, <1>2 DEF OnTheWay
  <2>4. CacheCounts(k, 0, 0)'
    BY <1>1, <1>2, <2>2, <2>3 DEF CacheCounts, CountOf
  <2> QED BY <1>1, <2>2, <2>4 DEF CacheRequests
<1>8. 0 % k.blockWords = 0 /\ 0 \div k.blockWords = 0
  <2> PICK B \in Nat \ {0} : B = k.blockWords
    BY LineWordsKind
  <2>1. 0 % B = 0 /\ 0 \div B = 0
    OBVIOUS
  <2> QED BY <2>1
<1>9. CacheGathered(k)'
  <2>1. Len(buffer) \in Nat
    BY DEF CacheInv, RefillerKinds
  <2>2. Gathered(k, buffer, line', 0, since)
    BY <1>8, <2>1 DEF Gathered
  <2> QED BY <1>1, <2>2 DEF CacheGathered
<1>10. CacheForwarded(k)'
  BY <1>1, <1>2 DEF CacheForwarded
<1>11. CacheRefilled(k)'
  BY <1>1, <1>2, <1>8 DEF CacheRefilled, Stored
<1>12. LineAbsent(k)'
  BY <1>1, <1>2 DEF LineAbsent, Cache!HitWays
<1>13. SetsFlushed(k)' /\ EntriesRight(k)'
  BY <1>1, <1>2 DEF CacheInv, SetsFlushed, EntriesRight, Overwritten
<1>14. Cache(k)!NoDoubleHit' /\ Cache(k)!RightBlock'
  BY <1>1 DEF CacheInv, Cache!NoDoubleHit, Cache!RightBlock
<1> QED BY <1>4, <1>5, <1>6, <1>7, <1>9, <1>10, <1>11, <1>12, <1>13, <1>14 DEF CacheInv

\* While no refill runs, no block is handed over and an answer is dropped.
LEMMA NotRefilling ==
    ASSUME NEW CONSTANT k, CacheInv(k), fsm # "REFILL"
    PROVE  blockFwd = <<>> /\ ~(active /\ ~flushing)
BY DEF CacheInv, CacheAsked

LEMMA FlushStep ==
    ASSUME NEW CONSTANT k, Cache(k)!CacheAssumption, CacheInv(k), Cache(k)!Flush
    PROVE  CacheInv(k)'
<1>1. /\ ~outputValid /\ flushIndex' = 0 /\ fsm' = IF fsm = "LOOKUP" THEN "FLUSH" ELSE fsm
      /\ since' = [l \in Cache(k)!Lines |-> {version[l]}]
      /\ UNCHANGED <<waySelector, readAddr, outputValid, errorSaved, tags, data, args, results,
                     Cache(k)!refill, version>>
  BY Zenon DEF Cache!Flush, Cache!FlushReady
<1>2. fsm' = "FLUSH" /\ fsm # "REFILL" /\ blockFwd = <<>> /\ ~(active /\ ~flushing)
  BY <1>1, NotRefilling DEF CacheInv, CacheAsked, LookupKinds
<1>3. /\ line' = line /\ active' = active /\ flushing' = flushing /\ sending' = sending
      /\ reqCounter' = reqCounter /\ respCounter' = respCounter /\ buffer' = buffer
      /\ blockFwd' = blockFwd /\ bus' = bus
  BY <1>1 DEF Cache!refill
<1>4. LookupKinds(k)' /\ MemoryKinds(k)' /\ RefillerKinds(k)'
  <2>1. flushIndex' \in 0 .. k.sets - 1
    BY <1>1, CacheRanges
  <2> QED BY <1>1, <1>2, <1>3, <2>1 DEF CacheInv, LookupKinds, MemoryKinds, RefillerKinds
<1>5. HistoryKinds(k)'
  BY <1>1 DEF CacheInv, HistoryKinds
<1>6. CacheAsked(k)' /\ CacheRequests(k)'
  BY <1>1, <1>2, <1>3 DEF CacheInv, CacheAsked, CacheRequests, CacheCounts
<1>7. CacheGathered(k)' /\ CacheForwarded(k)' /\ CacheRefilled(k)' /\ LineAbsent(k)' /\ EntriesRight(k)'
  BY <1>2, <1>3 DEF CacheGathered, CacheForwarded, CacheRefilled, LineAbsent, EntriesRight
<1>8. SetsFlushed(k)'
  <2>1. \A i \in 0 .. k.sets - 1 : ~(i < 0)
    OBVIOUS
  <2> QED BY <1>1, <2>1 DEF SetsFlushed
<1>9. Cache(k)!NoDoubleHit' /\ Cache(k)!RightBlock'
  BY <1>1 DEF CacheInv, Cache!NoDoubleHit, Cache!RightBlock
<1> QED BY <1>4, <1>5, <1>6, <1>7, <1>8, <1>9 DEF CacheInv

LEMMA FlushCycleStep ==
    ASSUME NEW CONSTANT k, Cache(k)!CacheAssumption, CacheInv(k), Cache(k)!FlushCycle
    PROVE  CacheInv(k)'
<1>1. /\ fsm = "FLUSH" /\ flushIndex' = (flushIndex + 1) % k.sets
      /\ fsm' = IF Cache(k)!FlushFinish THEN "LOOKUP" ELSE fsm
      /\ tags' = [tags EXCEPT ![flushIndex] = [w \in 0 .. k.ways - 1 |-> Cache(k)!NoTag]]
      /\ UNCHANGED <<waySelector, readAddr, outputValid, errorSaved, data, args, results,
                     Cache(k)!refill, version, since>>
  BY Zenon DEF Cache!FlushCycle
<1>2. /\ RefillerKinds(k)' /\ HistoryKinds(k)' /\ CacheRequests(k)'
      /\ CacheGathered(k)' /\ CacheForwarded(k)'
  BY <1>1, RefillerStays
<1>3. blockFwd = <<>> /\ ~(active /\ ~flushing) /\ fsm' # "REFILL"
  BY <1>1, NotRefilling
<1>4. line' = line /\ active' = active /\ flushing' = flushing /\ blockFwd' = blockFwd
  BY <1>1 DEF Cache!refill
<1>5. /\ flushIndex \in 0 .. k.sets - 1
      /\ IF Cache(k)!FlushFinish THEN flushIndex = k.sets - 1 /\ flushIndex' = 0
         ELSE flushIndex < k.sets - 1 /\ flushIndex' = flushIndex + 1
      /\ flushIndex' \in 0 .. k.sets - 1
  <2>1. PICK f \in 0 .. k.sets - 1 : f = flushIndex
    BY DEF CacheInv, LookupKinds
  <2>2. PICK n \in Nat \ {0} : n = k.sets
    BY CacheRanges
  <2>3. IF f = n - 1 THEN (f + 1) % n = 0 ELSE f < n - 1 /\ (f + 1) % n = f + 1
    BY <2>1, <2>2
  <2>4. (f + 1) % n \in 0 .. n - 1
    BY <2>1, <2>2
  <2> QED BY <1>1, <2>1, <2>2, <2>3, <2>4 DEF Cache!FlushFinish
<1>6. tags \in [0 .. k.sets - 1 -> [0 .. k.ways - 1 -> [valid : BOOLEAN, tag : 0 .. k.tags - 1]]]
  BY DEF CacheInv, MemoryKinds
<1>7. ASSUME NEW i \in 0 .. k.sets - 1, NEW w \in 0 .. k.ways - 1
      PROVE  tags'[i][w] = IF i = flushIndex THEN Cache(k)!NoTag ELSE tags[i][w]
  BY <1>1, <1>6
<1>8. LookupKinds(k)'
  BY <1>1, <1>5 DEF CacheInv, LookupKinds
<1>9. MemoryKinds(k)'
  <2>1. [w \in 0 .. k.ways - 1 |-> Cache(k)!NoTag] \in
          [0 .. k.ways - 1 -> [valid : BOOLEAN, tag : 0 .. k.tags - 1]]
    BY CacheRanges DEF Cache!NoTag
  <2>2. tags' \in [0 .. k.sets - 1 -> [0 .. k.ways - 1 -> [valid : BOOLEAN, tag : 0 .. k.tags - 1]]]
    BY <1>1, <1>6, <2>1
  <2> QED BY <1>1, <2>2 DEF CacheInv, MemoryKinds
<1>10. CacheAsked(k)'
  BY <1>1, <1>3, <1>4 DEF CacheInv, CacheAsked
<1>11. CacheRefilled(k)' /\ LineAbsent(k)'
  BY <1>3 DEF CacheRefilled, LineAbsent
<1>12. ASSUME NEW i \in 0 .. k.sets - 1, NEW w \in 0 .. k.ways - 1, i <= flushIndex
       PROVE  ~tags'[i][w].valid
  BY <1>1, <1>5, <1>7, <1>12 DEF CacheInv, SetsFlushed, Cache!NoTag
<1>13. SetsFlushed(k)' /\ EntriesRight(k)'
  <2>1. CASE Cache(k)!FlushFinish
    <3>1. ASSUME NEW i \in 0 .. k.sets - 1, NEW w \in 0 .. k.ways - 1 PROVE ~tags'[i][w].valid
      BY <1>5, <1>12, <2>1
    <3> QED BY <1>1, <2>1, <3>1 DEF SetsFlushed, EntriesRight
  <2>2. CASE ~Cache(k)!FlushFinish
    <3>1. ASSUME NEW i \in 0 .. k.sets - 1, NEW w \in 0 .. k.ways - 1, i < flushIndex'
          PROVE  ~tags'[i][w].valid
      BY <1>5, <1>12, <2>2, <3>1
    <3> QED BY <1>1, <2>2, <3>1 DEF SetsFlushed, EntriesRight
  <2> QED BY <2>1, <2>2
<1>14. Cache(k)!NoDoubleHit'
  BY <1>7 DEF CacheInv, Cache!NoDoubleHit, Cache!NoTag
<1>15. Cache(k)!RightBlock'
  BY <1>1 DEF CacheInv, Cache!RightBlock
<1> QED BY <1>2, <1>8, <1>9, <1>10, <1>11, <1>13, <1>14, <1>15 DEF CacheInv

\* A step of the refiller or of the bus leaves the lookup and the memories alone.
LEMMA LookupStays ==
    ASSUME NEW CONSTANT k, CacheInv(k), UNCHANGED <<Cache(k)!cache, version, since>>
    PROVE  /\ LookupKinds(k)' /\ MemoryKinds(k)' /\ HistoryKinds(k)' /\ LineAbsent(k)'
           /\ SetsFlushed(k)' /\ EntriesRight(k)' /\ Cache(k)!NoDoubleHit' /\ Cache(k)!RightBlock'
<1>1. /\ fsm' = fsm /\ flushIndex' = flushIndex /\ waySelector' = waySelector
      /\ readAddr' = readAddr /\ outputValid' = outputValid /\ errorSaved' = errorSaved
      /\ tags' = tags /\ data' = data /\ args' = args /\ results' = results
      /\ version' = version /\ since' = since
  BY DEF Cache!cache
<1>2. LookupKinds(k)' /\ MemoryKinds(k)' /\ HistoryKinds(k)'
  BY <1>1 DEF CacheInv, LookupKinds, MemoryKinds, HistoryKinds
<1>3. LineAbsent(k)' /\ SetsFlushed(k)' /\ EntriesRight(k)'
  BY <1>1 DEF CacheInv, LineAbsent, SetsFlushed, EntriesRight, Overwritten
<1>4. Cache(k)!NoDoubleHit' /\ Cache(k)!RightBlock'
  BY <1>1 DEF CacheInv, Cache!NoDoubleHit, Cache!RightBlock
<1> QED BY <1>2, <1>3, <1>4

LEMMA CounterKind ==
    ASSUME NEW CONSTANT k, Cache(k)!CacheAssumption, NEW n \in 0 .. Cache(k)!LineWords
    PROVE  /\ CountOf(k, n) \in 0 .. Cache(k)!LineWords - 1
           /\ n < Cache(k)!LineWords => /\ CountOf(k, n) = n
                                        /\ Cache(k)!Wrap(n) = CountOf(k, n + 1)
                                        /\ n + 1 \in 0 .. Cache(k)!LineWords
<1>1. PICK m \in Nat \ {0} : m = Cache(k)!LineWords
  BY LineWordsKind
<1>2. n < m => (n + 1) % m = IF n + 1 = m THEN 0 ELSE n + 1
  BY <1>1
<1> QED BY <1>1, <1>2 DEF CountOf, Cache!Wrap

LEMMA SendRequestStep ==
    ASSUME NEW CONSTANT k, Cache(k)!CacheAssumption, CacheInv(k), Cache(k)!SendRequest
    PROVE  CacheInv(k)'
<1>1. /\ sending /\ bus' = Append(bus, <<line, reqCounter>>)
      /\ reqCounter' = Cache(k)!Wrap(reqCounter)
      /\ sending' = (reqCounter # Cache(k)!LineWords - 1)
      /\ UNCHANGED <<Cache(k)!cache, line, active, flushing, respCounter, buffer, blockFwd,
                     version, since>>
  BY Zenon DEF Cache!SendRequest
<1>2. PICK m \in Nat \ {0} : m = Cache(k)!LineWords
  BY LineWordsKind
<1>3. active
  BY <1>1 DEF CacheInv, CacheRequests
<1>4. PICK s \in 0 .. Cache(k)!LineWords, r \in 0 .. Cache(k)!LineWords : CacheCounts(k, s, r)
  BY <1>3 DEF CacheInv, CacheRequests
<1>5. /\ s < m /\ r <= s /\ reqCounter = s /\ ~flushing /\ r < m
      /\ Cache(k)!Wrap(s) = CountOf(k, s + 1) /\ s + 1 \in 0 .. Cache(k)!LineWords
      /\ CountOf(k, s + 1) \in 0 .. Cache(k)!LineWords - 1
  <2>1. s < m /\ r <= s /\ reqCounter = CountOf(k, s) /\ ~flushing /\ r < m
    BY <1>1, <1>2, <1>4 DEF CacheCounts
  <2> QED BY <1>2, <2>1, CounterKind
<1>6. bus \in Seq(Cache(k)!Lines \X Nat) /\ <<line, s>> \in Cache(k)!Lines \X Nat
      /\ OnTheWay(bus, line, s, r)
  <2>1. bus \in Seq(Cache(k)!Lines \X Nat) /\ line \in Cache(k)!Lines
    BY DEF CacheInv, RefillerKinds
  <2> QED BY <1>4, <2>1 DEF CacheCounts
<1>7. bus' \in Seq(Cache(k)!Lines \X Nat) /\ OnTheWay(bus', line, s + 1, r)
  <2>1. PICK b \in Seq(Cache(k)!Lines \X Nat) : b = bus
    BY <1>6
  <2>2. PICK x \in Cache(k)!Lines \X Nat : x = <<line, s>>
    BY <1>6
  <2>3. PICK n \in Nat : n = s - r
    BY <1>5
  <2>4. Len(b) = n /\ \A i \in 1 .. n : b[i] = <<line, r + i - 1>>
    BY <1>6, <2>1, <2>3 DEF OnTheWay
  <2>5. /\ bus' = Append(b, x) /\ Append(b, x) \in Seq(Cache(k)!Lines \X Nat)
        /\ Len(Append(b, x)) = n + 1 /\ Append(b, x)[n + 1] = x
        /\ \A i \in 1 .. n : Append(b, x)[i] = b[i]
    BY <1>1, <1>5, <2>1, <2>2, <2>4
  <2>6. s + 1 - r = n + 1 /\ r + (n + 1) - 1 = s
    BY <2>3
  <2>7. ASSUME NEW i \in 1 .. n + 1 PROVE Append(b, x)[i] = <<line, r + i - 1>>
    BY <2>2, <2>4, <2>5, <2>6
  <2>8. PICK c : c = Append(b, x)
    OBVIOUS
  <2>9. Len(c) = s + 1 - r /\ \A i \in 1 .. s + 1 - r : c[i] = <<line, r + i - 1>>
    BY <2>5, <2>6, <2>7, <2>8
  <2>10. bus' = c /\ c \in Seq(Cache(k)!Lines \X Nat)
    BY <2>5, <2>8
  <2>11. OnTheWay(c, line, s + 1, r)
    BY ONLY <2>9 DEF OnTheWay
  <2> QED BY ONLY <2>10, <2>11
<1>8. RefillerKinds(k)'
  BY <1>1, <1>5, <1>7 DEF CacheInv, RefillerKinds
<1>9. CacheAsked(k)'
  BY <1>1 DEF CacheInv, CacheAsked, Cache!cache
<1>10. CacheRequests(k)'
  <2>1. sending' => s + 1 < m
    <3>1. sending' => s # m - 1
      BY <1>1, <1>2, <1>5, Zenon
    <3>2. s # m - 1 => s + 1 < m
      BY <1>2, <1>5
    <3> QED BY <3>1, <3>2
  <2>2. CacheCounts(k, s + 1, r)'
    BY <1>1, <1>2, <1>4, <1>5, <1>7, <2>1 DEF CacheCounts
  <2> QED BY <1>1, <1>3, <1>5, <2>2 DEF CacheRequests
<1>11. CacheGathered(k)' /\ CacheForwarded(k)'
  BY <1>1 DEF CacheInv, CacheGathered, CacheForwarded, ForwardRight
<1>12. CacheRefilled(k)'
  BY <1>1 DEF CacheInv, CacheRefilled, Stored, Cache!cache
<1>13. /\ LookupKinds(k)' /\ MemoryKinds(k)' /\ HistoryKinds(k)' /\ LineAbsent(k)'
       /\ SetsFlushed(k)' /\ EntriesRight(k)' /\ Cache(k)!NoDoubleHit' /\ Cache(k)!RightBlock'
  BY <1>1, LookupStays
<1> QED BY <1>8, <1>9, <1>10, <1>11, <1>12, <1>13 DEF CacheInv

LEMMA FlushingEndStep ==
    ASSUME NEW CONSTANT k, Cache(k)!CacheAssumption, CacheInv(k), Cache(k)!FlushingEnd
    PROVE  CacheInv(k)'
<1>1. /\ flushing /\ respCounter = reqCounter /\ active' = FALSE /\ flushing' = FALSE
      /\ UNCHANGED <<Cache(k)!cache, line, sending, reqCounter, respCounter, buffer, blockFwd,
                     bus, version, since>>
  BY Zenon DEF Cache!FlushingEnd, Cache!FlushingDone
<1>2. active
  BY <1>1 DEF CacheInv, CacheRequests
<1>3. PICK s \in 0 .. Cache(k)!LineWords, r \in 0 .. Cache(k)!LineWords : CacheCounts(k, s, r)
  BY <1>2 DEF CacheInv, CacheRequests
<1>4. bus = <<>> /\ ~sending
  <2>1. PICK m \in Nat \ {0} : m = Cache(k)!LineWords
    BY LineWordsKind
  <2>2. /\ r >= 1 /\ r <= s /\ ~sending /\ CountOf(k, s) = CountOf(k, r) /\ Len(bus) = s - r
    BY <1>1, <1>3 DEF CacheCounts, OnTheWay
  <2>3. s = r
    BY <2>1, <2>2 DEF CountOf
  <2>4. bus \in Seq(Cache(k)!Lines \X Nat) /\ Len(bus) = 0
    BY <2>2, <2>3 DEF CacheInv, RefillerKinds
  <2> QED BY <2>2, <2>4, EmptySeq
<1>5. RefillerKinds(k)'
  BY <1>1 DEF CacheInv, RefillerKinds
<1>6. CacheAsked(k)'
  BY <1>1 DEF CacheInv, CacheAsked, Cache!cache
<1>7. CacheRequests(k)' /\ CacheGathered(k)'
  BY <1>1, <1>4 DEF CacheRequests, CacheGathered
<1>8. CacheForwarded(k)'
  BY <1>1 DEF CacheInv, CacheForwarded, ForwardRight
<1>9. CacheRefilled(k)'
  BY <1>1 DEF CacheInv, CacheRefilled, Stored, Cache!cache
<1>10. /\ LookupKinds(k)' /\ MemoryKinds(k)' /\ HistoryKinds(k)' /\ LineAbsent(k)'
       /\ SetsFlushed(k)' /\ EntriesRight(k)' /\ Cache(k)!NoDoubleHit' /\ Cache(k)!RightBlock'
  BY <1>1, LookupStays
<1> QED BY <1>5, <1>6, <1>7, <1>8, <1>9, <1>10 DEF CacheInv

LEMMA WriteMemoryStep ==
    ASSUME NEW CONSTANT k, Cache(k)!CacheAssumption, CacheInv(k), NEW l, Cache(k)!WriteMemory(l)
    PROVE  CacheInv(k)'
<1>1. /\ version' = [version EXCEPT ![l] = 1] /\ since' = [since EXCEPT ![l] = @ \union {1}]
      /\ UNCHANGED <<Cache(k)!cache, Cache(k)!refill>>
  BY Zenon DEF Cache!WriteMemory
<1>2. /\ fsm' = fsm /\ flushIndex' = flushIndex /\ waySelector' = waySelector
      /\ readAddr' = readAddr /\ outputValid' = outputValid /\ errorSaved' = errorSaved
      /\ tags' = tags /\ data' = data /\ args' = args /\ results' = results
  BY <1>1 DEF Cache!cache
<1>3. /\ line' = line /\ active' = active /\ flushing' = flushing /\ sending' = sending
      /\ reqCounter' = reqCounter /\ respCounter' = respCounter /\ buffer' = buffer
      /\ blockFwd' = blockFwd /\ bus' = bus
  BY <1>1 DEF Cache!refill
<1>4. /\ version \in [Cache(k)!Lines -> {0, 1}] /\ since \in [Cache(k)!Lines -> SUBSET {0, 1}]
      /\ \A i \in Cache(k)!Lines : version[i] \in since[i]
  BY DEF CacheInv, HistoryKinds
<1>5. ASSUME NEW i \in Cache(k)!Lines PROVE since[i] \subseteq since'[i]
  BY <1>1, <1>4
<1>6. HistoryKinds(k)'
  <2>1. version' \in [Cache(k)!Lines -> {0, 1}] /\ since' \in [Cache(k)!Lines -> SUBSET {0, 1}]
    BY <1>1, <1>4
  <2>2. ASSUME NEW i \in Cache(k)!Lines PROVE version'[i] \in since'[i]
    BY <1>1, <1>4
  <2> QED BY <2>1, <2>2 DEF HistoryKinds
<1>7. LookupKinds(k)' /\ MemoryKinds(k)' /\ RefillerKinds(k)'
  BY <1>2, <1>3 DEF CacheInv, LookupKinds, MemoryKinds, RefillerKinds
<1>8. CacheAsked(k)' /\ CacheRequests(k)'
  BY <1>2, <1>3 DEF CacheInv, CacheAsked, CacheRequests, CacheCounts
<1>9. /\ \A ws, b : RightWords(k, ws, line, b, since) => RightWords(k, ws, line, b, since')
      /\ \A buf, n : Gathered(k, buf, line, n, since) => Gathered(k, buf, line, n, since')
  <2>1. PICK s, t, i : s = since /\ t = since' /\ i = line
    OBVIOUS
  <2>2. s[i] \subseteq t[i]
    BY <1>5, <2>1 DEF CacheInv, RefillerKinds
  <2> QED BY <2>1, <2>2, RightForLonger
<1>10. CacheGathered(k)' /\ CacheForwarded(k)' /\ CacheRefilled(k)'
  <2>1. CacheGathered(k)'
    BY <1>3, <1>9 DEF CacheInv, CacheGathered
  <2>2. CacheForwarded(k)'
    BY <1>3, <1>9 DEF CacheInv, CacheForwarded, ForwardRight
  <2>3. CacheRefilled(k)'
    BY <1>2, <1>3, <1>9 DEF CacheInv, CacheRefilled, Stored
  <2> QED BY <2>1, <2>2, <2>3
<1>11. LineAbsent(k)' /\ SetsFlushed(k)'
  BY <1>2 DEF CacheInv, LineAbsent, SetsFlushed
<1>12. EntriesRight(k)'
  <2>1. ASSUME NEW i \in 0 .. k.sets - 1, NEW w \in 0 .. k.ways - 1,
               EntryRight(k, data[i][w], <<tags[i][w].tag, i>>, since)
        PROVE  EntryRight(k, data[i][w], <<tags[i][w].tag, i>>, since')
    <3>1. PICK s, t, j, d : s = since /\ t = since' /\ j = <<tags[i][w].tag, i>> /\ d = data[i][w]
      OBVIOUS
    <3>2. j \in Cache(k)!Lines
      <4>1. tags \in [0 .. k.sets - 1 -> [0 .. k.ways - 1 -> [valid : BOOLEAN, tag : 0 .. k.tags - 1]]]
        BY DEF CacheInv, MemoryKinds
      <4>2. tags[i][w] \in [valid : BOOLEAN, tag : 0 .. k.tags - 1]
        BY <4>1
      <4> QED BY <3>1, <4>2 DEF Cache!Lines
    <3>3. s[j] \subseteq t[j] /\ EntryRight(k, d, j, s)
      BY <1>5, <2>1, <3>1, <3>2
    <3>4. EntryRight(k, d, j, t)
      BY <3>3, RightForLonger
    <3> QED BY <3>1, <3>4
  <2> QED BY <1>2, <2>1 DEF CacheInv, EntriesRight, Overwritten
<1>13. Cache(k)!NoDoubleHit' /\ Cache(k)!RightBlock'
  BY <1>2 DEF CacheInv, Cache!NoDoubleHit, Cache!RightBlock
<1> QED BY <1>6, <1>7, <1>8, <1>10, <1>11, <1>12, <1>13 DEF CacheInv

\* What a response finds: it answers the oldest word on the bus, which is the next word
\* of the line.
LEMMA ResponseFinds ==
    ASSUME NEW CONSTANT k, Cache(k)!CacheAssumption, CacheInv(k), bus # <<>>
    PROVE  \E s, r \in 0 .. Cache(k)!LineWords :
             /\ active /\ CacheCounts(k, s, r) /\ r < s /\ respCounter = r
             /\ r + 1 \in 0 .. Cache(k)!LineWords /\ CountOf(k, r + 1) \in 0 .. Cache(k)!LineWords - 1
             /\ Cache(k)!Wrap(respCounter) = CountOf(k, r + 1)
             /\ Head(bus)[1] = line /\ Head(bus)[2] = r
             /\ Tail(bus) \in Seq(Cache(k)!Lines \X Nat) /\ OnTheWay(Tail(bus), line, s, r + 1)
<1>1. active
  BY DEF CacheInv, CacheRequests
<1>2. PICK s \in 0 .. Cache(k)!LineWords, r \in 0 .. Cache(k)!LineWords : CacheCounts(k, s, r)
  BY <1>1 DEF CacheInv, CacheRequests
<1>3. PICK m \in Nat \ {0} : m = Cache(k)!LineWords
  BY LineWordsKind
<1>4. PICK b \in Seq(Cache(k)!Lines \X Nat) : b = bus
  BY DEF CacheInv, RefillerKinds
<1>5. PICK n \in Nat : n = s - r
  BY <1>2, <1>3 DEF CacheCounts
<1>6. PICK l : l = line
  OBVIOUS
<1>7. b # <<>> /\ Len(b) = n /\ \A i \in 1 .. n : b[i] = <<l, r + i - 1>>
  BY <1>2, <1>4, <1>5, <1>6 DEF CacheCounts, OnTheWay
<1>8. n >= 1
  BY <1>7, EmptySeq
<1>9. r < s /\ r < m /\ respCounter = r
  <2>1. r < s /\ r < m /\ s \in Nat /\ r \in Nat
    BY <1>3, <1>5, <1>8
  <2>2. respCounter = CountOf(k, r)
    BY <1>2 DEF CacheCounts
  <2> QED BY <1>3, <2>1, <2>2, CounterKind
<1>10. Head(b) = <<l, r>>
  <2>1. b[1] = <<l, r + 1 - 1>> /\ r + 1 - 1 = r
    BY <1>7, <1>8
  <2>2. Head(b) = b[1]
    BY <1>7
  <2> QED BY <2>1, <2>2
<1>11. /\ Tail(b) \in Seq(Cache(k)!Lines \X Nat)
       /\ Len(Tail(b)) = n - 1 /\ \A i \in 1 .. n - 1 : Tail(b)[i] = <<l, r + 1 + i - 1>>
  <2>1. PICK c \in Seq(Cache(k)!Lines \X Nat) : c = Tail(b)
    BY <1>7, HeadTailProperties
  <2>2. Len(c) = Len(b) - 1 /\ \A i \in 1 .. Len(c) : c[i] = b[i + 1]
    BY <1>7, <2>1, HeadTailProperties
  <2>3. Len(c) = n - 1
    BY <1>7, <2>2
  <2>4. ASSUME NEW i \in 1 .. n - 1 PROVE c[i] = <<l, r + 1 + i - 1>>
    <3>1. i + 1 \in 1 .. n /\ r + (i + 1) - 1 = r + 1 + i - 1
      BY <1>5
    <3>2. c[i] = b[i + 1] /\ b[i + 1] = <<l, r + (i + 1) - 1>>
      BY <1>7, <2>2, <2>3, <3>1
    <3> QED BY <3>1, <3>2
  <2> QED BY <2>1, <2>3, <2>4
<1>12. OnTheWay(Tail(b), l, s, r + 1)
  <2>1. s - (r + 1) = n - 1
    BY <1>5
  <2> QED BY <1>11, <2>1 DEF OnTheWay
<1>13. /\ r + 1 \in 0 .. Cache(k)!LineWords /\ CountOf(k, r + 1) \in 0 .. Cache(k)!LineWords - 1
       /\ Cache(k)!Wrap(respCounter) = CountOf(k, r + 1)
  BY <1>3, <1>9, CounterKind
<1>14. /\ Head(bus)[1] = line /\ Head(bus)[2] = r
       /\ Tail(bus) \in Seq(Cache(k)!Lines \X Nat) /\ OnTheWay(Tail(bus), line, s, r + 1)
  BY <1>4, <1>6, <1>10, <1>11, <1>12
<1> QED BY <1>1, <1>2, <1>9, <1>13, <1>14

LEMMA ResponseWordStep ==
    ASSUME NEW CONSTANT k, Cache(k)!CacheAssumption, CacheInv(k), NEW err \in BOOLEAN,
           Cache(k)!ResponseWord(err)
    PROVE  CacheInv(k)'
<1>w. PICK w : w = Cache(k)!Word(Head(bus)[1], Head(bus)[2], version[Head(bus)[1]])
  OBVIOUS
<1>1. /\ bus # <<>> /\ bus' = Tail(bus)
      /\ (~flushing /\ Cache(k)!EndsBlock(err)) => blockFwd = <<>>
      /\ buffer' = NextWords(k, Append(buffer, w))
      /\ blockFwd' = IF ~flushing /\ Cache(k)!EndsBlock(err)
                     THEN <<[line |-> line, block |-> respCounter \div k.blockWords,
                             words |-> Append(buffer, w), error |-> err,
                             last |-> Cache(k)!LastWord \/ err]>>
                     ELSE blockFwd
      /\ active' = IF ~flushing /\ Cache(k)!LastWord THEN FALSE ELSE active
      /\ sending' = IF Cache(k)!ResponseStops(err) THEN FALSE ELSE sending
      /\ flushing' = (flushing \/ Cache(k)!ResponseStops(err))
      /\ respCounter' = Cache(k)!Wrap(respCounter)
      /\ UNCHANGED <<Cache(k)!cache, line, reqCounter, version, since>>
  BY <1>w, Zenon DEF Cache!ResponseWord, Cache!NextBuffer, Cache!Block, NextWords
<1>2. PICK s \in 0 .. Cache(k)!LineWords, r \in 0 .. Cache(k)!LineWords :
        /\ active /\ CacheCounts(k, s, r) /\ r < s /\ respCounter = r
        /\ r + 1 \in 0 .. Cache(k)!LineWords /\ CountOf(k, r + 1) \in 0 .. Cache(k)!LineWords - 1
        /\ Cache(k)!Wrap(respCounter) = CountOf(k, r + 1)
        /\ Head(bus)[1] = line /\ Head(bus)[2] = r
        /\ Tail(bus) \in Seq(Cache(k)!Lines \X Nat) /\ OnTheWay(Tail(bus), line, s, r + 1)
  BY <1>1, ResponseFinds
<1>3. PICK m \in Nat \ {0} : m = Cache(k)!LineWords
  BY LineWordsKind
<1>b. PICK B \in Nat \ {0} : B = k.blockWords
  BY LineWordsKind
<1>4. /\ r < m /\ r \in Nat /\ s \in Nat /\ s <= m
      /\ Cache(k)!LastWord <=> r + 1 = m
      /\ ~Cache(k)!LastWord => respCounter' = r + 1
  <2>1. r < m /\ r \in Nat /\ s \in Nat /\ s <= m
    BY <1>2, <1>3
  <2>2. Cache(k)!LastWord <=> r = m - 1
    BY <1>2, <1>3 DEF Cache!LastWord
  <2>3. r = m - 1 <=> r + 1 = m
    BY <1>3, <2>1
  <2>4. r + 1 # m => CountOf(k, r + 1) = r + 1
    BY <1>3 DEF CountOf
  <2> QED BY <1>1, <1>2, <2>1, <2>2, <2>3, <2>4
<1>5. w \in CacheWords(k) /\ RightWord(w, line, r, since)
  <2>1. w = <<line, r, version[line]>>
    BY <1>2, <1>w DEF Cache!Word
  <2>2. /\ line \in Cache(k)!Lines /\ version[line] \in {0, 1} /\ version[line] \in since[line]
    BY DEF CacheInv, RefillerKinds, HistoryKinds
  <2> QED BY <1>4, <2>1, <2>2 DEF CacheWords, RightWord
<1>6. /\ buffer \in Seq(CacheWords(k)) /\ Len(buffer) < B
      /\ Append(buffer, w) \in Seq(CacheWords(k)) /\ buffer' \in Seq(CacheWords(k))
      /\ Len(buffer') < B
  <2>1. buffer \in Seq(CacheWords(k)) /\ Len(buffer) < B
    BY <1>b DEF CacheInv, RefillerKinds
  <2>2. PICK f \in Seq(CacheWords(k)) : f = buffer
    BY <2>1
  <2>3. /\ Append(f, w) \in Seq(CacheWords(k)) /\ NextWords(k, Append(f, w)) \in Seq(CacheWords(k))
        /\ Len(NextWords(k, Append(f, w))) < B
    BY <1>5, <1>b, <2>1, <2>2, NextWordsKind
  <2> QED BY <1>1, <2>1, <2>2, <2>3
<1>7. /\ r \div B \in 0 .. k.blocks - 1
      /\ r + 1 = m => (r + 1) % B = 0 /\ r \div B = k.blocks - 1
      /\ IF (r + 1) % B = 0 THEN (r + 1) \div B = (r \div B) + 1 ELSE (r + 1) \div B = r \div B
  <2>1. PICK L \in Nat \ {0} : L = k.blocks
    BY LineWordsKind
  <2>2. m = L * B
    BY <1>3, <1>b, <2>1, LineWordsKind
  <2>3. r \in 0 .. L * B - 1 /\ (r + 1 = m => r = L * B - 1)
    BY <1>3, <1>4, <2>2
  <2>4. r \div B \in 0 .. L - 1 /\ (r = L * B - 1 => (r + 1) % B = 0 /\ r \div B = L - 1)
    BY <2>3, LastWordOfLine
  <2> QED BY <1>4, <2>1, <2>3, <2>4, NextWord
<1>8. ~flushing => /\ fsm = "REFILL" /\ Gathered(k, buffer', line, r + 1, since)
                   /\ (r + 1) % B = 0 => RightWords(k, Append(buffer, w), line, r \div B, since)
  <2> SUFFICES ASSUME ~flushing
               PROVE  /\ fsm = "REFILL" /\ Gathered(k, buffer', line, r + 1, since)
                      /\ (r + 1) % B = 0 => RightWords(k, Append(buffer, w), line, r \div B, since)
    OBVIOUS
  <2>1. fsm = "REFILL" /\ Gathered(k, buffer, line, r, since)
    BY <1>2 DEF CacheInv, CacheAsked, CacheGathered
  <2>2. PICK f, l, v : f = buffer /\ l = line /\ v = since
    OBVIOUS
  <2>3. /\ Gathered(k, NextWords(k, Append(f, w)), l, r + 1, v)
        /\ (r + 1) % k.blockWords = 0 => RightWords(k, Append(f, w), l, r \div k.blockWords, v)
    BY <1>4, <1>5, <1>6, <1>b, <2>1, <2>2, WordGathered
  <2> QED BY <1>1, <1>b, <2>1, <2>2, <2>3
<1>9. /\ Cache(k)!EndsBlock(err) <=> (r + 1) % B = 0 \/ err
      /\ Cache(k)!ResponseStops(err) <=> ~flushing /\ r + 1 # m /\ err
  BY <1>2, <1>4, <1>b DEF Cache!EndsBlock, Cache!ResponseStops
<1>10. /\ fsm' = fsm /\ readAddr' = readAddr /\ waySelector' = waySelector /\ data' = data
       /\ outputValid' = outputValid /\ errorSaved' = errorSaved /\ args' = args
       /\ results' = results
  BY <1>1 DEF Cache!cache
<1>11. /\ LookupKinds(k)' /\ MemoryKinds(k)' /\ HistoryKinds(k)' /\ LineAbsent(k)'
       /\ SetsFlushed(k)' /\ EntriesRight(k)' /\ Cache(k)!NoDoubleHit' /\ Cache(k)!RightBlock'
  BY <1>1, LookupStays
<1>12. PICK ret : ret = [line |-> line, block |-> r \div B, words |-> Append(buffer, w),
                         error |-> err, last |-> Cache(k)!LastWord \/ err]
  OBVIOUS
<1>13. /\ ret.line = line /\ ret.block = r \div B /\ ret.words = Append(buffer, w)
       /\ ret.error = err /\ (ret.last <=> r + 1 = m \/ err)
       /\ blockFwd' = IF ~flushing /\ Cache(k)!EndsBlock(err) THEN <<ret>> ELSE blockFwd
  <2>1. /\ ret.line = line /\ ret.block = r \div B /\ ret.words = Append(buffer, w)
        /\ ret.error = err /\ ret.last = (Cache(k)!LastWord \/ err)
    BY <1>12, Zenon
  <2>2. blockFwd' = IF ~flushing /\ Cache(k)!EndsBlock(err) THEN <<ret>> ELSE blockFwd
    BY <1>1, <1>2, <1>12, <1>b, Zenon
  <2> QED BY <1>4, <2>1, <2>2, Zenon
<1>14. RefillerKinds(k)'
  <2>1. line \in Cache(k)!Lines /\ blockFwd \in AtMostOne(CacheForwards(k))
    BY DEF CacheInv, RefillerKinds
  <2>2. ret \in CacheForwards(k)
    <3>1. (Cache(k)!LastWord \/ err) \in BOOLEAN
      OBVIOUS
    <3> QED BY <1>6, <1>7, <1>12, <2>1, <3>1, Zenon DEF CacheForwards
  <2>3. blockFwd' \in AtMostOne(CacheForwards(k))
    BY <1>13, <2>1, <2>2, Zenon DEF AtMostOne
  <2>4. active' \in BOOLEAN /\ flushing' \in BOOLEAN /\ sending' \in BOOLEAN
    BY <1>1, <1>2 DEF CacheInv, RefillerKinds
  <2> QED BY <1>1, <1>2, <1>6, <1>b, <2>1, <2>3, <2>4 DEF CacheInv, RefillerKinds
<1>15. CASE flushing
  <2>1. blockFwd' = blockFwd /\ active' = active /\ sending' = sending /\ flushing'
    BY <1>1, <1>13, <1>15, Zenon DEF Cache!ResponseStops
  <2>2. CacheAsked(k)'
    BY <1>1, <1>10, <1>15, <2>1 DEF CacheInv, CacheAsked
  <2>3. CacheRequests(k)'
    <3>1. ~sending /\ reqCounter = CountOf(k, s)
      BY <1>2, <1>15 DEF CacheCounts
    <3>2. r + 1 <= s /\ r + 1 >= 1
      BY <1>2, <1>4
    <3>3. CacheCounts(k, s, r + 1)'
      BY <1>1, <1>2, <2>1, <3>1, <3>2 DEF CacheCounts
    <3> QED BY <1>2, <2>1, <3>3 DEF CacheRequests
  <2>4. CacheGathered(k)' /\ CacheRefilled(k)'
    BY <1>1, <1>10, <1>15, <2>1 DEF CacheInv, CacheGathered, CacheRefilled, Stored
  <2>5. CacheForwarded(k)'
    BY <1>1, <1>15, <2>1 DEF CacheInv, CacheForwarded, ForwardRight
  <2> QED BY <1>11, <1>14, <2>2, <2>3, <2>4, <2>5 DEF CacheInv
<1>16. CASE ~flushing
  <2>1. /\ active' = IF r + 1 = m THEN FALSE ELSE active
        /\ sending' = IF r + 1 # m /\ err THEN FALSE ELSE sending
        /\ flushing' <=> r + 1 # m /\ err
    BY <1>1, <1>4, <1>9, <1>16, Zenon
  <2>2. blockFwd' # <<>> => fsm = "REFILL"
    BY <1>8, <1>16
  <2>3. CacheAsked(k)'
    BY <1>1, <1>2, <1>8, <1>10, <1>16 DEF CacheInv, CacheAsked
  <2>4. CacheRequests(k)'
    <3>1. CASE r + 1 = m
      <4>1. s = m /\ ~sending
        BY <1>2, <1>3, <1>4, <3>1 DEF CacheCounts
      <4>2. Len(bus') = 0
        <5>1. Len(bus') = s - (r + 1)
          BY <1>1, <1>2, Zenon DEF OnTheWay
        <5> QED BY <1>3, <1>4, <3>1, <4>1, <5>1
      <4>3. bus' = <<>>
        BY <1>1, <1>2, <4>2, EmptySeq
      <4> QED BY <2>1, <3>1, <4>1, <4>3 DEF CacheRequests
    <3>2. CASE r + 1 # m
      <4>1. r + 1 <= s /\ r + 1 >= 1 /\ r + 1 < m
        BY <1>2, <1>4, <3>2
      <4>2. reqCounter = CountOf(k, s) /\ (sending => s < Cache(k)!LineWords)
        BY <1>2 DEF CacheCounts
      <4>3. sending' => s < Cache(k)!LineWords
        BY <2>1, <4>2
      <4>4. IF flushing' THEN r + 1 >= 1 /\ ~sending' ELSE r + 1 < Cache(k)!LineWords
        BY <1>3, <2>1, <4>1
      <4>5. CacheCounts(k, s, r + 1)'
        BY <1>1, <1>2, <4>1, <4>2, <4>3, <4>4 DEF CacheCounts
      <4>6. active'
        BY <1>2, <2>1, <3>2
      <4> QED BY <1>2, <4>5, <4>6 DEF CacheRequests
    <3> QED BY <3>1, <3>2
  <2>5. CacheGathered(k)'
    BY <1>1, <1>4, <1>8, <1>16, <2>1 DEF CacheGathered
  <2>6. CASE Cache(k)!EndsBlock(err)
    <3>1. blockFwd = <<>> /\ blockFwd' = <<ret>>
      BY <1>1, <1>13, <1>16, <2>6, Zenon
    <3>2. blockFwd' # <<>> /\ blockFwd'[1] = ret
      BY <3>1
    <3>3. CacheRefilled(k)'
      <4>1. ASSUME NEW b \in 0 .. k.blocks - 1, Stored(k, b)' PROVE Stored(k, b)
        BY <1>2, <1>13, <1>16, <1>b, <3>1, <3>2, <4>1 DEF Stored
      <4> QED BY <1>1, <1>10, <4>1 DEF CacheInv, CacheRefilled
    <3>4. CacheForwarded(k)'
      <4>1. ret.last => ~active' \/ flushing'
        BY <1>13, <2>1
      <4>2. ~ret.last => /\ active' /\ ~flushing' /\ ~ret.error
                         /\ ret.block + 1 = respCounter' \div k.blockWords
        BY <1>2, <1>4, <1>7, <1>9, <1>13, <1>b, <2>1, <2>6
      <4>3. ~ret.error => RightWords(k, ret.words, line, ret.block, since)
        BY <1>8, <1>9, <1>13, <1>16, <2>6
      <4>4. ret.last /\ ~ret.error => ret.block = k.blocks - 1
        BY <1>7, <1>13
      <4>5. line' = line /\ since' = since
        BY <1>1
      <4> QED BY <1>13, <3>2, <4>1, <4>2, <4>3, <4>4, <4>5, Zenon DEF CacheForwarded, ForwardRight
    <3> QED BY <1>11, <1>14, <2>3, <2>4, <2>5, <3>3, <3>4 DEF CacheInv
  <2>7. CASE ~Cache(k)!EndsBlock(err)
    <3>1. /\ blockFwd' = blockFwd /\ (r + 1) % B # 0 /\ ~err /\ r + 1 # m
          /\ (r + 1) \div B = r \div B
      BY <1>7, <1>9, <1>13, <2>7
    <3>2. active' = active /\ ~flushing' /\ respCounter' = r + 1
      BY <1>4, <2>1, <3>1
    <3>3. CacheRefilled(k)'
      <4>1. ASSUME NEW b \in 0 .. k.blocks - 1, Stored(k, b)' PROVE Stored(k, b)
        BY <1>2, <1>16, <1>b, <3>1, <3>2, <4>1 DEF Stored
      <4> QED BY <1>1, <1>10, <4>1 DEF CacheInv, CacheRefilled
    <3>4. CacheForwarded(k)'
      <4> SUFFICES ASSUME blockFwd # <<>> PROVE ForwardRight(k, blockFwd[1])'
        BY <3>1 DEF CacheForwarded
      <4>1. PICK f : f = blockFwd[1]
        OBVIOUS
      <4>2. ForwardRight(k, f)
        BY <4>1 DEF CacheInv, CacheForwarded
      <4>3. f.block + 1 = r \div B /\ ~f.last /\ ~f.error
        BY <1>2, <1>16, <1>b, <4>2 DEF ForwardRight
      <4>4. f.block + 1 = respCounter' \div k.blockWords
        BY <1>b, <3>1, <3>2, <4>3
      <4>5. blockFwd'[1] = f /\ line' = line /\ since' = since
        BY <1>1, <3>1, <4>1
      <4> QED BY <1>2, <3>2, <4>2, <4>3, <4>4, <4>5, Zenon DEF ForwardRight
    <3> QED BY <1>11, <1>14, <2>3, <2>4, <2>5, <3>3, <3>4 DEF CacheInv
  <2> QED BY <2>6, <2>7
<1> QED BY <1>15, <1>16

\* The block a refill hands over is stored in the way that is refilled.
LEMMA AcceptRefillStep ==
    ASSUME NEW CONSTANT k, Cache(k)!CacheAssumption, CacheInv(k), Cache(k)!AcceptRefill
    PROVE  CacheInv(k)'
<1>r. PICK ret : ret = Head(blockFwd)
  OBVIOUS
<1>1. /\ blockFwd # <<>> /\ blockFwd' = <<>>
      /\ data' = [data EXCEPT ![ret.line[2]][waySelector][ret.block] = ret.words]
      /\ tags' = IF ret.last
                 THEN [tags EXCEPT ![readAddr.index][waySelector] = Cache(k)!TagWritten(ret.error)]
                 ELSE tags
      /\ fsm' = IF fsm = "REFILL" /\ ret.last THEN "LOOKUP" ELSE fsm
      /\ waySelector' = IF ret.last THEN (waySelector + 1) % k.ways ELSE waySelector
      /\ errorSaved' = (errorSaved \/ ret.error)
      /\ UNCHANGED <<flushIndex, readAddr, outputValid, args, results, line, active, flushing,
                     sending, reqCounter, respCounter, buffer, bus, version, since>>
  BY <1>r, Zenon DEF Cache!AcceptRefill, Cache!SavesError
<1>2. /\ fsm = "REFILL" /\ outputValid /\ results = <<>>
      /\ line = <<readAddr.tag, readAddr.index>>
  BY <1>1 DEF CacheInv, CacheAsked, Cache!LineOf
<1>3. ret \in CacheForwards(k) /\ blockFwd[1] = ret
  <2>1. blockFwd \in AtMostOne(CacheForwards(k))
    BY DEF CacheInv, RefillerKinds
  <2>2. PICK t \in CacheForwards(k) : blockFwd = <<t>>
    BY <1>1, <2>1 DEF AtMostOne
  <2> QED BY <1>r, <2>2
<1>4. /\ ret.line \in Cache(k)!Lines /\ ret.block \in 0 .. k.blocks - 1
      /\ ret.words \in Seq(CacheWords(k)) /\ ret.error \in BOOLEAN /\ ret.last \in BOOLEAN
  BY <1>3 DEF CacheForwards
<1>5. ForwardRight(k, ret)
  BY <1>1, <1>3 DEF CacheInv, CacheForwarded
<1>6. ret.line[2] = readAddr.index
  BY <1>2, <1>5 DEF ForwardRight
<1>i. PICK i0 \in 0 .. k.sets - 1 : i0 = readAddr.index
  BY DEF CacheInv, LookupKinds, Cache!Addrs
<1>w. PICK w0 \in 0 .. k.ways - 1 : w0 = waySelector
  BY DEF CacheInv, MemoryKinds
<1>7. /\ tags \in [0 .. k.sets - 1 -> [0 .. k.ways - 1 -> [valid : BOOLEAN, tag : 0 .. k.tags - 1]]]
      /\ data \in [0 .. k.sets - 1 -> [0 .. k.ways - 1 -> [0 .. k.blocks - 1 -> Seq(CacheWords(k))]]]
  BY DEF CacheInv, MemoryKinds
<1>8. data' = [data EXCEPT ![i0][w0][ret.block] = ret.words]
  BY <1>1, <1>6, <1>i, <1>w
<1>9. /\ \A i \in 0 .. k.sets - 1 : \A w \in 0 .. k.ways - 1 :
           i # i0 \/ w # w0 => data'[i][w] = data[i][w]
      /\ \A b \in 0 .. k.blocks - 1 :
           data'[i0][w0][b] = IF b = ret.block THEN ret.words ELSE data[i0][w0][b]
      /\ data' \in [0 .. k.sets - 1 -> [0 .. k.ways - 1 -> [0 .. k.blocks - 1 -> Seq(CacheWords(k))]]]
  <2>1. data[i0] \in [0 .. k.ways - 1 -> [0 .. k.blocks - 1 -> Seq(CacheWords(k))]]
    BY <1>7
  <2>2. data[i0][w0] \in [0 .. k.blocks - 1 -> Seq(CacheWords(k))]
    BY <2>1
  <2>3. PICK c : c = [data[i0][w0] EXCEPT ![ret.block] = ret.words]
    OBVIOUS
  <2>4. /\ c \in [0 .. k.blocks - 1 -> Seq(CacheWords(k))]
        /\ \A b \in 0 .. k.blocks - 1 : c[b] = IF b = ret.block THEN ret.words ELSE data[i0][w0][b]
    BY <1>4, <2>2, <2>3
  <2>5. PICK d : d = [data[i0] EXCEPT ![w0] = c]
    OBVIOUS
  <2>6. /\ d \in [0 .. k.ways - 1 -> [0 .. k.blocks - 1 -> Seq(CacheWords(k))]]
        /\ d[w0] = c /\ \A w \in 0 .. k.ways - 1 : w # w0 => d[w] = data[i0][w]
    BY <2>1, <2>4, <2>5
  <2>7. data' = [data EXCEPT ![i0] = d]
    BY <1>8, <2>3, <2>5, Zenon
  <2>8. /\ data' \in [0 .. k.sets - 1 -> [0 .. k.ways - 1 -> [0 .. k.blocks - 1 -> Seq(CacheWords(k))]]]
        /\ data'[i0] = d /\ \A i \in 0 .. k.sets - 1 : i # i0 => data'[i] = data[i]
    BY <1>7, <2>6, <2>7
  <2>9. ASSUME NEW i \in 0 .. k.sets - 1, NEW w \in 0 .. k.ways - 1, i # i0 \/ w # w0
        PROVE  data'[i][w] = data[i][w]
    <3>1. CASE i # i0
      BY <2>8, <3>1
    <3>2. CASE i = i0
      BY <2>6, <2>8, <2>9, <3>2
    <3> QED BY <3>1, <3>2
  <2> QED BY <2>4, <2>6, <2>8, <2>9
<1>10. ASSUME NEW b \in 0 .. k.blocks - 1, ~ret.error, b <= ret.block
       PROVE  RightWords(k, data'[i0][w0][b], line, b, since)
  <2>1. CASE b = ret.block
    BY <1>5, <1>9, <1>10, <2>1 DEF ForwardRight
  <2>2. CASE b # ret.block
    <3>1. b < ret.block
      BY <1>4, <1>10, <2>2
    <3>2. Stored(k, b)
      BY <1>1, <1>3, <1>10, <3>1 DEF Stored
    <3>3. line[2] = i0
      BY <1>2, <1>i
    <3>4. RightWords(k, data[i0][w0][b], line, b, since)
      BY <1>2, <1>w, <3>2, <3>3 DEF CacheInv, CacheRefilled
    <3> QED BY <1>9, <2>2, <3>4
  <2> QED BY <2>1, <2>2
<1>11. fsm' = (IF ret.last THEN "LOOKUP" ELSE "REFILL") /\ (errorSaved' => outputValid')
  BY <1>1, <1>2, Zenon
<1>12. LookupKinds(k)' /\ RefillerKinds(k)' /\ HistoryKinds(k)'
  <2>1. fsm' \in {"FLUSH", "LOOKUP", "REFILL"} /\ errorSaved' \in BOOLEAN
    BY <1>1, <1>4, <1>11 DEF CacheInv, LookupKinds
  <2>2. blockFwd' \in AtMostOne(CacheForwards(k))
    BY <1>1, Zenon DEF AtMostOne
  <2> QED BY <1>1, <2>1, <2>2 DEF CacheInv, LookupKinds, RefillerKinds, HistoryKinds
<1>13. CacheAsked(k)'
  BY <1>1, <1>2, <1>5, <1>11 DEF CacheInv, CacheAsked, ForwardRight
<1>14. CacheRequests(k)' /\ CacheGathered(k)'
  BY <1>1 DEF CacheInv, CacheRequests, CacheCounts, CacheGathered
<1>15. CacheForwarded(k)' /\ SetsFlushed(k)' /\ Cache(k)!RightBlock'
  BY <1>1, <1>2, <1>11 DEF CacheForwarded, SetsFlushed, Cache!RightBlock
<1>16. waySelector' \in 0 .. k.ways - 1
  <2>1. PICK n \in Nat \ {0} : n = k.ways
    BY CacheRanges
  <2>2. (w0 + 1) % n \in 0 .. n - 1
    BY <2>1
  <2> QED BY <1>1, <1>w, <2>1, <2>2
<1>17. CASE ~ret.last
  <2>1. /\ ~ret.error /\ active /\ ~flushing /\ ret.block + 1 = respCounter \div k.blockWords
    BY <1>5, <1>17 DEF ForwardRight
  <2>2. tags' = tags /\ waySelector' = w0 /\ fsm' = "REFILL" /\ readAddr' = readAddr
    BY <1>1, <1>11, <1>17, <1>w
  <2>3. MemoryKinds(k)'
    BY <1>7, <1>9, <1>16, <2>2 DEF MemoryKinds
  <2>4. CacheRefilled(k)'
    <3>1. ASSUME NEW b \in 0 .. k.blocks - 1, Stored(k, b)'
          PROVE  b <= ret.block
      <4>1. b < respCounter \div k.blockWords
        BY <1>1, <3>1 DEF Stored
      <4> QED BY <1>4, <2>1, <4>1
    <3>2. line'[2] = i0
      BY <1>1, <1>2, <1>i
    <3> QED BY <1>1, <1>10, <2>1, <2>2, <3>1, <3>2 DEF CacheRefilled
  <2>5. LineAbsent(k)' /\ Cache(k)!NoDoubleHit'
    BY <1>2, <2>2 DEF CacheInv, LineAbsent, Cache!NoDoubleHit
  <2>6. EntriesRight(k)'
    BY <1>1, <1>2, <1>9, <1>i, <1>w, <2>2 DEF CacheInv, EntriesRight, Overwritten
  <2> QED BY <1>12, <1>13, <1>14, <1>15, <2>3, <2>4, <2>5, <2>6 DEF CacheInv
<1>18. CASE ret.last
  <2>1. PICK g \in [valid : BOOLEAN, tag : 0 .. k.tags - 1] :
          g = Cache(k)!TagWritten(ret.error) /\ (g.valid <=> ~ret.error) /\ g.tag = readAddr.tag
    <3>1. readAddr.tag \in 0 .. k.tags - 1
      BY DEF CacheInv, LookupKinds, Cache!Addrs
    <3>2. PICK g : g = [valid |-> ~ret.error, tag |-> readAddr.tag]
      OBVIOUS
    <3>3. (~ret.error) \in BOOLEAN
      OBVIOUS
    <3>4. g \in [valid : BOOLEAN, tag : 0 .. k.tags - 1]
      BY <3>1, <3>2, <3>3, Zenon
    <3>5. g.valid = (~ret.error) /\ g.tag = readAddr.tag
      BY <3>2, Zenon
    <3>6. g.valid <=> ~ret.error
      BY <3>5, Zenon
    <3>7. g = Cache(k)!TagWritten(ret.error)
      BY <3>2, Zenon DEF Cache!TagWritten
    <3> QED BY <3>4, <3>5, <3>6, <3>7
  <2>2. tags' = [tags EXCEPT ![i0][w0] = g]
    BY <1>1, <1>18, <1>i, <1>w, <2>1
  <2>3. /\ tags' \in [0 .. k.sets - 1 -> [0 .. k.ways - 1 -> [valid : BOOLEAN, tag : 0 .. k.tags - 1]]]
        /\ \A i \in 0 .. k.sets - 1 : \A w \in 0 .. k.ways - 1 :
             tags'[i][w] = IF i = i0 /\ w = w0 THEN g ELSE tags[i][w]
    BY <1>7, <2>2
  <2>4. MemoryKinds(k)'
    BY <1>9, <1>16, <2>3 DEF MemoryKinds
  <2>5. fsm' = "LOOKUP"
    BY <1>11, <1>18
  <2>6. CacheRefilled(k)' /\ LineAbsent(k)'
    BY <2>5 DEF CacheRefilled, LineAbsent
  <2>7. \A w \in 0 .. k.ways - 1 : tags[i0][w].valid => tags[i0][w].tag # g.tag
    BY <1>2, <1>i, <2>1 DEF CacheInv, LineAbsent
  <2>8. Cache(k)!NoDoubleHit'
    <3> SUFFICES ASSUME NEW i \in 0 .. k.sets - 1, NEW v \in 0 .. k.ways - 1,
                        NEW w \in 0 .. k.ways - 1, v # w, tags'[i][v].valid, tags'[i][w].valid
                 PROVE  tags'[i][v].tag # tags'[i][w].tag
      BY DEF Cache!NoDoubleHit
    <3>1. CASE i = i0 /\ v = w0
      BY <2>3, <2>7, <3>1
    <3>2. CASE i = i0 /\ w = w0
      BY <2>3, <2>7, <3>2
    <3>3. CASE ~(i = i0 /\ v = w0) /\ ~(i = i0 /\ w = w0)
      BY <2>3, <3>3 DEF CacheInv, Cache!NoDoubleHit
    <3> QED BY <3>1, <3>2, <3>3
  <2>9. EntriesRight(k)'
    <3> SUFFICES ASSUME NEW i \in 0 .. k.sets - 1, NEW w \in 0 .. k.ways - 1, tags'[i][w].valid
                 PROVE  EntryRight(k, data'[i][w], <<tags'[i][w].tag, i>>, since)
      BY <1>1 DEF EntriesRight
    <3>1. CASE i = i0 /\ w = w0
      <4>1. ~ret.error /\ <<tags'[i][w].tag, i>> = line
        BY <1>2, <1>i, <2>1, <2>3, <3>1
      <4>2. ret.block = k.blocks - 1
        BY <1>5, <1>18, <4>1 DEF ForwardRight
      <4>3. ASSUME NEW b \in 0 .. k.blocks - 1 PROVE b <= ret.block
        BY <4>2
      <4> QED BY <1>10, <3>1, <4>1, <4>3 DEF EntryRight
    <3>2. CASE ~(i = i0 /\ w = w0)
      <4>1. tags'[i][w] = tags[i][w] /\ data'[i][w] = data[i][w]
        BY <1>9, <2>3, <3>2
      <4>2. ~Overwritten(i, w)
        BY <1>i, <1>w, <3>2 DEF Overwritten
      <4> QED BY <1>2, <4>1, <4>2 DEF CacheInv, EntriesRight
    <3> QED BY <3>1, <3>2
  <2> QED BY <1>12, <1>13, <1>14, <1>15, <2>4, <2>6, <2>8, <2>9 DEF CacheInv
<1> QED BY <1>17, <1>18

LEMMA CacheStep ==
    ASSUME NEW CONSTANT k, Cache(k)!CacheAssumption, CacheInv(k),
           [Cache(k)!Next]_(Cache(k)!vars)
    PROVE  CacheInv(k)'
<1>1. CASE UNCHANGED Cache(k)!vars
  BY <1>1, CacheStutters
<1>2. CASE Cache(k)!Next
  <2>1. CASE \E a \in Cache(k)!Addrs : Cache(k)!IssueReq(a)
    BY <2>1, IssueReqStep
  <2>2. CASE Cache(k)!MemReadHit
    BY <2>2, MemReadHitStep
  <2>3. CASE Cache(k)!MemReadMiss
    BY <2>3, MemReadMissStep
  <2>4. CASE Cache(k)!AcceptRes
    BY <2>4, AcceptResStep
  <2>5. CASE Cache(k)!Flush
    BY <2>5, FlushStep
  <2>6. CASE Cache(k)!FlushCycle
    BY <2>6, FlushCycleStep
  <2>7. CASE Cache(k)!SendRequest
    BY <2>7, SendRequestStep
  <2>8. CASE \E err \in BOOLEAN : Cache(k)!ResponseWord(err)
    BY <2>8, ResponseWordStep
  <2>9. CASE Cache(k)!FlushingEnd
    BY <2>9, FlushingEndStep
  <2>10. CASE Cache(k)!AcceptRefill
    BY <2>10, AcceptRefillStep
  <2>11. CASE \E l \in k.mutable : Cache(k)!WriteMemory(l)
    BY <2>11, WriteMemoryStep
  <2> QED BY <1>2, <2>1, <2>2, <2>3, <2>4, <2>5, <2>6, <2>7, <2>8, <2>9, <2>10, <2>11, Zenon
      DEF Cache!Next
<1> QED BY <1>1, <1>2

LEMMA CacheInvRight ==
    ASSUME NEW CONSTANT k, CacheInv(k)
    PROVE  Cache(k)!RightBlock /\ Cache(k)!NoDoubleHit /\ Cache(k)!BusQuiet
BY DEF CacheInv, CacheRequests, Cache!BusQuiet

\* A result without an error is the block that was asked for, as memory held it at some
\* time since the last flush; no line is in two ways, and no answer is on the bus when a
\* refill ends: whatever the size of the cache, the length of its lines, the errors of the
\* bus and the lines software writes (icache.py, refiller.py).
THEOREM CacheHolds ==
    ASSUME NEW CONSTANT k, Cache(k)!CacheAssumption
    PROVE  Cache(k)!Spec => [](Cache(k)!RightBlock /\ Cache(k)!NoDoubleHit /\ Cache(k)!BusQuiet)
<1>1. Cache(k)!Init => CacheInv(k)
  BY CacheInit
<1>2. CacheInv(k) /\ [Cache(k)!Next]_(Cache(k)!vars) => CacheInv(k)'
  BY CacheStep
<1>3. CacheInv(k) => Cache(k)!RightBlock /\ Cache(k)!NoDoubleHit /\ Cache(k)!BusQuiet
  BY CacheInvRight
<1> QED BY <1>1, <1>2, <1>3, PTL DEF Cache!Spec

\* The run's statement about the cache: lines of several blocks, several ways, and lines
\* that software writes between flushes.
THEOREM CachedBlockHolds == Spec => []CachedBlockRight
<1> DEFINE I == /\ part = "CacheLines" => CacheInv(CacheLines)
                /\ part = "CacheWays" => CacheInv(CacheWays)
                /\ part = "CacheFlush" => CacheInv(CacheFlush)
<1>1. /\ Cache(CacheLines)!CacheAssumption /\ Cache(CacheWays)!CacheAssumption
      /\ Cache(CacheFlush)!CacheAssumption
  BY InstancesAssumption, Zenon DEF InstancesAssumption
<1>2. Init => I
  <2>1. /\ Init /\ part = "CacheLines" => Cache(CacheLines)!Init
        /\ Init /\ part = "CacheWays" => Cache(CacheWays)!Init
        /\ Init /\ part = "CacheFlush" => Cache(CacheFlush)!Init
    BY Zenon DEF Init
  <2> QED BY <1>1, <2>1, CacheInit
<1>3. I /\ [Next]_vars => I'
  <2> SUFFICES ASSUME I, [Next]_vars PROVE I'
    OBVIOUS
  <2>1. /\ part' = part
        /\ part = "CacheLines" => [Cache(CacheLines)!Next]_(Cache(CacheLines)!vars)
        /\ part = "CacheWays" => [Cache(CacheWays)!Next]_(Cache(CacheWays)!vars)
        /\ part = "CacheFlush" => [Cache(CacheFlush)!Next]_(Cache(CacheFlush)!vars)
    BY Zenon DEF Next, vars, InstructionCacheVars, Cache!vars, Cache!cache, Cache!refill
  <2> QED BY <1>1, <2>1, CacheStep
<1>4. I => CachedBlockRight
  BY CacheInvRight DEF CachedBlockRight
<1> QED BY <1>2, <1>3, <1>4, PTL DEF Spec
=============================================================================
