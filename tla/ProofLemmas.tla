-------------------------- MODULE ProofLemmas --------------------------
(***************************************************************************)
(* What several proofs need: induction over the natural numbers, for a set *)
(* that holds the numbers for which a formula is true; and for the pages   *)
(* what becomes of a query, whatever it is about: D is what the server may *)
(* have.                                                                   *)
(***************************************************************************)
EXTENDS QueryClient, WellFoundedInduction, TLAPS

LEMMA SetInduction ==
    ASSUME NEW S, 0 \in S, \A n \in Nat : n \in S => n + 1 \in S
    PROVE  Nat \subseteq S
<1> SUFFICES ASSUME Nat \ S # {} PROVE FALSE
    OBVIOUS
<1> DEFINE T == Nat \ S
           R == OpToRel(<, Nat)
<1>1. IsWellFoundedOn(R, Nat)
    BY NatLessThanWellFounded
<1>2. T \subseteq Nat /\ T # {}
    OBVIOUS
<1>3. \E x \in T : \A y \in T : ~(<<y, x>> \in R)
  <2> HIDE DEF T, R
  <2> QED BY <1>1, <1>2, WFMin
<1>4. PICK x \in T : \A y \in T : ~(<<y, x>> \in R)
    BY <1>3, Zenon
<1>5. x # 0 /\ x \in Nat /\ x - 1 \in Nat
    OBVIOUS
<1>6. x - 1 \in T
    BY <1>5
<1>7. <<x - 1, x>> \in R
    BY <1>5 DEF OpToRel
<1> QED BY <1>4, <1>6, <1>7

-----------------------------------------------------------------------------
Maybe(D) == {<<>>} \union {<<d>> : d \in D}
Query(D) == [data : Maybe(D), fetch : {"idle", "sent", "read"}, answer : Maybe(D), failed : BOOLEAN]

(* An answer is there from when the server has read until it arrives.      *)
Sound(q) == q.fetch = "read" => q.answer # <<>>

LEMMA MaybeThere ==
    ASSUME NEW D, NEW m \in Maybe(D), m # <<>>
    PROVE  m[1] \in D /\ m = <<m[1]>>
BY DEF Maybe

LEMMA DataInD ==
    ASSUME NEW D, NEW q \in Query(D), HasData(q)
    PROVE  DataOf(q) \in D /\ q.data = <<DataOf(q)>>
BY MaybeThere DEF Query, HasData, DataOf

LEMMA MountedQuery ==
    ASSUME NEW D
    PROVE  /\ Mounted \in Query(D) /\ Sound(Mounted)
           /\ Fetching(Mounted) /\ ~HasData(Mounted) /\ ~Mounted.failed /\ Mounted.fetch = "sent"
BY DEF Mounted, Query, Maybe, Sound, Fetching, HasData

(* A poll sends a fetch or joins the one under way.                        *)
LEMMA PolledQuery ==
    ASSUME NEW D, NEW q \in Query(D), Sound(q)
    PROVE  /\ Polled(q) \in Query(D) /\ Sound(Polled(q)) /\ Fetching(Polled(q))
           /\ Polled(q).data = q.data /\ Polled(q).failed = q.failed
           /\ Polled(q).answer = q.answer
           /\ Polled(q).fetch = "read" <=> q.fetch = "read"
BY DEF Polled, Query, Sound, Fetching

(* An invalidation sends one anew, but for the first fetch, that goes on.  *)
LEMMA InvalidatedQuery ==
    ASSUME NEW D, NEW q \in Query(D), Sound(q)
    PROVE  /\ Invalidated(q) \in Query(D) /\ Sound(Invalidated(q)) /\ Fetching(Invalidated(q))
           /\ Invalidated(q).data = q.data /\ Invalidated(q).failed = q.failed
           /\ HasData(q) => Invalidated(q).fetch = "sent"
           /\ ~HasData(q) => /\ Invalidated(q).answer = q.answer
                             /\ Invalidated(q).fetch = "read" <=> q.fetch = "read"
<1>1. CASE HasData(q)
  <2>1. Invalidated(q) = [q EXCEPT !.fetch = "sent", !.answer = <<>>]
      BY <1>1 DEF Invalidated
  <2> DEFINE sent == [q EXCEPT !.fetch = "sent"]
             new == [sent EXCEPT !.answer = <<>>]
  <2>2. /\ sent \in Query(D) /\ sent.fetch = "sent"
        /\ sent.data = q.data /\ sent.failed = q.failed
      BY DEF Query
  <2>3. Invalidated(q) = new
      BY <2>1, Zenon
  <2> HIDE DEF sent
  <2>4. /\ new \in Query(D) /\ new.fetch = "sent" /\ new.answer = <<>>
        /\ new.data = sent.data /\ new.failed = sent.failed
      BY <2>2 DEF Query, Maybe
  <2> QED BY <1>1, <2>2, <2>3, <2>4 DEF Sound, Fetching
<1>2. CASE ~HasData(q)
    BY <1>2, PolledQuery DEF Invalidated
<1> QED BY <1>1, <1>2

(***************************************************************************)
(* What a step of a fetch makes of its query: it has failed, or it has     *)
(* been read, or what has been read has arrived.                           *)
(***************************************************************************)
HasFailed(q, p) == p.fetch = "idle" /\ p.failed /\ p.data = q.data
IsRead(q, p, d) ==
    /\ q.fetch = "sent" /\ p.fetch = "read" /\ p.answer = <<d>>
    /\ p.data = q.data /\ p.failed = q.failed
HasArrived(q, p) == q.fetch = "read" /\ p.fetch = "idle" /\ ~p.failed /\ p.data = q.answer

LEMMA ProgressQuery ==
    ASSUME NEW D, NEW q \in Query(D), Sound(q), NEW d \in D, NEW p \in Progress(q, d)
    PROVE  /\ p \in Query(D) /\ Sound(p) /\ Fetching(q)
           /\ HasFailed(q, p) \/ IsRead(q, p, d) \/ HasArrived(q, p)
<1> DEFINE idle == [q EXCEPT !.fetch = "idle"]
           none == [idle EXCEPT !.answer = <<>>]
           failure == [none EXCEPT !.failed = TRUE]
           read == [q EXCEPT !.fetch = "read"]
           answered == [read EXCEPT !.answer = <<d>>]
<1>1. /\ failure \in Query(D) /\ failure.fetch = "idle" /\ failure.failed
      /\ failure.data = q.data
  <2>1. idle \in Query(D) /\ idle.fetch = "idle" /\ idle.data = q.data
      BY DEF Query
  <2> HIDE DEF idle
  <2>2. none \in Query(D) /\ none.fetch = "idle" /\ none.data = q.data
      BY <2>1 DEF Query, Maybe
  <2> HIDE DEF none
  <2> QED BY <2>2 DEF Query
<1>2. /\ answered \in Query(D) /\ answered.fetch = "read" /\ answered.answer = <<d>>
      /\ answered.data = q.data /\ answered.failed = q.failed
  <2>1. read \in Query(D) /\ read.fetch = "read" /\ read.data = q.data /\ read.failed = q.failed
      BY DEF Query
  <2> HIDE DEF read
  <2> QED BY <2>1 DEF Query, Maybe
<1>3. /\ q.fetch # "idle"
      /\ \/ p = failure
         \/ q.fetch = "sent" /\ p = answered
         \/ q.fetch = "read" /\ p = Loaded(q.answer[1])
  <2>1. q.fetch \in {"idle", "sent", "read"}
      BY DEF Query
  <2>2. CASE q.fetch = "idle"
      BY <2>2 DEF Progress
  <2>3. CASE q.fetch = "sent"
      BY <2>3, Zenon DEF Progress
  <2>4. CASE q.fetch = "read"
      BY <2>4, Zenon DEF Progress
  <2> QED BY <2>1, <2>2, <2>3, <2>4
<1> HIDE DEF idle, none, failure, read, answered
<1>4. CASE p = failure
    BY <1>1, <1>3, <1>4 DEF Sound, Fetching, HasFailed
<1>5. CASE q.fetch = "sent" /\ p = answered
  <2>1. /\ p \in Query(D) /\ p.fetch = "read" /\ p.answer = <<d>>
        /\ p.data = q.data /\ p.failed = q.failed
      BY <1>2, <1>5, Zenon
  <2>2. IsRead(q, p, d)
      BY <1>5, <2>1, Zenon DEF IsRead
  <2>3. Sound(p) /\ Fetching(q)
      BY <1>5, <2>1 DEF Sound, Fetching
  <2> QED BY <2>1, <2>2, <2>3
<1>6. CASE q.fetch = "read" /\ p = Loaded(q.answer[1])
  <2>1. q.answer[1] \in D /\ q.answer = <<q.answer[1]>>
      BY <1>6, MaybeThere DEF Query, Sound
  <2>2. /\ p \in Query(D) /\ p.fetch = "idle" /\ p.failed = FALSE
        /\ p.data = <<q.answer[1]>>
      BY <1>6, <2>1 DEF Loaded, Query, Maybe
  <2> QED BY <1>6, <2>1, <2>2 DEF Sound, Fetching, HasArrived
<1> QED BY <1>3, <1>4, <1>5, <1>6
=============================================================================
