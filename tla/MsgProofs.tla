----------------------------- MODULE MsgProofs -----------------------------
(* The reference counts are exact for any number of handles and contents.  *)
EXTENDS Msg, FiniteSetTheorems, TLAPS

\* Taking one handle out of a finite set of handles.
LEMMA OneLess ==
  ASSUME NEW S, IsFiniteSet(S), NEW x \in S
  PROVE  /\ IsFiniteSet(S \ {x}) /\ Cardinality(S) \in Nat /\ Cardinality(S \ {x}) \in Nat
         /\ Cardinality(S) = Cardinality(S \ {x}) + 1
         /\ Cardinality(S) = 1 => S = {x}
<1>1. IsFiniteSet(S \ {x}) /\ Cardinality(S) \in Nat /\ Cardinality(S \ {x}) \in Nat
  BY FS_CardinalityType, FS_RemoveElement
<1>2. Cardinality(S) = Cardinality(S \ {x}) + 1
  BY <1>1, FS_RemoveElement
<1>3. ASSUME Cardinality(S) = 1 PROVE S = {x}
  <2>1. Cardinality(S \ {x}) = 0
    BY <1>1, <1>2, <1>3
  <2>2. S \ {x} = {}
    BY <1>1, <2>1, FS_EmptySet
  <2> QED
    BY <2>2
<1> QED
  BY <1>1, <1>2, <1>3

\* Adding one.
LEMMA OneMore ==
  ASSUME NEW S, IsFiniteSet(S), NEW x, x \notin S
  PROVE  /\ IsFiniteSet(S \cup {x}) /\ Cardinality(S) \in Nat
         /\ Cardinality(S \cup {x}) = Cardinality(S) + 1
BY FS_CardinalityType, FS_AddElement

\* The handles of a content are finitely many.
LEMMA HoldersFinite ==
  ASSUME NEW k
  PROVE  IsFiniteSet(Holders(k)) /\ Cardinality(Holders(k)) \in Nat
<1>1. Holders(k) \subseteq Msgs
  BY DEF Holders
<1> QED
  BY <1>1, MsgAssumption, FS_Subset, FS_CardinalityType

\* What is promised is a natural number, and somebody holds what is promised.
LEMMA PromisedHeld ==
  ASSUME MsgInv, NEW k \in Contents
  PROVE  /\ Promised(k) \in Nat
         /\ Promised(k) > 0 => distmsg \in Holders(k)
BY MsgAssumption DEF MsgInv, MsgTypeOK, Promised, Distributing, Holders

\* Before any handle is initialised.
LEMMA MsgInvInit == MsgStart => MsgInv
<1> SUFFICES ASSUME MsgStart PROVE MsgInv
  OBVIOUS
<1> USE MsgAssumption DEF MsgStart
<1>1. MsgTypeOK
  BY DEF MsgTypeOK, Types
<1>2. \A k : Holders(k) = {}
  BY DEF Holders
<1>3. ContentOwned /\ CountExact /\ HasContent /\ Distributing
  BY <1>2 DEF ContentOwned, CountExact, HasContent, Distributing
<1> QED
  BY <1>1, <1>3 DEF MsgInv

\* An init function that leaves the handle without content disturbs no other.
LEMMA PlainKeeps ==
  ASSUME MsgInv, NEW m \in Msgs, Raw(m), NEW t \in {"vsm", "cmsg", "delimiter"}, Plain(m, t),
         UNCHANGED <<allocated, dying, refcnt, distmsg, left>>
  PROVE  MsgInv'
<1> USE MsgAssumption DEF MsgInv, Plain, Raw, Usable
<1>0. m # distmsg
  BY DEF Distributing
<1>1. MsgTypeOK'
  BY DEF MsgTypeOK, Types
<1>2. \A k \in Contents : Holders(k)' = Holders(k) /\ Promised(k)' = Promised(k)
  BY <1>0 DEF Holders, Promised, MsgTypeOK
<1>3. \A k \in Contents : \A n \in Holders(k) : shared'[n] = shared[n]
  BY DEF Holders, MsgTypeOK
<1>4. ContentOwned'
  BY <1>2 DEF ContentOwned
<1>5. CountExact'
  BY <1>2, <1>3 DEF CountExact
<1>6. HasContent' /\ Distributing'
  BY <1>0 DEF HasContent, Distributing, MsgTypeOK
<1> QED
  BY <1>1, <1>4, <1>5, <1>6

\* Nor does a malloc, whether it succeeds or fails.
LEMMA AllocateKeeps ==
  ASSUME MsgInv, NEW m \in Msgs, Raw(m), AllocateContent(m)
  PROVE  MsgInv'
<1> USE MsgAssumption DEF MsgInv, AllocateContent, Raw, Usable
<1>0. m # distmsg
  BY DEF Distributing
<1>1. MsgTypeOK'
  BY DEF MsgTypeOK, Types
<1>2. CASE \E k \in Contents \ allocated :
             /\ content' = [content EXCEPT ![m] = k]
             /\ allocated' = allocated \cup {k}
             /\ refcnt' = [refcnt EXCEPT ![k] = 0]
             /\ defunct' = defunct \ {m}
  <2> PICK c \in Contents \ allocated :
             /\ content' = [content EXCEPT ![m] = c]
             /\ allocated' = allocated \cup {c}
             /\ refcnt' = [refcnt EXCEPT ![c] = 0]
             /\ defunct' = defunct \ {m}
    BY <1>2
  <2>1. Holders(c) = {}
    BY DEF ContentOwned
  <2>2. Holders(c)' = {m}
    BY <2>1 DEF Holders, MsgTypeOK
  <2>3. \A k \in Contents \ {c} : Holders(k)' = Holders(k) /\ Promised(k)' = Promised(k)
    BY <1>0 DEF Holders, Promised, MsgTypeOK
  <2>4. \A k \in Contents : \A n \in Holders(k) : n # m /\ shared'[n] = shared[n]
    BY DEF Holders, MsgTypeOK
  <2>5. ContentOwned'
    <3> SUFFICES ASSUME NEW k \in Contents PROVE k \in allocated' \ dying' <=> Holders(k)' # {}
      BY DEF ContentOwned
    <3>1. dying' = dying /\ dying \subseteq allocated /\ allocated' = allocated \cup {c}
      BY DEF MsgTypeOK
    <3>2. CASE k = c
      BY <2>2, <3>1, <3>2
    <3>3. CASE k # c
      <4>1. Holders(k)' = Holders(k)
        BY <2>3, <3>3
      <4>2. k \in allocated \ dying <=> Holders(k) # {}
        BY DEF ContentOwned
      <4> QED
        BY <3>1, <3>3, <4>1, <4>2
    <3> QED
      BY <3>2, <3>3
  <2>6. CountExact'
    <3>1. ~shared'[m]
      BY DEF MsgTypeOK
    <3>2. \A k \in Contents \ {c} : refcnt'[k] = refcnt[k]
      BY DEF MsgTypeOK
    <3>3. ASSUME NEW k \in Contents \ {c}, NEW n \in Holders(k)'
          PROVE  /\ shared'[n] => refcnt'[k] = Cardinality(Holders(k)') + Promised(k)'
                 /\ ~shared'[n] => Holders(k)' = {n}
      <4>1. Holders(k)' = Holders(k) /\ Promised(k)' = Promised(k) /\ refcnt'[k] = refcnt[k]
        BY <2>3, <3>2
      <4>a. n \in Holders(k)
        BY <3>3, <4>1
      <4>2. n \in Holders(k) /\ shared'[n] = shared[n]
        BY <2>4, <4>a
      <4>3. /\ shared[n] => refcnt[k] = Cardinality(Holders(k)) + Promised(k)
            /\ ~shared[n] => Holders(k) = {n}
        BY <4>2 DEF CountExact
      <4> QED
        BY <4>1, <4>2, <4>3
    <3>4. ASSUME NEW n \in Holders(c)' PROVE ~shared'[n] /\ Holders(c)' = {n}
      BY <2>2, <3>1, <3>4
    <3> QED
      BY <3>3, <3>4 DEF CountExact
  <2>7. HasContent' /\ Distributing'
    BY <1>0 DEF HasContent, Distributing, MsgTypeOK
  <2> QED
    BY <1>1, <2>5, <2>6, <2>7
<1>3. CASE /\ content' = [content EXCEPT ![m] = NoContent]
           /\ defunct' = defunct \cup {m}
           /\ UNCHANGED <<allocated, refcnt>>
  <2>1. \A k \in Contents : Holders(k)' = Holders(k) /\ Promised(k)' = Promised(k)
    BY <1>0, <1>3 DEF Holders, Promised, MsgTypeOK
  <2>2. \A k \in Contents : \A n \in Holders(k) : shared'[n] = shared[n]
    BY DEF Holders, MsgTypeOK
  <2>3. ContentOwned'
    BY <1>3, <2>1 DEF ContentOwned
  <2>4. CountExact'
    BY <1>3, <2>1, <2>2 DEF CountExact
  <2>5. HasContent' /\ Distributing'
    BY <1>0, <1>3 DEF HasContent, Distributing, MsgTypeOK
  <2> QED
    BY <1>1, <2>3, <2>4, <2>5
<1> QED
  BY <1>2, <1>3

\* What giving up the reference of a long message does to its content.
LEMMA ReleaseEffect ==
  ASSUME MsgInv, NEW m \in Msgs, Usable(m), mtype[m] = "lmsg"
  PROVE  /\ content[m] \in Contents /\ m \in Holders(content[m])
         /\ content[m] \in allocated \ dying
         /\ \A k \in Contents \ {content[m]} : m \notin Holders(k)
         /\ LastReference(m) => Holders(content[m]) = {m}
         /\ LastReference(m) /\ m # distmsg => Promised(content[m]) = 0
         /\ ~LastReference(m) =>
              /\ \A n \in Holders(content[m]) : shared[n]
              /\ m # distmsg => Holders(content[m]) \ {m} # {}
              /\ refcnt[content[m]] - 1 =
                   Cardinality(Holders(content[m]) \ {m}) + Promised(content[m])
<1> DEFINE c == content[m]
<1> USE MsgAssumption DEF MsgInv
<1>1. c \in Contents /\ m \in Holders(c) /\ c \in allocated \ dying
  BY DEF Usable, HasContent, Holders, ContentOwned
<1>2. \A k \in Contents \ {c} : m \notin Holders(k)
  BY DEF Holders
<1>3. /\ IsFiniteSet(Holders(c)) /\ Cardinality(Holders(c)) \in Nat
      /\ Cardinality(Holders(c) \ {m}) \in Nat
      /\ Cardinality(Holders(c)) = Cardinality(Holders(c) \ {m}) + 1
      /\ Cardinality(Holders(c)) = 1 => Holders(c) = {m}
      /\ IsFiniteSet(Holders(c) \ {m})
  BY <1>1, HoldersFinite, OneLess
<1>4. Promised(c) \in Nat /\ (Promised(c) > 0 => distmsg \in Holders(c))
  BY <1>1, PromisedHeld
<1>5. refcnt[c] \in Nat /\ shared[m] \in BOOLEAN
  BY <1>1 DEF MsgTypeOK
<1>6. CASE ~shared[m]
  <2>1. LastReference(m) /\ Holders(c) = {m}
    BY <1>1, <1>6 DEF LastReference, CountExact
  <2>2. m # distmsg => Promised(c) = 0
    BY <1>4, <2>1
  <2> QED
    BY <1>1, <1>2, <2>1, <2>2
<1>7. CASE shared[m]
  <2>1. refcnt[c] = Cardinality(Holders(c)) + Promised(c)
    BY <1>1, <1>7 DEF CountExact
  <2>2. LastReference(m) <=> refcnt[c] - 1 = 0
    BY <1>7 DEF LastReference, sub
  <2>3. LastReference(m) => Holders(c) = {m} /\ Promised(c) = 0
    BY <1>3, <1>4, <1>5, <2>1, <2>2
  <2>4. ASSUME NEW n \in Holders(c), ~LastReference(m) PROVE shared[n]
    <3>1. n \in Msgs
      BY DEF Holders
    <3>2. ~shared[n] => Holders(c) = {n}
      BY <1>1, <2>4 DEF CountExact
    <3>3. ~shared[n] => n = m
      BY <1>1, <3>2
    <3> QED
      BY <1>7, <3>3, <3>1 DEF MsgTypeOK
  <2>5. ASSUME ~LastReference(m), m # distmsg PROVE Holders(c) \ {m} # {}
    <3>1. CASE Promised(c) > 0
      BY <1>4, <2>5, <3>1
    <3>2. CASE Promised(c) = 0
      <4>1. Cardinality(Holders(c) \ {m}) # 0
        BY <1>3, <2>1, <2>2, <2>5, <3>2
      <4> QED
        BY <4>1, <1>3, FS_EmptySet
    <3> QED
      BY <1>4, <3>1, <3>2
  <2>6. refcnt[c] - 1 = Cardinality(Holders(c) \ {m}) + Promised(c)
    BY <1>3, <1>4, <1>5, <2>1
  <2> QED
    BY <1>1, <1>2, <2>3, <2>4, <2>5, <2>6
<1> QED
  BY <1>5, <1>6, <1>7

\* The counters after a release: only the released content's may change.
LEMMA ReleasedCounts ==
  ASSUME MsgInv, NEW m \in Msgs, Usable(m)
  PROVE  /\ Released(m) \in [Contents -> Nat]
         /\ mtype[m] = "lmsg" => \A k \in Contents \ {content[m]} : Released(m)[k] = refcnt[k]
         /\ mtype[m] = "lmsg" /\ ~LastReference(m) => Released(m)[content[m]] = refcnt[content[m]] - 1
         /\ mtype[m] # "lmsg" => Released(m) = refcnt
<1> USE MsgAssumption DEF MsgInv
<1>1. CASE mtype[m] # "lmsg" \/ ~shared[m]
  BY <1>1 DEF Released, MsgTypeOK, LastReference
<1>2. CASE mtype[m] = "lmsg" /\ shared[m]
  <2>1. content[m] \in Contents /\ m \in Holders(content[m])
    BY <1>2, ReleaseEffect
  <2>2. refcnt[content[m]] = Cardinality(Holders(content[m])) + Promised(content[m])
    BY <1>2, <2>1 DEF CountExact
  <2>3. refcnt[content[m]] - 1 \in Nat
    <3>0. IsFiniteSet(Holders(content[m]))
      BY HoldersFinite
    <3>a. /\ Cardinality(Holders(content[m])) \in Nat
          /\ Cardinality(Holders(content[m]) \ {m}) \in Nat
          /\ Cardinality(Holders(content[m])) = Cardinality(Holders(content[m]) \ {m}) + 1
      BY <2>1, <3>0, OneLess
    <3>1. Cardinality(Holders(content[m])) \in Nat /\ Cardinality(Holders(content[m])) > 0
      BY <3>a
    <3> QED
      BY <2>1, <2>2, <3>1, PromisedHeld
  <2> QED
    BY <1>2, <2>1, <2>3 DEF Released, sub, MsgTypeOK
<1> QED
  BY <1>1, <1>2

\* The state between close and what move and copy do next: the invariant holds
\* for the handles other than m.
LEMMA AfterRelease ==
  ASSUME MsgInv, NEW m \in Msgs, Usable(m), m # distmsg
  PROVE  /\ Dying(m) \in SUBSET allocated
         /\ \A k \in Contents :
              /\ k \in allocated \ Dying(m) <=> Holders(k) \ {m} # {}
              /\ \A n \in Holders(k) \ {m} :
                   /\ shared[n] => Released(m)[k] = Cardinality(Holders(k) \ {m}) + Promised(k)
                   /\ ~shared[n] => Holders(k) \ {m} = {n}
<1> USE MsgAssumption DEF MsgInv
<1>1. CASE mtype[m] # "lmsg"
  <2>1. Dying(m) = dying /\ Released(m) = refcnt
    BY <1>1, ReleasedCounts DEF LastReference, Dying
  <2>2. ASSUME NEW k \in Contents PROVE Holders(k) \ {m} = Holders(k)
    BY <1>1 DEF Holders
  <2> QED
    BY <2>1, <2>2 DEF ContentOwned, CountExact, MsgTypeOK
<1>2. CASE mtype[m] = "lmsg"
  <2> DEFINE c == content[m]
  <2>a. /\ c \in Contents /\ m \in Holders(c) /\ c \in allocated \ dying
        /\ \A k \in Contents \ {c} : m \notin Holders(k)
        /\ LastReference(m) => Holders(c) = {m}
        /\ ~LastReference(m) =>
             /\ Holders(c) \ {m} # {}
             /\ \A n \in Holders(c) : shared[n]
             /\ refcnt[c] - 1 = Cardinality(Holders(c) \ {m}) + Promised(c)
    BY <1>2, ReleaseEffect
  <2>b. /\ \A k \in Contents \ {c} : Released(m)[k] = refcnt[k]
        /\ ~LastReference(m) => Released(m)[c] = refcnt[c] - 1
    BY <1>2, ReleasedCounts
  <2>1. Dying(m) \in SUBSET allocated
    BY <2>a DEF MsgTypeOK, Dying
  <2>2. ASSUME NEW k \in Contents \ {c} PROVE Holders(k) \ {m} = Holders(k) /\ Released(m)[k] = refcnt[k]
    BY <2>a, <2>b
  <2>3. ASSUME NEW k \in Contents \ {c}
        PROVE  /\ k \in allocated \ Dying(m) <=> Holders(k) \ {m} # {}
               /\ \A n \in Holders(k) \ {m} :
                   /\ shared[n] => Released(m)[k] = Cardinality(Holders(k) \ {m}) + Promised(k)
                   /\ ~shared[n] => Holders(k) \ {m} = {n}
    BY <2>2 DEF ContentOwned, CountExact, Dying
  <2>4. c \in allocated \ Dying(m) <=> Holders(c) \ {m} # {}
    BY <2>a DEF Dying
  <2>5. ASSUME NEW n \in Holders(c) \ {m}
        PROVE  shared[n] /\ Released(m)[c] = Cardinality(Holders(c) \ {m}) + Promised(c)
    BY <2>a, <2>b, <2>5
  <2> QED
    BY <2>1, <2>3, <2>4, <2>5
<1> QED
  BY <1>1, <1>2

\* close preserves the invariant.
LEMMA CloseKeeps ==
  ASSUME MsgInv, NEW m \in Msgs, close(m)
  PROVE  MsgInv'
<1> USE MsgAssumption DEF close
<1>1. /\ dying' \in SUBSET allocated
      /\ \A k \in Contents :
              /\ k \in allocated \ dying' <=> Holders(k) \ {m} # {}
              /\ \A n \in Holders(k) \ {m} :
                   /\ shared[n] => refcnt'[k] = Cardinality(Holders(k) \ {m}) + Promised(k)
                   /\ ~shared[n] => Holders(k) \ {m} = {n}
  <2>1. Usable(m) /\ m # distmsg /\ dying' = Dying(m) /\ refcnt' = Released(m)
    OBVIOUS
  <2> HIDE DEF close
  <2> QED
    BY <2>1, AfterRelease
<1>2. refcnt' \in [Contents -> Nat]
  BY ReleasedCounts
<1> USE DEF MsgInv
<1>3. MsgTypeOK'
  BY <1>1, <1>2 DEF MsgTypeOK, Types
<1>4. \A k \in Contents : Holders(k)' = Holders(k) \ {m} /\ Promised(k)' = Promised(k)
  BY DEF Holders, Promised, MsgTypeOK
<1>a. allocated' = allocated /\ shared' = shared
  OBVIOUS
<1> HIDE DEF close
<1>5. ContentOwned'
  BY <1>1, <1>4, <1>a DEF ContentOwned
<1>b. CountExact'
  <2> SUFFICES ASSUME NEW k \in Contents, NEW n \in Holders(k)'
      PROVE  /\ shared[n] => refcnt'[k] = Cardinality(Holders(k)') + Promised(k)'
             /\ ~shared[n] => Holders(k)' = {n}
    BY <1>a DEF CountExact
  <2>1. Holders(k)' = Holders(k) \ {m} /\ Promised(k)' = Promised(k)
    BY <1>4
  <2> QED
    BY <1>1, <2>1
<1>6. HasContent' /\ Distributing'
  BY DEF close, HasContent, Distributing, MsgTypeOK
<1> QED
  BY <1>3, <1>5, <1>b, <1>6

\* free preserves the invariant: nobody holds a content that is dying.
LEMMA FreeKeeps ==
  ASSUME MsgInv, NEW c \in Contents, free(c)
  PROVE  MsgInv'
<1> USE MsgAssumption DEF MsgInv, free
<1>1. \A k \in Contents : Holders(k)' = Holders(k) /\ Promised(k)' = Promised(k)
  BY DEF Holders, Promised
<1>2. MsgTypeOK' /\ HasContent' /\ Distributing'
  BY DEF MsgTypeOK, HasContent, Distributing
<1>3. ContentOwned' /\ CountExact'
  BY <1>1 DEF ContentOwned, CountExact
<1> QED
  BY <1>2, <1>3

\* move preserves the invariant: the target takes the source's place.
LEMMA MoveKeeps ==
  ASSUME MsgInv, NEW m \in Msgs, NEW src \in Msgs, move(m, src)
  PROVE  MsgInv'
<1> USE MsgAssumption DEF move
<1>1. /\ dying' \in SUBSET allocated
      /\ \A k \in Contents :
              /\ k \in allocated \ dying' <=> Holders(k) \ {m} # {}
              /\ \A n \in Holders(k) \ {m} :
                   /\ shared[n] => refcnt'[k] = Cardinality(Holders(k) \ {m}) + Promised(k)
                   /\ ~shared[n] => Holders(k) \ {m} = {n}
  <2>1. Usable(m) /\ m # distmsg /\ dying' = Dying(m) /\ refcnt' = Released(m)
    OBVIOUS
  <2> HIDE DEF move
  <2> QED
    BY <2>1, AfterRelease
<1>2. refcnt' \in [Contents -> Nat]
  BY ReleasedCounts
<1>3. \A k \in Contents : IsFiniteSet(Holders(k) \ {m})
  BY HoldersFinite, FS_Subset
<1> USE DEF MsgInv
<1>4. MsgTypeOK'
  BY <1>1, <1>2 DEF MsgTypeOK, Types
<1>5. HasContent' /\ Distributing'
  BY DEF HasContent, Distributing, MsgTypeOK, Usable
<1>6. \A k \in Contents : Promised(k)' = Promised(k)
  BY DEF Promised, MsgTypeOK
<1>7. CASE mtype[src] # "lmsg"
  <2>1. \A k \in Contents : Holders(k)' = Holders(k) \ {m}
    BY <1>7 DEF Holders, MsgTypeOK
  <2>2. \A k \in Contents : \A n \in Holders(k) \ {m} : shared'[n] = shared[n]
    BY <1>7 DEF Holders, MsgTypeOK
  <2>3. ContentOwned'
    BY <1>1, <2>1 DEF ContentOwned
  <2>4. CountExact'
    <3> SUFFICES ASSUME NEW k \in Contents, NEW n \in Holders(k)'
        PROVE  /\ shared'[n] => refcnt'[k] = Cardinality(Holders(k)') + Promised(k)'
               /\ ~shared'[n] => Holders(k)' = {n}
      BY DEF CountExact
    <3>1. Holders(k)' = Holders(k) \ {m} /\ shared'[n] = shared[n] /\ Promised(k)' = Promised(k)
      BY <1>6, <2>1, <2>2
    <3> QED
      BY <1>1, <3>1
  <2> QED
    BY <1>4, <1>5, <2>3, <2>4
<1>8. CASE mtype[src] = "lmsg"
  <2>1. PICK c \in Contents : c = content[src] /\ src \in Holders(c) \ {m}
    BY <1>8 DEF HasContent, Usable, Holders
  <2>2. Holders(c)' = ((Holders(c) \ {m}) \ {src}) \cup {m}
    <3>1. ASSUME NEW n \in Msgs PROVE n \in Holders(c)' <=> n \in ((Holders(c) \ {m}) \ {src}) \cup {m}
      <4>1. CASE n = m
        BY <1>8, <2>1, <4>1 DEF Holders, MsgTypeOK, Usable
      <4>2. CASE n = src
        BY <1>8, <2>1, <4>2 DEF Holders, MsgTypeOK, Usable
      <4>3. CASE n # m /\ n # src
        BY <1>8, <2>1, <4>3 DEF Holders, MsgTypeOK, Usable
      <4> QED
        BY <4>1, <4>2, <4>3
    <3> QED
      BY <3>1 DEF Holders
  <2>3. \A k \in Contents \ {c} : Holders(k)' = Holders(k) \ {m}
    BY <1>8, <2>1 DEF Holders, MsgTypeOK
  <2>4. Cardinality(Holders(c)') = Cardinality(Holders(c) \ {m})
    <3>1. /\ IsFiniteSet((Holders(c) \ {m}) \ {src})
          /\ Cardinality((Holders(c) \ {m}) \ {src}) \in Nat
          /\ Cardinality(Holders(c) \ {m}) = Cardinality((Holders(c) \ {m}) \ {src}) + 1
      BY <1>3, <2>1, OneLess
    <3>2. m \notin (Holders(c) \ {m}) \ {src}
      OBVIOUS
    <3>3. Cardinality(((Holders(c) \ {m}) \ {src}) \cup {m}) = Cardinality((Holders(c) \ {m}) \ {src}) + 1
      BY <3>1, <3>2, OneMore
    <3> QED
      BY <2>2, <3>1, <3>3
  <2>5. ContentOwned'
    <3> SUFFICES ASSUME NEW k \in Contents PROVE k \in allocated' \ dying' <=> Holders(k)' # {}
      BY DEF ContentOwned
    <3>1. CASE k # c
      BY <1>1, <2>3, <3>1
    <3>2. CASE k = c
      BY <1>1, <2>1, <2>2, <3>2
    <3> QED
      BY <3>1, <3>2
  <2>6. \A k \in Contents : \A n \in Holders(k) \ {m, src} : shared'[n] = shared[n]
    BY DEF Holders, MsgTypeOK
  <2>7. shared'[m] = shared[src]
    BY DEF MsgTypeOK
  <2>8. ASSUME NEW k \in Contents \ {c}, NEW n \in Holders(k)'
        PROVE  /\ shared'[n] => refcnt'[k] = Cardinality(Holders(k)') + Promised(k)'
               /\ ~shared'[n] => Holders(k)' = {n}
    <3>1. Holders(k)' = Holders(k) \ {m} /\ Promised(k)' = Promised(k)
      BY <1>6, <2>3
    <3>2. n \in Holders(k) \ {m} /\ n # src
      BY <2>1, <2>8, <3>1 DEF Holders
    <3>3. shared'[n] = shared[n]
      BY <2>6, <3>2
    <3> QED
      BY <1>1, <3>1, <3>2, <3>3
  <2>9. ASSUME NEW n \in Holders(c)'
        PROVE  /\ shared'[n] => refcnt'[c] = Cardinality(Holders(c)') + Promised(c)'
               /\ ~shared'[n] => Holders(c)' = {n}
    <3>1. CASE n = m
      <4>1. ~shared[src] => Holders(c) \ {m} = {src}
        BY <1>1, <2>1
      <4>2. ~shared[src] => Holders(c)' = {m}
        BY <2>2, <4>1
      <4>3. shared[src] => refcnt'[c] = Cardinality(Holders(c) \ {m}) + Promised(c)
        BY <1>1, <2>1
      <4>4. Promised(c)' = Promised(c)
        BY <1>6, <2>1
      <4> QED
        BY <2>4, <2>7, <3>1, <4>2, <4>3, <4>4
    <3>2. CASE n # m
      <4>1. n \in Holders(c) \ {m} /\ n # src
        BY <2>2, <2>9, <3>2
      <4>2. shared'[n] = shared[n]
        BY <2>1, <2>6, <4>1
      <4>3. /\ shared[n] => refcnt'[c] = Cardinality(Holders(c) \ {m}) + Promised(c)
            /\ ~shared[n] => Holders(c) \ {m} = {n}
        BY <1>1, <2>1, <4>1
      <4>4. shared[n] \in BOOLEAN /\ Holders(c) \ {m} # {n}
        BY <2>1, <4>1 DEF MsgTypeOK, Holders
      <4>5. Promised(c)' = Promised(c)
        BY <1>6, <2>1
      <4> QED
        BY <2>4, <4>2, <4>3, <4>4, <4>5
    <3> QED
      BY <3>1, <3>2
  <2>10. CountExact'
    <3> SUFFICES ASSUME NEW k \in Contents, NEW n \in Holders(k)'
        PROVE  /\ shared'[n] => refcnt'[k] = Cardinality(Holders(k)') + Promised(k)'
               /\ ~shared'[n] => Holders(k)' = {n}
      BY DEF CountExact
    <3>1. CASE k # c
      BY <2>8, <3>1
    <3>2. CASE k = c
      BY <2>9, <3>2
    <3> QED
      BY <3>1, <3>2
  <2> QED
    BY <1>4, <1>5, <2>5, <2>10
<1> QED
  BY <1>7, <1>8

\* copy preserves the invariant: the content has one handle more.
LEMMA CopyKeeps ==
  ASSUME MsgInv, NEW m \in Msgs, NEW src \in Msgs, copy(m, src)
  PROVE  MsgInv'
<1> USE MsgAssumption DEF copy
<1>1. /\ dying' \in SUBSET allocated
      /\ \A k \in Contents :
              /\ k \in allocated \ dying' <=> Holders(k) \ {m} # {}
              /\ \A n \in Holders(k) \ {m} :
                   /\ shared[n] => Released(m)[k] = Cardinality(Holders(k) \ {m}) + Promised(k)
                   /\ ~shared[n] => Holders(k) \ {m} = {n}
  <2>1. Usable(m) /\ m # distmsg /\ dying' = Dying(m)
    OBVIOUS
  <2> HIDE DEF copy
  <2> QED
    BY <2>1, AfterRelease
<1>2. Released(m) \in [Contents -> Nat]
  BY ReleasedCounts
<1>3. \A k \in Contents : IsFiniteSet(Holders(k) \ {m})
  BY HoldersFinite, FS_Subset
<1>a. \A k \in Contents : Promised(k) \in Nat /\ (Promised(k) > 0 => distmsg \in Holders(k))
  BY PromisedHeld
<1> USE DEF MsgInv
<1>4. \A k \in Contents : Promised(k)' = Promised(k)
  BY DEF Promised, MsgTypeOK
<1>5. CASE mtype[src] # "lmsg"
  <2>0. refcnt' = Released(m)
    BY <1>5
  <2>1. \A k \in Contents : Holders(k)' = Holders(k) \ {m}
    BY <1>5 DEF Holders, MsgTypeOK
  <2>2. \A k \in Contents : \A n \in Holders(k) \ {m} : shared'[n] = shared[n]
    BY <1>5 DEF Holders, MsgTypeOK
  <2>3. ContentOwned'
    BY <1>1, <2>1 DEF ContentOwned
  <2>4. CountExact'
    <3> SUFFICES ASSUME NEW k \in Contents, NEW n \in Holders(k)'
        PROVE  /\ shared'[n] => refcnt'[k] = Cardinality(Holders(k)') + Promised(k)'
               /\ ~shared'[n] => Holders(k)' = {n}
      BY DEF CountExact
    <3>1. Holders(k)' = Holders(k) \ {m} /\ shared'[n] = shared[n] /\ Promised(k)' = Promised(k)
      BY <1>4, <2>1, <2>2
    <3> QED
      BY <1>1, <2>0, <3>1
  <2>5. MsgTypeOK'
    BY <1>1, <1>2, <1>5 DEF MsgTypeOK, Types
  <2>6. HasContent' /\ Distributing'
    BY <1>5 DEF HasContent, Distributing, MsgTypeOK, Usable
  <2> QED
    BY <2>3, <2>4, <2>5, <2>6
<1>6. CASE mtype[src] = "lmsg"
  <2>1. PICK c \in Contents : c = content[src] /\ src \in Holders(c) \ {m}
    BY <1>6 DEF HasContent, Usable, Holders
  <2>2. /\ refcnt' = [Released(m) EXCEPT ![c] = IF shared[src] THEN Released(m)[c] + 1 ELSE 2]
        /\ shared' = [shared EXCEPT ![src] = TRUE, ![m] = TRUE]
    BY <1>6, <2>1
  <2>3. MsgTypeOK'
    <3>1. refcnt' \in [Contents -> Nat]
      BY <1>2, <2>1, <2>2
    <3>2. shared' \in [Msgs -> BOOLEAN] /\ mtype' \in [Msgs -> Types]
      BY <2>2 DEF MsgTypeOK
    <3> QED
      BY <1>1, <3>1, <3>2 DEF MsgTypeOK
  <2>4. HasContent' /\ Distributing'
    BY <1>6, <2>1, <2>2 DEF HasContent, Distributing, MsgTypeOK, Usable
  <2>5. Holders(c)' = (Holders(c) \ {m}) \cup {m}
    BY <1>6, <2>1 DEF Holders, MsgTypeOK, Usable
  <2>6. \A k \in Contents \ {c} : Holders(k)' = Holders(k) \ {m} /\ src \notin Holders(k)
    BY <1>6, <2>1 DEF Holders, MsgTypeOK
  <2>7. /\ Cardinality(Holders(c)') = Cardinality(Holders(c) \ {m}) + 1
        /\ Cardinality(Holders(c) \ {m}) \in Nat
    <3>1. IsFiniteSet(Holders(c) \ {m}) /\ m \notin Holders(c) \ {m}
      BY <1>3
    <3> QED
      BY <2>5, <3>1, OneMore
  <2>8. ContentOwned'
    <3> SUFFICES ASSUME NEW k \in Contents PROVE k \in allocated' \ dying' <=> Holders(k)' # {}
      BY DEF ContentOwned
    <3>1. CASE k # c
      BY <1>1, <2>6, <3>1
    <3>2. CASE k = c
      BY <1>1, <2>1, <2>5, <3>2
    <3> QED
      BY <3>1, <3>2
  <2>9. refcnt'[c] = Cardinality(Holders(c)') + Promised(c)
    <3>0. shared[src] \in BOOLEAN
      BY DEF MsgTypeOK
    <3>1. CASE shared[src]
      <4>1. Released(m)[c] = Cardinality(Holders(c) \ {m}) + Promised(c)
        BY <1>1, <2>1, <3>1
      <4>2. refcnt'[c] = Released(m)[c] + 1
        BY <1>2, <2>2, <3>1
      <4> QED
        BY <1>a, <2>7, <4>1, <4>2
    <3>2. CASE ~shared[src]
      <4>1. Holders(c) \ {m} = {src}
        BY <1>1, <2>1, <3>2
      <4>2. Promised(c) = 0
        <5>1. Promised(c) > 0 => distmsg = src
          BY <1>a, <4>1
        <5>2. distmsg # src
          BY <3>2, MsgAssumption DEF Distributing
        <5> QED
          BY <1>a, <5>1, <5>2
      <4>3. Cardinality({src}) = 1
        BY FS_Singleton
      <4>4. refcnt'[c] = 2
        BY <1>2, <2>2, <3>2
      <4> QED
        BY <2>7, <4>1, <4>2, <4>3, <4>4
    <3> QED
      BY <3>0, <3>1, <3>2
  <2>10. ASSUME NEW n \in Holders(c)' PROVE shared'[n]
    <3>1. CASE n \in {m, src}
      BY <2>2, <3>1 DEF MsgTypeOK
    <3>2. CASE n \notin {m, src}
      <4>1. n \in Holders(c) \ {m} /\ n \in Msgs
        BY <2>5, <2>10, <3>2 DEF Holders
      <4>2. Holders(c) \ {m} # {n}
        BY <2>1, <3>2
      <4>3. shared[n]
        BY <1>1, <4>1, <4>2 DEF MsgTypeOK
      <4> QED
        BY <2>2, <3>2, <4>1, <4>3 DEF MsgTypeOK
    <3> QED
      BY <3>1, <3>2
  <2>11. CountExact'
    <3> SUFFICES ASSUME NEW k \in Contents, NEW n \in Holders(k)'
        PROVE  /\ shared'[n] => refcnt'[k] = Cardinality(Holders(k)') + Promised(k)'
               /\ ~shared'[n] => Holders(k)' = {n}
      BY DEF CountExact
    <3>1. CASE k # c
      <4>1. Holders(k)' = Holders(k) \ {m} /\ Promised(k)' = Promised(k) /\ src \notin Holders(k)
        BY <1>4, <2>6, <3>1
      <4>2. n \in Holders(k) \ {m} /\ n \notin {m, src}
        BY <4>1
      <4>3. shared'[n] = shared[n]
        BY <2>2, <4>2 DEF MsgTypeOK, Holders
      <4>4. refcnt'[k] = Released(m)[k]
        BY <1>2, <2>2, <3>1
      <4> QED
        BY <1>1, <4>1, <4>2, <4>3, <4>4
    <3>2. CASE k = c
      BY <1>4, <2>9, <2>10, <3>2
    <3> QED
      BY <3>1, <3>2
  <2> QED
    BY <2>3, <2>4, <2>8, <2>11
<1> QED
  BY <1>5, <1>6

\* add_refs preserves the invariant: the promised copies are counted at once.
LEMMA AddRefsKeeps ==
  ASSUME MsgInv, NEW m \in Msgs, NEW refs \in Nat, add_refs(m, refs)
  PROVE  MsgInv'
<1> USE MsgAssumption DEF add_refs
<1>0. \A k \in Contents : Promised(k) = 0
  BY DEF Promised
<1>1. PICK c \in Contents : c = content[m] /\ m \in Holders(c)
  BY DEF MsgInv, HasContent, Usable, Holders
<1>2. IsFiniteSet(Holders(c)) /\ Cardinality(Holders(c)) \in Nat
  BY HoldersFinite
<1> USE DEF MsgInv
<1>3. \A k \in Contents : Holders(k)' = Holders(k)
  BY DEF Holders
<1>4. Promised(c)' = refs /\ \A k \in Contents \ {c} : Promised(k)' = 0
  BY <1>1 DEF Promised
<1>5. /\ refcnt' = [refcnt EXCEPT ![c] = IF shared[m] THEN refcnt[c] + refs ELSE refs + 1]
      /\ shared' = [shared EXCEPT ![m] = TRUE]
  BY <1>1
<1>6. MsgTypeOK' /\ HasContent' /\ Distributing'
  BY <1>1, <1>5 DEF MsgTypeOK, HasContent, Distributing, Usable
<1>7. ContentOwned'
  BY <1>3 DEF ContentOwned
<1>8. refcnt'[c] = Cardinality(Holders(c)) + refs /\ \A n \in Holders(c) : shared'[n]
  <2>1. CASE shared[m]
    <3>1. refcnt[c] = Cardinality(Holders(c)) + 0
      BY <1>0, <1>1, <2>1 DEF CountExact
    <3>2. refcnt'[c] = refcnt[c] + refs
      BY <1>5, <2>1 DEF MsgTypeOK
    <3>3. ASSUME NEW n \in Holders(c) PROVE shared[n]
      BY <1>1, <2>1, <3>3 DEF CountExact
    <3> QED
      BY <1>2, <1>5, <3>1, <3>2, <3>3 DEF MsgTypeOK, Holders
  <2>2. CASE ~shared[m]
    <3>1. Holders(c) = {m} /\ Cardinality({m}) = 1
      BY <1>1, <2>2, FS_Singleton DEF CountExact
    <3>2. refcnt'[c] = refs + 1
      BY <1>5, <2>2 DEF MsgTypeOK
    <3> QED
      BY <1>5, <3>1, <3>2 DEF MsgTypeOK
  <2> QED
    BY <2>1, <2>2
<1>9. CountExact'
  <2> SUFFICES ASSUME NEW k \in Contents, NEW n \in Holders(k)'
      PROVE  /\ shared'[n] => refcnt'[k] = Cardinality(Holders(k)') + Promised(k)'
             /\ ~shared'[n] => Holders(k)' = {n}
    BY DEF CountExact
  <2>1. CASE k # c
    <3>1. Holders(k)' = Holders(k) /\ Promised(k)' = Promised(k) /\ n \in Holders(k)
      BY <1>0, <1>3, <1>4, <2>1
    <3>2. n # m /\ n \in Msgs
      BY <1>1, <2>1, <3>1 DEF Holders
    <3>3. shared'[n] = shared[n] /\ refcnt'[k] = refcnt[k]
      BY <1>5, <2>1, <3>2 DEF MsgTypeOK
    <3>4. /\ shared[n] => refcnt[k] = Cardinality(Holders(k)) + Promised(k)
          /\ ~shared[n] => Holders(k) = {n}
      BY <3>1 DEF CountExact
    <3> QED
      BY <3>1, <3>3, <3>4
  <2>2. CASE k = c
    BY <1>3, <1>4, <1>8, <2>2
  <2> QED
    BY <2>1, <2>2
<1> QED
  BY <1>6, <1>7, <1>9

\* A POD-style copy preserves the invariant: a promise becomes a handle.
LEMMA PodCopyKeeps ==
  ASSUME MsgInv, NEW m \in Msgs, PodCopy(m)
  PROVE  MsgInv'
<1> USE MsgAssumption DEF PodCopy
<1>0. m # distmsg /\ distmsg \in Msgs /\ shared[distmsg]
  BY DEF MsgInv, MsgTypeOK, Distributing, Raw, Usable
<1>1. PICK c \in Contents : c = content[distmsg] /\ distmsg \in Holders(c)
  BY <1>0 DEF MsgInv, HasContent, Distributing, Holders
<1>2. IsFiniteSet(Holders(c)) /\ Cardinality(Holders(c)) \in Nat
  BY HoldersFinite
<1> USE DEF MsgInv
<1>3. m \notin Holders(c) /\ \A k \in Contents : m \notin Holders(k)
  BY DEF Raw, Usable, Holders
<1>4. Holders(c)' = Holders(c) \cup {m} /\ \A k \in Contents \ {c} : Holders(k)' = Holders(k)
  <2>1. Holders(c)' = Holders(c) \cup {m}
    BY <1>1 DEF Holders, MsgTypeOK
  <2>2. ASSUME NEW k \in Contents \ {c} PROVE Holders(k)' = Holders(k)
    BY <1>1, <1>3 DEF Holders, MsgTypeOK
  <2> QED
    BY <2>1, <2>2
<1>5. Cardinality(Holders(c)') = Cardinality(Holders(c)) + 1
  BY <1>2, <1>3, <1>4, OneMore
<1>6. Promised(c) = left /\ Promised(c)' = left - 1 /\ left \in Nat
  BY <1>0, <1>1 DEF Promised, MsgTypeOK
<1>7. \A k \in Contents \ {c} : Promised(k)' = Promised(k)
  BY <1>0, <1>1 DEF Promised, MsgTypeOK
<1>8. MsgTypeOK'
  BY <1>0, <1>6 DEF MsgTypeOK, Types
<1>9. HasContent' /\ Distributing'
  BY <1>0, <1>1 DEF HasContent, Distributing, MsgTypeOK
<1>10. ContentOwned'
  <2> SUFFICES ASSUME NEW k \in Contents PROVE k \in allocated' \ dying' <=> Holders(k)' # {}
    BY DEF ContentOwned
  <2>1. CASE k # c
    BY <1>4, <2>1 DEF ContentOwned
  <2>2. CASE k = c
    BY <1>1, <1>4, <2>2 DEF ContentOwned
  <2> QED
    BY <2>1, <2>2
<1>11. refcnt'[c] = Cardinality(Holders(c)') + Promised(c)'
  <2>1. refcnt[c] = Cardinality(Holders(c)) + Promised(c)
    BY <1>0, <1>1 DEF CountExact
  <2> QED
    BY <1>2, <1>5, <1>6, <2>1
<1>12. ASSUME NEW n \in Holders(c)' PROVE shared'[n]
  <2>1. CASE n = m
    BY <2>1 DEF MsgTypeOK
  <2>2. CASE n # m
    <3>1. n \in Holders(c) /\ n \in Msgs
      BY <1>4, <1>12, <2>2 DEF Holders
    <3>2. ~shared[n] => n = distmsg
      BY <1>1, <3>1 DEF CountExact
    <3> QED
      BY <1>0, <2>2, <3>1, <3>2 DEF MsgTypeOK
  <2> QED
    BY <2>1, <2>2
<1>13. CountExact'
  <2> SUFFICES ASSUME NEW k \in Contents, NEW n \in Holders(k)'
      PROVE  /\ shared'[n] => refcnt'[k] = Cardinality(Holders(k)') + Promised(k)'
             /\ ~shared'[n] => Holders(k)' = {n}
    BY DEF CountExact
  <2>1. CASE k # c
    <3>1. Holders(k)' = Holders(k) /\ Promised(k)' = Promised(k) /\ n \in Holders(k)
      BY <1>4, <1>7, <2>1
    <3>2. n # m /\ n \in Msgs
      BY <1>3, <3>1 DEF Holders
    <3>3. shared'[n] = shared[n] /\ refcnt'[k] = refcnt[k]
      BY <3>2 DEF MsgTypeOK
    <3>4. /\ shared[n] => refcnt[k] = Cardinality(Holders(k)) + Promised(k)
          /\ ~shared[n] => Holders(k) = {n}
      BY <3>1 DEF CountExact
    <3> QED
      BY <3>1, <3>3, <3>4
  <2>2. CASE k = c
    BY <1>11, <1>12, <2>2
  <2> QED
    BY <2>1, <2>2
<1> QED
  BY <1>8, <1>9, <1>10, <1>13

\* rm_refs preserves the invariant: promises are withdrawn, and with them, when
\* one more is removed than was promised, the caller's own handle.
LEMMA RmRefsKeeps ==
  ASSUME MsgInv, NEW refs \in Nat, rm_refs(refs)
  PROVE  MsgInv'
<1> USE MsgAssumption DEF rm_refs
<1>0. distmsg \in Msgs /\ shared[distmsg] /\ left \in Nat /\ left > 0
  BY DEF MsgInv, MsgTypeOK, Distributing
<1>1. PICK c \in Contents : c = content[distmsg] /\ distmsg \in Holders(c)
  BY <1>0 DEF MsgInv, HasContent, Distributing, Holders
<1>2. /\ IsFiniteSet(Holders(c)) /\ Cardinality(Holders(c)) \in Nat
      /\ Cardinality(Holders(c) \ {distmsg}) \in Nat /\ IsFiniteSet(Holders(c) \ {distmsg})
      /\ Cardinality(Holders(c)) = Cardinality(Holders(c) \ {distmsg}) + 1
  <2>1. IsFiniteSet(Holders(c))
    BY HoldersFinite
  <2> QED
    BY <1>1, <2>1, OneLess
<1>3. c \in allocated \ dying /\ refcnt[c] = Cardinality(Holders(c)) + left
  <2>1. Promised(c) = left
    BY <1>0, <1>1 DEF Promised
  <2> QED
    BY <1>0, <1>1, <2>1 DEF MsgInv, CountExact, ContentOwned
<1>4. ASSUME NEW n \in Holders(c) PROVE shared[n] /\ n \in Msgs
  <2>0. ~shared[n] => Holders(c) = {n}
    BY <1>4 DEF MsgInv, CountExact
  <2>1. n \in Msgs /\ (~shared[n] => n = distmsg)
    BY <1>1, <2>0 DEF Holders
  <2> QED
    BY <1>0, <2>1
<1>5. /\ refcnt' = [refcnt EXCEPT ![c] = refcnt[c] - refs]
      /\ dying' = IF refcnt[c] - refs = 0 THEN dying \cup {c} ELSE dying
  BY <1>1 DEF sub
<1>6. \A k \in Contents \ {c} : Holders(k)' = Holders(k) /\ Promised(k)' = Promised(k)
  <2>1. ASSUME NEW k \in Contents \ {c} PROVE Holders(k)' = Holders(k)
    BY <1>1 DEF Holders
  <2>2. ASSUME NEW k \in Contents \ {c} PROVE Promised(k)' = Promised(k)
    BY <1>0, <1>1 DEF Promised
  <2> QED
    BY <2>1, <2>2
<1>7. /\ Holders(c)' = IF refs = left + 1 THEN Holders(c) \ {distmsg} ELSE Holders(c)
      /\ Promised(c)' = IF refs >= left THEN 0 ELSE left - refs
  <2>1. Holders(c)' = IF refs = left + 1 THEN Holders(c) \ {distmsg} ELSE Holders(c)
    BY <1>1 DEF Holders
  <2>2. Promised(c)' = IF refs >= left THEN 0 ELSE left - refs
    BY <1>0, <1>1 DEF Promised
  <2> QED
    BY <2>1, <2>2
<1>b. refs > 0 /\ refs <= left + 1
  OBVIOUS
<1> HIDE DEF rm_refs
<1>8. /\ refcnt'[c] = Cardinality(Holders(c)') + Promised(c)' /\ refcnt'[c] \in Nat
      /\ refcnt'[c] = refcnt[c] - refs
  <2>0. refcnt'[c] = refcnt[c] - refs
    BY <1>5 DEF MsgInv, MsgTypeOK
  <2>1. CASE refs = left + 1
    BY <1>0, <1>2, <1>3, <1>7, <2>0, <2>1
  <2>2. CASE refs # left + 1
    <3>1. refs <= left
      BY <1>0, <1>b, <2>2
    <3> QED
      BY <1>0, <1>2, <1>3, <1>7, <1>b, <2>0, <2>2, <3>1
  <2> QED
    BY <2>1, <2>2
<1>9. refcnt'[c] = 0 <=> Holders(c)' = {}
  <2>1. CASE refs = left + 1
    <3>1. Holders(c)' = Holders(c) \ {distmsg} /\ Promised(c)' = 0
      BY <1>0, <1>7, <2>1
    <3>2. Cardinality(Holders(c) \ {distmsg}) = 0 <=> Holders(c) \ {distmsg} = {}
      BY <1>2, FS_EmptySet
    <3>3. refcnt'[c] = Cardinality(Holders(c) \ {distmsg})
      BY <1>2, <1>8, <3>1
    <3> QED
      BY <3>1, <3>2, <3>3
  <2>2. CASE refs # left + 1
    <3>1. Holders(c)' = Holders(c) /\ refs <= left
      BY <1>0, <1>7, <1>b, <2>2
    <3>2. refcnt'[c] # 0
      BY <1>0, <1>2, <1>3, <1>8, <3>1
    <3> QED
      BY <1>1, <3>1, <3>2
  <2> QED
    BY <2>1, <2>2
<1> USE DEF MsgInv
<1>10. MsgTypeOK'
  <2>1. refcnt' \in [Contents -> Nat]
    BY <1>5, <1>8 DEF MsgTypeOK
  <2> QED
    BY <1>0, <1>3, <1>5, <2>1 DEF MsgTypeOK, rm_refs
<1>11. HasContent' /\ Distributing'
  BY <1>0 DEF rm_refs, HasContent, Distributing, MsgTypeOK
<1>12. ContentOwned'
  <2> SUFFICES ASSUME NEW k \in Contents PROVE k \in allocated' \ dying' <=> Holders(k)' # {}
    BY DEF ContentOwned
  <2>1. CASE k # c
    BY <1>5, <1>6, <2>1 DEF ContentOwned, rm_refs
  <2>2. CASE k = c
    BY <1>3, <1>5, <1>8, <1>9, <2>2 DEF rm_refs
  <2> QED
    BY <2>1, <2>2
<1>13. CountExact'
  <2> SUFFICES ASSUME NEW k \in Contents, NEW n \in Holders(k)'
      PROVE  /\ shared'[n] => refcnt'[k] = Cardinality(Holders(k)') + Promised(k)'
             /\ ~shared'[n] => Holders(k)' = {n}
    BY DEF CountExact
  <2>1. CASE k # c
    <3>1. Holders(k)' = Holders(k) /\ Promised(k)' = Promised(k) /\ n \in Holders(k)
      BY <1>6, <2>1
    <3>2. shared'[n] = shared[n] /\ refcnt'[k] = refcnt[k]
      BY <1>5, <2>1 DEF MsgTypeOK, rm_refs
    <3>3. /\ shared[n] => refcnt[k] = Cardinality(Holders(k)) + Promised(k)
          /\ ~shared[n] => Holders(k) = {n}
      BY <3>1 DEF CountExact
    <3> QED
      BY <3>1, <3>2, <3>3
  <2>2. CASE k = c
    <3>1. n \in Holders(c)
      BY <1>7, <2>2
    <3>2. shared' = shared
      BY DEF rm_refs
    <3> QED
      BY <1>4, <1>8, <2>2, <3>1, <3>2
  <2> QED
    BY <2>1, <2>2
<1> QED
  BY <1>10, <1>11, <1>12, <1>13

\* Every call preserves the invariant.
LEMMA MsgInvStep == MsgInv /\ [MsgNext]_MsgVars => MsgInv'
<1> SUFFICES ASSUME MsgInv, [MsgNext]_MsgVars PROVE MsgInv'
  OBVIOUS
<1>1. ASSUME NEW m \in Msgs, init(m) \/ init_delimiter(m) PROVE MsgInv'
  BY <1>1, PlainKeeps DEF init, init_delimiter
<1>2. ASSUME NEW m \in Msgs, init_size(m) \/ init_data(m) PROVE MsgInv'
  BY <1>2, PlainKeeps, AllocateKeeps DEF init_size, init_data
<1>3. ASSUME NEW refs \in 1 .. MaxRefs + 1, rm_refs(refs) PROVE MsgInv'
  BY <1>3, RmRefsKeeps, MsgAssumption
<1>4. ASSUME NEW m \in Msgs, NEW refs \in 1 .. MaxRefs, add_refs(m, refs) PROVE MsgInv'
  BY <1>4, AddRefsKeeps, MsgAssumption
<1>5. ASSUME UNCHANGED MsgVars PROVE MsgInv'
  <2> USE <1>5 DEF MsgVars
  <2>1. \A k : Holders(k)' = Holders(k) /\ Promised(k)' = Promised(k)
    BY DEF Holders, Promised
  <2>2. MsgTypeOK' /\ HasContent' /\ Distributing'
    BY DEF MsgInv, MsgTypeOK, HasContent, Distributing
  <2>3. ContentOwned' /\ CountExact'
    BY <2>1 DEF MsgInv, ContentOwned, CountExact
  <2> QED
    BY <2>2, <2>3 DEF MsgInv
<1> QED
  BY <1>1, <1>2, <1>3, <1>4, <1>5, CloseKeeps, PodCopyKeeps, MoveKeeps, CopyKeeps, FreeKeeps DEF MsgNext

\* Whatever threads do with their handles, a content is freed exactly when its
\* last handle is gone, and the counter is exact.
THEOREM MsgCorrect == MsgSpec => []MsgInv
BY MsgInvInit, MsgInvStep, PTL DEF MsgSpec

\* In particular close, move, copy and rm_refs never free a content a handle
\* still points at, and never lose one.
THEOREM ContentsOwned == MsgSpec => []ContentOwned
<1>1. MsgInv => ContentOwned
  BY DEF MsgInv
<1> QED
  BY <1>1, MsgCorrect, PTL
=============================================================================
