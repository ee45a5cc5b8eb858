-------------------------------- MODULE Msg --------------------------------
(***************************************************************************)
(* msg_t (src/net/msg.cpp): the message handles of the network layer.  A   *)
(* short message (vsm) lives in the handle, a constant one (cmsg) points   *)
(* at the caller's data, a long one (lmsg) points at a content_t on the    *)
(* heap, which several handles share once `shared' is set; refcnt counts   *)
(* them only from then on.                                                 *)
(*                                                                         *)
(* Handles belong to different threads; what they share is the content,    *)
(* whose counter changes under atomic_counter_t's mutex.  Dropping the     *)
(* last reference and freeing the content are separate steps, so other     *)
(* threads' calls come in between.  Sizes, data and the flags that do not  *)
(* matter to ownership (more, command, identity) are left out.             *)
(***************************************************************************)
EXTENDS Integers, FiniteSets

CONSTANTS Msgs,       \* the handles
          Contents,   \* the addresses malloc can return for a content_t
          NoContent,  \* NULL
          NoMsg,
          MaxRefs     \* bound on the argument of add_refs

ASSUME MsgAssumption ==
  /\ IsFiniteSet(Msgs) /\ NoMsg \notin Msgs
  /\ NoContent \notin Contents
  /\ MaxRefs \in Nat

VARIABLES
  mtype,       \* u.base.type; "none" is 0, a closed or raw handle
  shared,      \* the flag
  content,     \* u.lmsg.content
  allocated,   \* contents between malloc and free
  dying,       \* contents whose last reference is gone and free comes next
  refcnt,
  defunct,     \* handles whose type is valid but whose content is not
               \* theirs: init_size failed, or rm_refs gave it up; their
               \* owner may only init them
  distmsg,     \* the handle add_refs was called for ...
  left         \* ... and the copies promised by it and not yet made

MsgVars == <<mtype, shared, content, allocated, dying, refcnt, defunct,
             distmsg, left>>

Types == {"none", "vsm", "lmsg", "delimiter", "cmsg"}

\* check (), for a handle whose owner may use it.
Usable(m) == mtype[m] # "none" /\ m \notin defunct

\* Handles that init functions may be called for.
Raw(m) == ~Usable(m)

Holders(k) == {m \in Msgs : mtype[m] = "lmsg" /\ m \notin defunct /\ content[m] = k}

Promised(k) == IF distmsg # NoMsg /\ content[distmsg] = k THEN left ELSE 0

MsgStart ==
  /\ mtype = [m \in Msgs |-> "none"]
  /\ shared = [m \in Msgs |-> FALSE]
  /\ content = [m \in Msgs |-> NoContent]
  /\ allocated = {} /\ dying = {}
  /\ refcnt = [k \in Contents |-> 0]
  /\ defunct = {}
  /\ distmsg = NoMsg /\ left = 0
-----------------------------------------------------------------------------
\* The handle becomes one without content of its own.
Plain(m, t) ==
  /\ mtype' = [mtype EXCEPT ![m] = t]
  /\ shared' = [shared EXCEPT ![m] = FALSE]
  /\ content' = [content EXCEPT ![m] = NoContent]
  /\ defunct' = defunct \ {m}

init(m) ==
  /\ Raw(m)
  /\ Plain(m, "vsm")
  /\ UNCHANGED <<allocated, dying, refcnt, distmsg, left>>

init_delimiter(m) ==
  /\ Raw(m)
  /\ Plain(m, "delimiter")
  /\ UNCHANGED <<allocated, dying, refcnt, distmsg, left>>

\* malloc of a content_t, in init_size and in init_data.  The type is set
\* before malloc is tried: when it fails (ENOMEM) a handle that check ()
\* accepts is left with no content.
AllocateContent(m) ==
  /\ mtype' = [mtype EXCEPT ![m] = "lmsg"]
  /\ shared' = [shared EXCEPT ![m] = FALSE]
  /\ \/ \E k \in Contents \ allocated :
          /\ content' = [content EXCEPT ![m] = k]
          /\ allocated' = allocated \cup {k}
          /\ refcnt' = [refcnt EXCEPT ![k] = 0]
          /\ defunct' = defunct \ {m}
     \/ /\ content' = [content EXCEPT ![m] = NoContent]
        /\ defunct' = defunct \cup {m}
        /\ UNCHANGED <<allocated, refcnt>>
  /\ UNCHANGED <<dying, distmsg, left>>

\* Up to max_vsm_size bytes are kept in the handle.
init_size(m) ==
  /\ Raw(m)
  /\ \/ Plain(m, "vsm") /\ UNCHANGED <<allocated, dying, refcnt, distmsg, left>>
     \/ AllocateContent(m)

\* Without a free function the message is constant.
init_data(m) ==
  /\ Raw(m)
  /\ \/ Plain(m, "cmsg") /\ UNCHANGED <<allocated, dying, refcnt, distmsg, left>>
     \/ AllocateContent(m)
-----------------------------------------------------------------------------
\* refcnt.sub (n): the counter after it.
sub(k, n) == refcnt[k] - n

\* What close does to the content of m: nothing unless it is long; without
\* `shared' the counter is not looked at.
LastReference(m) ==
  mtype[m] = "lmsg" /\ (shared[m] => sub(content[m], 1) = 0)

\* Mutant: a handle without `shared' is counted like the others.
Released_CountAlways(m) ==
  IF mtype[m] = "lmsg" THEN [refcnt EXCEPT ![content[m]] = sub(content[m], 1)] ELSE refcnt

Released(m) ==
  IF mtype[m] = "lmsg" /\ shared[m]
    THEN [refcnt EXCEPT ![content[m]] = sub(content[m], 1)]
    ELSE refcnt

Dying(m) == IF LastReference(m) THEN dying \cup {content[m]} ELSE dying

\* The message being distributed is not closed before its copies are made.
close(m) ==
  /\ Usable(m) /\ m # distmsg
  /\ dying' = Dying(m)
  /\ refcnt' = Released(m)
  /\ mtype' = [mtype EXCEPT ![m] = "none"]
  /\ UNCHANGED <<shared, content, allocated, defunct, distmsg, left>>

\* ffn, if there is one, and free.
free(k) ==
  /\ k \in dying
  /\ dying' = dying \ {k}
  /\ allocated' = allocated \ {k}
  /\ UNCHANGED <<mtype, shared, content, refcnt, defunct, distmsg, left>>

\* Close the target, take over the source's fields, make the source empty.
move(m, src) ==
  /\ m # src /\ Usable(src) /\ Usable(m) /\ distmsg \notin {m, src}
  /\ dying' = Dying(m)
  /\ refcnt' = Released(m)
  /\ mtype' = [mtype EXCEPT ![m] = mtype[src], ![src] = "vsm"]
  /\ shared' = [shared EXCEPT ![m] = shared[src], ![src] = FALSE]
  /\ content' = [content EXCEPT ![m] = content[src], ![src] = NoContent]
  /\ UNCHANGED <<allocated, defunct, distmsg, left>>

\* Close the target, then count one more reference to the source's content:
\* the first copy sets the counter to 2 and the flag in both handles.
copy(m, src) ==
  /\ m # src /\ Usable(src) /\ Usable(m) /\ m # distmsg
  /\ dying' = Dying(m)
  /\ mtype' = [mtype EXCEPT ![m] = mtype[src]]
  /\ content' = [content EXCEPT ![m] = content[src]]
  /\ IF mtype[src] = "lmsg"
       THEN /\ refcnt' = [Released(m) EXCEPT ![content[src]] =
                            IF shared[src] THEN Released(m)[content[src]] + 1 ELSE 2]
            /\ shared' = [shared EXCEPT ![src] = TRUE, ![m] = TRUE]
       ELSE /\ refcnt' = Released(m)
            /\ shared' = [shared EXCEPT ![m] = shared[src]]
  /\ UNCHANGED <<allocated, defunct, distmsg, left>>
-----------------------------------------------------------------------------
(* A message written to several pipes: add_refs for the copies, POD-style  *)
(* copies, rm_refs for the writes that failed.                             *)

add_refs(m, refs) ==
  /\ distmsg = NoMsg
  /\ Usable(m) /\ mtype[m] = "lmsg"
  /\ refs > 0
  /\ refcnt' = [refcnt EXCEPT ![content[m]] =
                  IF shared[m] THEN refcnt[content[m]] + refs ELSE refs + 1]
  /\ shared' = [shared EXCEPT ![m] = TRUE]
  /\ distmsg' = m /\ left' = refs
  /\ UNCHANGED <<mtype, content, allocated, dying, defunct>>

\* The caller's assignment of one handle to another.
PodCopy(m) ==
  /\ distmsg # NoMsg /\ left > 0
  /\ Raw(m)
  /\ mtype' = [mtype EXCEPT ![m] = "lmsg"]
  /\ shared' = [shared EXCEPT ![m] = TRUE]
  /\ content' = [content EXCEPT ![m] = content[distmsg]]
  /\ defunct' = defunct \ {m}
  /\ left' = left - 1
  /\ distmsg' = IF left = 1 THEN NoMsg ELSE distmsg
  /\ UNCHANGED <<allocated, dying, refcnt>>

\* The copies that could not be made, and with left + 1 the caller's own
\* reference as well.  rm_refs frees the content when the counter drops to
\* zero but, unlike close, leaves the handle's type valid.
rm_refs(refs) ==
  /\ distmsg # NoMsg
  /\ refs > 0 /\ refs <= left + 1
  /\ LET k == content[distmsg]
     IN /\ refcnt' = [refcnt EXCEPT ![k] = sub(k, refs)]
        /\ dying' = IF sub(k, refs) = 0 THEN dying \cup {k} ELSE dying
  /\ defunct' = IF refs = left + 1 THEN defunct \cup {distmsg} ELSE defunct
  /\ left' = IF refs >= left THEN 0 ELSE left - refs
  /\ distmsg' = IF refs >= left THEN NoMsg ELSE distmsg
  /\ UNCHANGED <<mtype, shared, content, allocated>>
-----------------------------------------------------------------------------
MsgNext ==
  \/ \E m \in Msgs :
       \/ init(m) \/ init_delimiter(m) \/ init_size(m) \/ init_data(m)
       \/ close(m) \/ PodCopy(m)
       \/ \E src \in Msgs : move(m, src) \/ copy(m, src)
       \/ \E refs \in 1 .. MaxRefs : add_refs(m, refs)
  \/ \E refs \in 1 .. MaxRefs + 1 : rm_refs(refs)
  \/ \E k \in Contents : free(k)

MsgSpec == MsgStart /\ [][MsgNext]_MsgVars
-----------------------------------------------------------------------------
(* Properties.                                                             *)

MsgTypeOK ==
  /\ mtype \in [Msgs -> Types] /\ shared \in [Msgs -> BOOLEAN]
  /\ content \in [Msgs -> Contents \cup {NoContent}]
  /\ allocated \in SUBSET Contents /\ dying \in SUBSET allocated
  /\ refcnt \in [Contents -> Nat]
  /\ defunct \in SUBSET Msgs
  /\ distmsg \in Msgs \cup {NoMsg} /\ left \in Nat

\* A content is allocated, and not about to be freed, exactly as long as a
\* handle holds it: close, move, copy and rm_refs neither free what another
\* thread's handle still points at nor forget the last reference.
ContentOwned ==
  \A k \in Contents : k \in allocated \ dying <=> Holders(k) # {}

\* The counter is exact where it is used: a handle without `shared' is the
\* only one of its content; with it, refcnt counts the handles and the copies
\* add_refs has promised.
CountExact ==
  \A k \in Contents : \A m \in Holders(k) :
    /\ shared[m] => refcnt[k] = Cardinality(Holders(k)) + Promised(k)
    /\ ~shared[m] => Holders(k) = {m}

\* A long message its owner may use has a content.
HasContent == \A m \in Msgs : mtype[m] = "lmsg" /\ m \notin defunct => content[m] \in Contents

\* add_refs was called for a long, shared message that is still held.
Distributing ==
  /\ distmsg # NoMsg => /\ mtype[distmsg] = "lmsg" /\ distmsg \notin defunct
                        /\ shared[distmsg] /\ left > 0
  /\ distmsg = NoMsg => left = 0

\* The inductive invariant of the reference counts.
MsgInv == MsgTypeOK /\ ContentOwned /\ CountExact /\ HasContent /\ Distributing
=============================================================================
