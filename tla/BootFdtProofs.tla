---------------------------- MODULE BootFdtProofs ----------------------------
(* The tree the kernel gets, for every tree dtc writes: the edits of         *)
(* boot_v2_bootimg have room, and do to the tree's meaning what they say.    *)
EXTENDS BootFdt, FdtProofs

\* A tag's place after an exchange of old bytes at lo, d bytes fewer than new
\* ones.
Stays(t, lo, old) == t.off < lo \/ lo + old <= t.off
Mv(t, lo, d)      == IF t.off < lo THEN t ELSE MoveTag(t, d)

\* It is the same tag but for its offset.
LEMMA MvIs ==
  ASSUME NEW t, NEW lo, NEW d
  PROVE  /\ Mv(t, lo, d).tag = t.tag /\ Mv(t, lo, d).path = t.path
         /\ Mv(t, lo, d).off = IF t.off < lo THEN t.off ELSE t.off + d
  BY DEF Mv, MoveTag

\* What an exchange of tags says of the tags that stay.
MovedOrNew(T, U, lo, old, d, x) ==
    /\ \A t \in T : Stays(t, lo, old) => Mv(t, lo, d) \in U
    /\ x \in U
    /\ \A u \in U : \/ u = x
                    \/ \E t \in T : Stays(t, lo, old) /\ u = Mv(t, lo, d)

ExchangedFor(T, U, lo, old, d, x) == Exchanged(T, U, lo, old, d, {x})

\* An exchange for one tag moves those that stay.
LEMMA ExchangedOne ==
  ASSUME NEW T, NEW U, NEW lo \in Nat, NEW old \in Nat, NEW d, NEW x,
         ExchangedFor(T, U, lo, old, d, x), Apart(T)
  PROVE  MovedOrNew(T, U, lo, old, d, x)
<1>1. \A t \in T : t.off \in Nat
  BY DEF Apart
<1>2. /\ \A t \in T : t.off < lo => t \in U
      /\ \A t \in T : lo + old <= t.off => MoveTag(t, d) \in U
      /\ x \in U
      /\ \A u \in U : \/ u \in T /\ u.off < lo
                      \/ u = x
                      \/ \E t \in T : lo + old <= t.off /\ u = MoveTag(t, d)
  BY DEF ExchangedFor, Exchanged
<1>3. ASSUME NEW t \in T, Stays(t, lo, old)
      PROVE  Mv(t, lo, d) \in U
  <2>1. CASE t.off < lo
    BY <1>2, <2>1 DEF Mv
  <2>2. CASE ~(t.off < lo) /\ lo + old <= t.off
    BY <1>2, <2>2 DEF Mv
  <2> QED
    BY <1>3, <2>1, <2>2 DEF Stays
<1>4. ASSUME NEW u \in U
      PROVE  u = x \/ \E t \in T : Stays(t, lo, old) /\ u = Mv(t, lo, d)
  <2>1. CASE u \in T /\ u.off < lo
    BY <2>1 DEF Mv, Stays
  <2>2. CASE \E t \in T : lo + old <= t.off /\ u = MoveTag(t, d)
    <3>1. PICK t \in T : lo + old <= t.off /\ u = MoveTag(t, d)
      BY <2>2
    <3>2. ~(t.off < lo)
      BY <1>1, <3>1
    <3> QED
      BY <3>1, <3>2 DEF Mv, Stays
  <2> QED
    BY <1>2, <2>1, <2>2
<1> QED
  BY <1>2, <1>3, <1>4 DEF MovedOrNew

\* Tags that stay keep their order.
LEMMA MvOrder ==
  ASSUME NEW T, Apart(T), NEW lo \in Nat, NEW old \in Nat, NEW new \in Nat,
         NEW t \in T, Stays(t, lo, old), NEW u \in T, Stays(u, lo, old)
  PROVE  /\ Mv(t, lo, new - old).off \in Nat
         /\ Mv(t, lo, new - old).off < Mv(u, lo, new - old).off <=> t.off < u.off
         /\ Mv(t, lo, new - old).off < lo <=> t.off < lo
         /\ lo <= t.off => lo + new <= Mv(t, lo, new - old).off
<1> DEFINE x == t.off
           y == u.off
<1>1. x \in Nat /\ y \in Nat
  BY DEF Apart
<1>2. (x < lo \/ lo + old <= x) /\ (y < lo \/ lo + old <= y)
  BY DEF Stays
<1>3. /\ Mv(t, lo, new - old).off = IF x < lo THEN x ELSE x + (new - old)
      /\ Mv(u, lo, new - old).off = IF y < lo THEN y ELSE y + (new - old)
  BY MvIs
<1> HIDE DEF x, y
<1> QED
  BY <1>1, <1>2, <1>3 DEF x, y

\* Nothing but properties between two offsets.
InRun(T, o, x) ==
    \A u \in T : o < u.off /\ u.off < x => u.tag \in {FDT_PROP, FDT_NOP}

\* A node's properties follow it, with nothing else in between.
LEMMA PropertiesAre ==
  ASSUME NEW ts, NEW o
  PROVE  \A t : t \in Properties(ts, o) <=>
            t \in ToSet(ts) /\ t.tag = FDT_PROP /\ o < t.off
               /\ InRun(ToSet(ts), o, t.off)
  BY DEF Properties, InRun

\* A node is a tag that begins one.
LEMMA NodesAre ==
  ASSUME NEW ts
  PROVE  \A t : t \in Nodes(ts) <=> t \in ToSet(ts) /\ t.tag = FDT_BEGIN_NODE
  BY DEF Nodes

\* Offset lo, where old bytes of properties go, is among node N's properties.
PropPlace(T, N, lo, old) ==
    /\ N \in T /\ N.tag = FDT_BEGIN_NODE /\ N.off < lo /\ InRun(T, N.off, lo)
    /\ \E e \in T : /\ e.tag \in {FDT_BEGIN_NODE, FDT_PROP}
                    /\ e.next = lo + old /\ e.off < lo + old
    /\ \A t \in T : ~Stays(t, lo, old) => t.tag = FDT_PROP

\* One property for others: the node it belongs to is N, and no other.
LEMMA OnePlace ==
  ASSUME NEW T, Apart(T), NEW N, NEW lo \in Nat, NEW old \in Nat,
         PropPlace(T, N, lo, old), NEW n \in T, n.tag = FDT_BEGIN_NODE,
         n.off < lo, InRun(T, n.off, lo)
  PROVE  n = N
<1>1. /\ N \in T /\ N.tag = FDT_BEGIN_NODE /\ N.off < lo
      /\ InRun(T, N.off, lo) /\ n.off \in Nat /\ N.off \in Nat
  BY DEF PropPlace, Apart
<1>2. FDT_BEGIN_NODE \notin {FDT_PROP, FDT_NOP}
  BY DEF FDT_BEGIN_NODE, FDT_PROP, FDT_NOP
<1>3. ~(n.off < N.off)
  BY <1>1, <1>2 DEF InRun
<1>4. ~(N.off < n.off)
  BY <1>1, <1>2 DEF InRun
<1>5. n.off = N.off
  BY <1>1, <1>3, <1>4
<1> QED
  BY <1>1, <1>5 DEF Apart

\* Properties between two places stay between them.
LEMMA RunMoves ==
  ASSUME NEW T, Apart(T), NEW lo \in Nat, NEW old \in Nat, NEW new \in Nat,
         NEW N, PropPlace(T, N, lo, old), NEW x, x.tag = FDT_PROP, x.off = lo,
         NEW U, ExchangedFor(T, U, lo, old, new - old, x),
         NEW n \in T, Stays(n, lo, old), NEW q \in T, Stays(q, lo, old)
  PROVE  InRun(U, Mv(n, lo, new - old).off, Mv(q, lo, new - old).off)
            <=> InRun(T, n.off, q.off)
<1> DEFINE d == new - old
<1>1. /\ \A t \in T : Stays(t, lo, old) => Mv(t, lo, d) \in U
      /\ \A u \in U : \/ u = x
                      \/ \E t \in T : Stays(t, lo, old) /\ u = Mv(t, lo, d)
  <2>1. d = new - old
    OBVIOUS
  <2> HIDE DEF d
  <2>2. MovedOrNew(T, U, lo, old, d, x)
    BY <2>1, ExchangedOne
  <2> QED
    BY <2>2 DEF MovedOrNew
<1>2. \A t, u \in T : Stays(t, lo, old) /\ Stays(u, lo, old) =>
          (Mv(t, lo, d).off < Mv(u, lo, d).off <=> t.off < u.off)
  BY MvOrder
<1>3. \A t : Mv(t, lo, d).tag = t.tag
  BY MvIs
<1>4. \A t \in T : ~Stays(t, lo, old) => t.tag = FDT_PROP
  BY DEF PropPlace
<1> HIDE DEF d
<1>5. ASSUME InRun(T, n.off, q.off)
      PROVE  InRun(U, Mv(n, lo, d).off, Mv(q, lo, d).off)
  <2> SUFFICES ASSUME NEW u \in U, Mv(n, lo, d).off < u.off,
                      u.off < Mv(q, lo, d).off
               PROVE  u.tag \in {FDT_PROP, FDT_NOP}
    BY DEF InRun
  <2>1. CASE u = x
    BY <2>1
  <2>2. CASE \E t \in T : Stays(t, lo, old) /\ u = Mv(t, lo, d)
    <3>1. PICK t \in T : Stays(t, lo, old) /\ u = Mv(t, lo, d)
      BY <2>2
    <3>2. n.off < t.off /\ t.off < q.off
      BY <1>2, <3>1
    <3>3. t.tag \in {FDT_PROP, FDT_NOP}
      BY <1>5, <3>2 DEF InRun
    <3> QED
      BY <1>3, <3>1, <3>3
  <2> QED
    BY <1>1, <2>1, <2>2
<1>6. ASSUME InRun(U, Mv(n, lo, d).off, Mv(q, lo, d).off)
      PROVE  InRun(T, n.off, q.off)
  <2> SUFFICES ASSUME NEW t \in T, n.off < t.off, t.off < q.off
               PROVE  t.tag \in {FDT_PROP, FDT_NOP}
    BY DEF InRun
  <2>1. CASE ~Stays(t, lo, old)
    BY <1>4, <2>1
  <2>2. CASE Stays(t, lo, old)
    <3>1. /\ Mv(n, lo, d).off < Mv(t, lo, d).off
          /\ Mv(t, lo, d).off < Mv(q, lo, d).off /\ Mv(t, lo, d) \in U
      BY <1>1, <1>2, <2>2
    <3>2. Mv(t, lo, d).tag \in {FDT_PROP, FDT_NOP}
      BY <1>6, <3>1 DEF InRun
    <3> QED
      BY <1>3, <3>2
  <2> QED
    BY <2>1, <2>2
<1> QED
  BY <1>5, <1>6 DEF d

\* The nodes after an edit of one property: the same, further on.  Their
\* properties as well, but for the new one, that is N's.
PropEdited(ts, us, lo, old, d, N, x) ==
    /\ \A n \in Nodes(ts) : Stays(n, lo, old) /\ Mv(n, lo, d) \in Nodes(us)
    /\ \A u \in Nodes(us) : \E n \in Nodes(ts) : u = Mv(n, lo, d)
    /\ \A n \in Nodes(ts) : \A p :
          p \in Properties(us, Mv(n, lo, d).off) <=>
             \/ p = x /\ n = N
             \/ \E q \in Properties(ts, n.off) : /\ Stays(q, lo, old)
                                                 /\ p = Mv(q, lo, d)

\* An edit of one property changes the properties of its node only.
LEMMA PropEdit ==
  ASSUME NEW ts, NEW us, Apart(ToSet(ts)),
         NEW lo \in Nat, NEW old \in Nat, NEW new \in Nat, new > 0,
         NEW N, PropPlace(ToSet(ts), N, lo, old),
         NEW x, x.tag = FDT_PROP, x.off = lo,
         ExchangedFor(ToSet(ts), ToSet(us), lo, old, new - old, x)
  PROVE  PropEdited(ts, us, lo, old, new - old, N, x)
<1> DEFINE d == new - old
           T == ToSet(ts)
           U == ToSet(us)
<1>0. FDT_BEGIN_NODE # FDT_PROP /\ FDT_PROP # FDT_NOP
      /\ FDT_BEGIN_NODE # FDT_NOP
  BY DEF FDT_BEGIN_NODE, FDT_PROP, FDT_NOP
<1>1. /\ \A t \in T : Stays(t, lo, old) => Mv(t, lo, d) \in U
      /\ x \in U
      /\ \A u \in U : \/ u = x
                      \/ \E t \in T : Stays(t, lo, old) /\ u = Mv(t, lo, d)
  <2>1. d = new - old
    OBVIOUS
  <2> HIDE DEF d
  <2>2. MovedOrNew(T, U, lo, old, d, x)
    BY <2>1, ExchangedOne
  <2> QED
    BY <2>2 DEF MovedOrNew
<1>2. \A t, u \in T : Stays(t, lo, old) /\ Stays(u, lo, old) =>
         /\ Mv(t, lo, d).off \in Nat
         /\ Mv(t, lo, d).off < Mv(u, lo, d).off <=> t.off < u.off
         /\ Mv(t, lo, d).off < lo <=> t.off < lo
  BY MvOrder
<1>3. \A t : Mv(t, lo, d).tag = t.tag
  BY MvIs
<1>4. \A t \in T : t.off \in Nat
  BY DEF Apart
<1>5. \A t \in T : ~Stays(t, lo, old) => t.tag = FDT_PROP
  BY DEF PropPlace
<1>6. ASSUME NEW n \in T, NEW q \in T, Stays(n, lo, old), Stays(q, lo, old)
      PROVE  InRun(U, Mv(n, lo, d).off, Mv(q, lo, d).off)
                <=> InRun(T, n.off, q.off)
  BY <1>6, RunMoves
<1>7. ASSUME NEW n \in T, n.tag = FDT_BEGIN_NODE, Stays(n, lo, old), n.off < lo
      PROVE  InRun(U, Mv(n, lo, d).off, lo) <=> InRun(T, n.off, lo)
  <2>1. Mv(n, lo, d).off = n.off
    BY <1>7, MvIs
  <2>2. ASSUME InRun(T, n.off, lo), NEW u \in U, n.off < u.off, u.off < lo
        PROVE  u.tag \in {FDT_PROP, FDT_NOP}
    <3>1. u # x
      BY <2>2
    <3>2. PICK t \in T : Stays(t, lo, old) /\ u = Mv(t, lo, d)
      BY <1>1, <3>1
    <3>3. t.off < lo
      BY <1>2, <2>2, <3>2
    <3>4. u = t
      BY <3>2, <3>3 DEF Mv
    <3> QED
      BY <2>2, <3>4 DEF InRun
  <2>3. ASSUME InRun(U, n.off, lo), NEW t \in T, n.off < t.off, t.off < lo
        PROVE  t.tag \in {FDT_PROP, FDT_NOP}
    <3>1. Stays(t, lo, old) /\ Mv(t, lo, d) = t
      BY <2>3 DEF Stays, Mv
    <3>2. t \in U
      BY <1>1, <3>1
    <3> QED
      BY <2>3, <3>2 DEF InRun
  <2> QED
    BY <2>1, <2>2, <2>3 DEF InRun
<1> HIDE DEF d, T, U
<1>8. ASSUME NEW n \in Nodes(ts)
      PROVE  /\ n \in T /\ n.tag = FDT_BEGIN_NODE /\ Stays(n, lo, old)
             /\ Mv(n, lo, d) \in Nodes(us)
  <2>1. n \in T /\ n.tag = FDT_BEGIN_NODE
    BY NodesAre DEF T
  <2>2. Stays(n, lo, old)
    BY <1>0, <1>5, <2>1
  <2>3. Mv(n, lo, d) \in U /\ Mv(n, lo, d).tag = FDT_BEGIN_NODE
    BY <1>1, <1>3, <2>1, <2>2
  <2> QED
    BY <2>1, <2>2, <2>3, NodesAre DEF U
<1>9. ASSUME NEW u \in Nodes(us)
      PROVE  \E n \in Nodes(ts) : u = Mv(n, lo, d)
  <2>1. u \in U /\ u.tag = FDT_BEGIN_NODE
    BY NodesAre DEF U
  <2>2. u # x
    BY <1>0, <2>1
  <2>3. PICK t \in T : Stays(t, lo, old) /\ u = Mv(t, lo, d)
    BY <1>1, <2>1, <2>2
  <2>4. t.tag = FDT_BEGIN_NODE
    BY <1>3, <2>1, <2>3
  <2> QED
    BY <2>3, <2>4, NodesAre DEF T
<1>10. ASSUME NEW n \in Nodes(ts), NEW p
       PROVE  p \in Properties(us, Mv(n, lo, d).off) <=>
                 \/ p = x /\ n = N
                 \/ \E q \in Properties(ts, n.off) : /\ Stays(q, lo, old)
                                                     /\ p = Mv(q, lo, d)
  <2>1. n \in T /\ n.tag = FDT_BEGIN_NODE /\ Stays(n, lo, old)
    BY <1>8
  <2> DEFINE o == Mv(n, lo, d).off
  <2>2. p \in Properties(us, o) <=>
           p \in U /\ p.tag = FDT_PROP /\ o < p.off /\ InRun(U, o, p.off)
    BY PropertiesAre DEF U
  <2>3. \A q : q \in Properties(ts, n.off) <=>
           q \in T /\ q.tag = FDT_PROP /\ n.off < q.off /\ InRun(T, n.off, q.off)
    BY PropertiesAre DEF T
  <2>4. ASSUME NEW q \in T, Stays(q, lo, old)
        PROVE  Mv(q, lo, d) \in Properties(us, o) <=> q \in Properties(ts, n.off)
    <3>1. /\ Mv(q, lo, d) \in U /\ Mv(q, lo, d).tag = q.tag
          /\ o < Mv(q, lo, d).off <=> n.off < q.off
          /\ InRun(U, o, Mv(q, lo, d).off) <=> InRun(T, n.off, q.off)
      BY <1>1, <1>2, <1>3, <1>6, <2>1, <2>4
    <3>2. \A r : r \in Properties(us, o) <=>
           r \in U /\ r.tag = FDT_PROP /\ o < r.off /\ InRun(U, o, r.off)
      BY PropertiesAre DEF U
    <3> QED
      BY <2>3, <3>1, <3>2
  <2>5. x \in Properties(us, o) <=> n = N
    <3>1. x \in Properties(us, o) <=>
             x \in U /\ x.tag = FDT_PROP /\ o < x.off /\ InRun(U, o, x.off)
      BY PropertiesAre DEF U
    <3>2. x \in Properties(us, o) <=> o < lo /\ InRun(U, o, lo)
      BY <1>1, <3>1
    <3>3. x \in Properties(us, o) <=> n.off < lo /\ InRun(T, n.off, lo)
      BY <1>2, <1>7, <2>1, <3>2
    <3>4. n.off < lo /\ InRun(T, n.off, lo) => n = N
      BY <2>1, OnePlace DEF T
    <3>5. n = N => n.off < lo /\ InRun(T, n.off, lo)
      BY DEF PropPlace, T
    <3> QED
      BY <3>3, <3>4, <3>5
  <2> HIDE DEF o
  <2>6. p \in Properties(us, o) =>
           \/ p = x
           \/ \E q \in T : Stays(q, lo, old) /\ p = Mv(q, lo, d)
    BY <1>1, <2>2
  <2>7. \A q : q \in Properties(ts, n.off) => q \in T
    BY <2>3
  <2> QED
    BY <2>4, <2>5, <2>6, <2>7 DEF o
<1> QED
  BY <1>8, <1>9, <1>10 DEF PropEdited, d

------------------------------------------------------------------------------
\* Tags of one tree of distinct nodes.
Shaped(ts) ==
    /\ Apart(ToSet(ts)) /\ \A t \in ToSet(ts) : t.off + 4 <= t.next
    /\ \E r \in ToSet(ts) : /\ r.tag = FDT_BEGIN_NODE /\ r.off = 0
                            /\ Len(r.path) = 1
    /\ OneRoot(ts)

\* The root's children are the nodes two names deep.
LEMMA RootChildren ==
  ASSUME NEW ts, Shaped(ts)
  PROVE  \A t : t \in Subnodes(ts, 0) <=>
            t \in ToSet(ts) /\ t.tag = FDT_BEGIN_NODE /\ Len(t.path) = 2
<1> DEFINE T == ToSet(ts)
           depth == Len(NodeAt(ts, 0).path)
           closes == {t \in T : /\ t.tag = FDT_END_NODE /\ t.off > 0
                                /\ Len(t.path) = depth}
<1>0. FDT_BEGIN_NODE # FDT_END_NODE /\ FDT_BEGIN_NODE # FDT_END
  BY DEF FDT_BEGIN_NODE, FDT_END_NODE, FDT_END
<1>1. PICK r \in T : r.tag = FDT_BEGIN_NODE /\ r.off = 0 /\ Len(r.path) = 1
  BY DEF Shaped
<1>2. \A t \in T : t.off = 0 => t = r
  BY <1>1 DEF Shaped, Apart
<1>3. NodeAt(ts, 0) = r
  <2>1. r \in Nodes(ts)
    BY <1>1 DEF Nodes
  <2>2. \A t \in Nodes(ts) : t.off = 0 => t = r
    BY <1>2 DEF Nodes
  <2> QED
    BY <1>1, <2>1, <2>2 DEF NodeAt
<1>4. PICK close \in T :
          /\ close.tag = FDT_END_NODE /\ Len(close.path) = 1
          /\ \A t \in T :
                 /\ t.off > close.off => t.tag = FDT_END
                 /\ Len(t.path) = 1 => /\ t.tag = FDT_BEGIN_NODE => t.off = 0
                                       /\ t.tag = FDT_END_NODE => t = close
  BY DEF Shaped, OneRoot
<1>5. \A t \in T : t.off \in Nat /\ t.next \in Int /\ t.off + 4 <= t.next
  BY DEF Shaped, Apart
<1>6. closes = {close}
  <2>1. close.off > 0
    BY <1>0, <1>1, <1>2, <1>4, <1>5
  <2> QED
    BY <1>1, <1>3, <1>4, <2>1
<1>7. fdt_node_end_offset_(ts, 0) = close.next
  <2>1. {t.next : t \in closes} = {close.next}
    BY <1>6
  <2>2. Min({close.next}) = close.next
    <3> DEFINE S == {close.next}
    <3>1. S \subseteq Int /\ close.next \in S
      BY <1>5
    <3>2. \A k \in S : close.next <= k
      BY <1>5
    <3> HIDE DEF S
    <3>3. Min(S) = close.next
      BY <3>1, <3>2, MinIs
    <3> QED
      BY <3>3 DEF S
  <2>3. fdt_node_end_offset_(ts, 0) = Min({t.next : t \in closes})
    BY DEF fdt_node_end_offset_
  <2> HIDE DEF closes
  <2> QED
    BY <2>1, <2>2, <2>3
<1>8. \A t : t \in Subnodes(ts, 0) <=>
         /\ t \in T /\ t.tag = FDT_BEGIN_NODE
         /\ 0 < t.off /\ t.off < close.next /\ Len(t.path) = 1 + 1
  BY <1>1, <1>3, <1>7 DEF Subnodes, Nodes
<1>9. ASSUME NEW t \in T, t.tag = FDT_BEGIN_NODE, Len(t.path) = 2
      PROVE  0 < t.off /\ t.off < close.next
  <2>1. t.off # 0
    BY <1>1, <1>2, <1>9
  <2>2. ~(t.off > close.off)
    BY <1>0, <1>4, <1>9
  <2> QED
    BY <1>4, <1>5, <2>1, <2>2
<1> QED
  BY <1>8, <1>9

\* A child of the root that goes by the name of /chosen, and the first one.
Called(T, t) == /\ t \in T /\ t.tag = FDT_BEGIN_NODE /\ Len(t.path) = 2
                /\ fdt_nodename_eq_(Last(t.path), ChosenName)

IsChosen(T, n) == Called(T, n) /\ \A t \in T : Called(T, t) => n.off <= t.off

\* fdt_path_offset finds the first of them, if there is one (fdt_ro.c:251-303).
LEMMA PathOffset ==
  ASSUME NEW ts, Shaped(ts)
  PROVE  \/ /\ fdt_path_offset(ts, <<ChosenName>>) = -1
            /\ \A t \in ToSet(ts) : ~Called(ToSet(ts), t)
         \/ \E n \in ToSet(ts) : /\ IsChosen(ToSet(ts), n)
                                 /\ fdt_path_offset(ts, <<ChosenName>>) = n.off
<1> DEFINE T == ToSet(ts)
           found == {t \in Subnodes(ts, 0) :
                         fdt_nodename_eq_(Last(t.path), ChosenName)}
           offs == {t.off : t \in found}
<1>1. fdt_path_offset(ts, <<ChosenName>>) = fdt_subnode_offset(ts, 0, ChosenName)
  <2> DEFINE f == [n \in 0 .. 1 |->
                     IF n = 0 THEN 0
                     ELSE fdt_subnode_offset(ts, 0, ChosenName)]
             R(g) == [n \in 0 .. Len(<<ChosenName>>) |->
                        IF n = 0 THEN 0
                        ELSE IF g[n - 1] < 0 THEN g[n - 1]
                        ELSE fdt_subnode_offset(ts, g[n - 1],
                                                <<ChosenName>>[n])]
             g == CHOOSE g : g = R(g)
  <2>1. Len(<<ChosenName>>) = 1 /\ <<ChosenName>>[1] = ChosenName
    OBVIOUS
  <2>2. f = R(f)
    <3>1. \A n \in 0 .. 1 : R(f)[n] = f[n]
      BY <2>1
    <3>2. R(f) = [n \in 0 .. 1 |-> R(f)[n]]
      BY <2>1
    <3> QED
      BY <3>1, <3>2
  <2>3. g = R(g)
    <3> HIDE DEF f, R
    <3> QED
      BY <2>2
  <2>4. g[0] = 0 /\ g[1] = fdt_subnode_offset(ts, 0, ChosenName)
    <3>1. 0 \in 0 .. Len(<<ChosenName>>) /\ 1 \in 0 .. Len(<<ChosenName>>)
      BY <2>1
    <3>2. g[0] = 0
      BY <2>3, <3>1
    <3> HIDE DEF g
    <3>3. g[1] = IF g[1 - 1] < 0 THEN g[1 - 1]
                 ELSE fdt_subnode_offset(ts, g[1 - 1], <<ChosenName>>[1])
      BY <2>3, <3>1
    <3> QED
      BY <2>1, <3>2, <3>3
  <2>5. fdt_path_offset(ts, <<ChosenName>>) = g[Len(<<ChosenName>>)]
    BY DEF fdt_path_offset
  <2> HIDE DEF g
  <2> QED
    BY <2>1, <2>4, <2>5
<1>2. \A t : t \in found <=> Called(T, t)
  BY RootChildren DEF Called
<1>3. fdt_subnode_offset(ts, 0, ChosenName)
        = IF found = {} THEN -1 ELSE Min(offs)
  BY DEF fdt_subnode_offset
<1>4. \A t \in T : t.off \in Nat
  BY DEF Shaped, Apart
<1>5. CASE found = {}
  BY <1>1, <1>2, <1>3, <1>5
<1>6. CASE found # {}
  <2>1. offs \subseteq Nat /\ offs # {}
    BY <1>2, <1>4, <1>6 DEF Called
  <2>2. Min(offs) \in offs /\ \A k \in offs : Min(offs) <= k
    <3> HIDE DEF offs
    <3> QED
      BY <2>1, MinOf
  <2>3. PICK n \in found : Min(offs) = n.off
    BY <2>2
  <2>4. \A t \in found : t.off \in offs
    OBVIOUS
  <2>5. Called(T, n) /\ \A t \in T : Called(T, t) => n.off <= t.off
    <3> HIDE DEF offs, found
    <3> QED
      BY <1>2, <2>2, <2>3, <2>4
  <2>6. n \in T
    BY <2>5 DEF Called
  <2> QED
    BY <1>1, <1>3, <1>6, <2>3, <2>5, <2>6 DEF IsChosen
<1> QED
  BY <1>5, <1>6

\* After an edit of one property there is one root still.
LEMMA PropShaped ==
  ASSUME NEW ts, NEW us, Shaped(ts), Apart(ToSet(us)),
         \A u \in ToSet(us) : u.off + 4 <= u.next,
         NEW lo \in Nat, NEW old \in Nat, NEW new \in Nat, new > 0,
         NEW N, PropPlace(ToSet(ts), N, lo, old),
         NEW x, x.tag = FDT_PROP, x.off = lo,
         ExchangedFor(ToSet(ts), ToSet(us), lo, old, new - old, x)
  PROVE  Shaped(us)
<1> DEFINE d == new - old
           T == ToSet(ts)
           U == ToSet(us)
<1>0. /\ FDT_BEGIN_NODE # FDT_PROP /\ FDT_PROP # FDT_NOP /\ FDT_PROP # FDT_END
      /\ FDT_END_NODE # FDT_PROP /\ FDT_BEGIN_NODE # FDT_END
  BY DEF FDT_BEGIN_NODE, FDT_PROP, FDT_NOP, FDT_END, FDT_END_NODE
<1>1. /\ \A t \in T : Stays(t, lo, old) => Mv(t, lo, d) \in U
      /\ x \in U
      /\ \A u \in U : \/ u = x
                      \/ \E t \in T : Stays(t, lo, old) /\ u = Mv(t, lo, d)
  <2>0. Apart(T)
    BY DEF Shaped
  <2>1. d = new - old
    OBVIOUS
  <2> HIDE DEF d
  <2>2. MovedOrNew(T, U, lo, old, d, x)
    BY <2>0, <2>1, ExchangedOne
  <2> QED
    BY <2>2 DEF MovedOrNew
<1>2. \A t, u \in T : Stays(t, lo, old) /\ Stays(u, lo, old) =>
         /\ Mv(t, lo, d).off \in Nat
         /\ Mv(t, lo, d).off < Mv(u, lo, d).off <=> t.off < u.off
         /\ Mv(t, lo, d).off < lo <=> t.off < lo
         /\ lo <= t.off => lo + new <= Mv(t, lo, d).off
  <2>1. Apart(T)
    BY DEF Shaped
  <2> QED
    BY <2>1, MvOrder
<1>3. \A t : Mv(t, lo, d).tag = t.tag /\ Mv(t, lo, d).path = t.path
  BY MvIs
<1>4. \A t \in T : t.off \in Nat /\ t.next \in Int
  BY DEF Shaped, Apart
<1>5. \A t \in T : ~Stays(t, lo, old) => t.tag = FDT_PROP
  BY DEF PropPlace
<1>6. N \in T /\ N.tag = FDT_BEGIN_NODE /\ N.off < lo
  BY DEF PropPlace
<1>7. \E r \in U : r.tag = FDT_BEGIN_NODE /\ r.off = 0 /\ Len(r.path) = 1
  <2>1. PICK r \in T : r.tag = FDT_BEGIN_NODE /\ r.off = 0 /\ Len(r.path) = 1
    BY DEF Shaped
  <2>2. r.off < lo
    BY <1>4, <1>6, <2>1
  <2>3. Stays(r, lo, old) /\ Mv(r, lo, d) = r
    BY <2>2 DEF Stays, Mv
  <2> QED
    BY <1>1, <2>1, <2>3
<1>8. PICK close \in T :
          /\ close.tag = FDT_END_NODE /\ Len(close.path) = 1
          /\ \A t \in T :
                 /\ t.off > close.off => t.tag = FDT_END
                 /\ Len(t.path) = 1 => /\ t.tag = FDT_BEGIN_NODE => t.off = 0
                                       /\ t.tag = FDT_END_NODE => t = close
  BY DEF Shaped, OneRoot
<1>9. lo + old <= close.off
  <2>1. PICK e \in T : /\ e.tag \in {FDT_BEGIN_NODE, FDT_PROP}
                       /\ e.next = lo + old /\ e.off < lo + old
    BY DEF PropPlace
  <2>2. ~(e.off > close.off)
    BY <1>0, <1>8, <2>1
  <2>3. e # close
    <3>1. FDT_END_NODE \notin {FDT_BEGIN_NODE, FDT_PROP}
      BY DEF FDT_BEGIN_NODE, FDT_PROP, FDT_END_NODE
    <3> QED
      BY <1>8, <2>1, <3>1
  <2>4. e.off < close.off
    <3>1. e.off # close.off
      BY <2>3 DEF Shaped, Apart
    <3> QED
      BY <1>4, <2>2, <3>1
  <2>5. e.next <= close.off
    BY <2>4 DEF Shaped, Apart
  <2> QED
    BY <2>1, <2>5
<1> DEFINE shut == Mv(close, lo, d)
<1>10. Stays(close, lo, old)
  BY <1>9 DEF Stays
<1>11. shut \in U /\ shut.tag = FDT_END_NODE /\ Len(shut.path) = 1
  BY <1>1, <1>3, <1>8, <1>10
<1>12. ASSUME NEW u \in U
       PROVE  /\ u.off > shut.off => u.tag = FDT_END
              /\ Len(u.path) = 1 => /\ u.tag = FDT_BEGIN_NODE => u.off = 0
                                    /\ u.tag = FDT_END_NODE => u = shut
  <2>1. CASE u = x
    <3>1. lo + new <= shut.off /\ shut.off \in Nat
      <4>1. lo <= close.off
        BY <1>4, <1>9
      <4> QED
        BY <1>2, <1>10, <4>1
    <3>2. ~(u.off > shut.off)
      <4> DEFINE z == shut.off
      <4>1. u.off = lo
        BY <2>1
      <4> HIDE DEF z
      <4>2. z \in Nat /\ lo + new <= z
        BY <3>1 DEF z
      <4>3. ~(lo > z)
        BY <4>2
      <4> QED
        BY <4>1, <4>3 DEF z
    <3>3. u.tag = FDT_PROP
      BY <2>1
    <3> HIDE DEF shut
    <3> QED
      BY <1>0, <3>2, <3>3
  <2>2. CASE \E t \in T : Stays(t, lo, old) /\ u = Mv(t, lo, d)
    <3>1. PICK t \in T : Stays(t, lo, old) /\ u = Mv(t, lo, d)
      BY <2>2
    <3>2. u.off > shut.off => t.off > close.off
      BY <1>2, <1>10, <3>1
    <3>3. u.tag = t.tag /\ u.path = t.path
      BY <1>3, <3>1
    <3>4. t.off = 0 => u.off = 0
      BY <1>4, <1>6, <3>1, MvIs
    <3>5. t = close => u = shut
      BY <3>1
    <3> HIDE DEF shut
    <3> QED
      BY <1>8, <3>2, <3>3, <3>4, <3>5
  <2> QED
    BY <1>1, <2>1, <2>2
<1>13. OneRoot(us)
  <2> HIDE DEF shut
  <2> QED
    BY <1>11, <1>12 DEF OneRoot
<1> QED
  BY <1>7, <1>13 DEF Shaped

\* The node /chosen stays where it is when a property of its own is set.
LEMMA PropChosen ==
  ASSUME NEW ts, NEW us, Shaped(ts),
         NEW lo \in Nat, NEW old \in Nat, NEW new \in Nat, new > 0,
         NEW N, PropPlace(ToSet(ts), N, lo, old), IsChosen(ToSet(ts), N),
         NEW x, x.tag = FDT_PROP, x.off = lo,
         ExchangedFor(ToSet(ts), ToSet(us), lo, old, new - old, x)
  PROVE  IsChosen(ToSet(us), N)
<1> DEFINE d == new - old
           T == ToSet(ts)
           U == ToSet(us)
<1>0. Apart(T) /\ FDT_BEGIN_NODE # FDT_PROP
  BY DEF Shaped, FDT_BEGIN_NODE, FDT_PROP
<1>1. /\ \A t \in T : Stays(t, lo, old) => Mv(t, lo, d) \in U
      /\ \A u \in U : \/ u = x
                      \/ \E t \in T : Stays(t, lo, old) /\ u = Mv(t, lo, d)
  <2>1. d = new - old
    OBVIOUS
  <2> HIDE DEF d
  <2>2. MovedOrNew(T, U, lo, old, d, x)
    BY <1>0, <2>1, ExchangedOne
  <2> QED
    BY <2>2 DEF MovedOrNew
<1>2. N \in T /\ N.off < lo /\ Called(T, N)
  BY DEF PropPlace, IsChosen
<1>3. Stays(N, lo, old) /\ Mv(N, lo, d) = N
  BY <1>2 DEF Stays, Mv
<1>4. Called(U, N)
  BY <1>1, <1>2, <1>3 DEF Called
<1>5. ASSUME NEW u \in U, Called(U, u)
      PROVE  N.off <= u.off
  <2>1. u # x
    BY <1>0, <1>5 DEF Called
  <2>2. PICK t \in T : Stays(t, lo, old) /\ u = Mv(t, lo, d)
    BY <1>1, <2>1
  <2>3. Called(T, t)
    BY <1>5, <2>2, MvIs DEF Called
  <2>4. N.off <= t.off
    BY <2>3 DEF IsChosen
  <2>5. ~(u.off < N.off)
    <3>1. u.off < N.off <=> t.off < N.off
      BY <1>0, <1>2, <1>3, <2>2, MvOrder
    <3>2. t.off \in Nat /\ N.off \in Nat
      BY <1>0, <1>2 DEF Apart
    <3> QED
      BY <2>4, <3>1, <3>2
  <2>6. u.off \in Nat /\ N.off \in Nat
    BY <1>0, <1>2, <2>2, MvOrder DEF Apart
  <2> QED
    BY <2>5, <2>6
<1> QED
  BY <1>4, <1>5 DEF IsChosen

------------------------------------------------------------------------------
\* Offset lo is where the root's properties end.
NodePlace(T, lo) ==
    /\ lo > 0
    /\ \E v \in T : v.off = lo /\ v.tag \notin {FDT_PROP, FDT_NOP}
    /\ InRun(T, 0, lo)

\* Two tags stand at lo: those of a new node.
IsNewNode(B, E, lo, new) ==
    /\ B.tag = FDT_BEGIN_NODE /\ B.off = lo
    /\ E.tag = FDT_END_NODE /\ E.off \in Nat /\ lo < E.off /\ E.off < lo + new
    /\ E.path = B.path /\ Len(B.path) = 2

ExchangedPair(T, U, lo, d, B, E) == Exchanged(T, U, lo, 0, d, {B, E})

MovedOrPair(T, U, lo, d, B, E) ==
    /\ \A t \in T : t.off \in Nat
    /\ \A t \in T : Mv(t, lo, d) \in U
    /\ B \in U /\ E \in U
    /\ \A u \in U : \/ u = B
                    \/ u = E
                    \/ \E t \in T : u = Mv(t, lo, d)

\* An exchange for two tags moves all the others.
LEMMA ExchangedTwo ==
  ASSUME NEW T, NEW U, NEW lo \in Nat, NEW d, NEW B, NEW E,
         ExchangedPair(T, U, lo, d, B, E), Apart(T)
  PROVE  MovedOrPair(T, U, lo, d, B, E)
<1>1. \A t \in T : t.off \in Nat
  BY DEF Apart
<1>2. /\ \A t \in T : t.off < lo => t \in U
      /\ \A t \in T : lo <= t.off => MoveTag(t, d) \in U
      /\ B \in U /\ E \in U
      /\ \A u \in U : \/ u \in T /\ u.off < lo
                      \/ u = B
                      \/ u = E
                      \/ \E t \in T : lo <= t.off /\ u = MoveTag(t, d)
  <2>1. lo + 0 = lo
    OBVIOUS
  <2> QED
    BY <2>1 DEF ExchangedPair, Exchanged
<1>3. ASSUME NEW t \in T
      PROVE  Mv(t, lo, d) \in U
  <2>1. CASE t.off < lo
    BY <1>2, <2>1 DEF Mv
  <2>2. CASE ~(t.off < lo)
    <3>1. lo <= t.off
      BY <1>1, <2>2
    <3> QED
      BY <1>2, <2>2, <3>1 DEF Mv
  <2> QED
    BY <2>1, <2>2
<1>4. ASSUME NEW u \in U
      PROVE  u = B \/ u = E \/ \E t \in T : u = Mv(t, lo, d)
  <2>1. CASE u \in T /\ u.off < lo
    BY <2>1 DEF Mv
  <2>2. CASE \E t \in T : lo <= t.off /\ u = MoveTag(t, d)
    <3>1. PICK t \in T : lo <= t.off /\ u = MoveTag(t, d)
      BY <2>2
    <3>2. ~(t.off < lo)
      BY <1>1, <3>1
    <3> QED
      BY <3>1, <3>2 DEF Mv
  <2> QED
    BY <1>2, <2>1, <2>2
<1> QED
  BY <1>1, <1>2, <1>3, <1>4 DEF MovedOrPair

\* What stands before a new node stays, and what is behind it moves.
OrderKept(T, lo, new) ==
    \A t, u \in T :
        /\ Mv(t, lo, new).off \in Nat
        /\ Mv(t, lo, new).off < Mv(u, lo, new).off <=> t.off < u.off
        /\ Mv(t, lo, new).off < lo <=> t.off < lo
        /\ lo <= t.off => lo + new <= Mv(t, lo, new).off
        /\ Mv(t, lo, new).tag = t.tag /\ Mv(t, lo, new).path = t.path

\* Their order is kept.
LEMMA MvTwo ==
  ASSUME NEW T, Apart(T), NEW lo \in Nat, NEW new \in Nat
  PROVE  OrderKept(T, lo, new)
<1> SUFFICES ASSUME NEW t \in T, NEW u \in T
             PROVE  /\ Mv(t, lo, new).off \in Nat
                    /\ Mv(t, lo, new).off < Mv(u, lo, new).off
                          <=> t.off < u.off
                    /\ Mv(t, lo, new).off < lo <=> t.off < lo
                    /\ lo <= t.off => lo + new <= Mv(t, lo, new).off
                    /\ Mv(t, lo, new).tag = t.tag
                    /\ Mv(t, lo, new).path = t.path
  BY DEF OrderKept
<1>1. t.off \in Nat /\ u.off \in Nat
  BY DEF Apart
<1>2. /\ Mv(t, lo, new).off = IF t.off < lo THEN t.off ELSE t.off + new
      /\ Mv(u, lo, new).off = IF u.off < lo THEN u.off ELSE u.off + new
  BY MvIs
<1> DEFINE x == t.off
           y == u.off
           xx == Mv(t, lo, new).off
           yy == Mv(u, lo, new).off
<1>3. /\ xx \in Nat
      /\ xx < yy <=> x < y
      /\ xx < lo <=> x < lo
      /\ lo <= x => lo + new <= xx
  <2>1. /\ x \in Nat /\ y \in Nat /\ xx = IF x < lo THEN x ELSE x + new
        /\ yy = IF y < lo THEN y ELSE y + new
    BY <1>1, <1>2
  <2> HIDE DEF x, y, xx, yy
  <2> QED
    BY <2>1
<1>4. Mv(t, lo, new).tag = t.tag /\ Mv(t, lo, new).path = t.path
  BY MvIs
<1> QED
  BY <1>3, <1>4

\* The nodes after a new one: the same, further on, and the new one, that has
\* no properties.
NodeEdited(ts, us, lo, d, B) ==
    /\ B \in Nodes(us)
    /\ \A n \in Nodes(ts) : Mv(n, lo, d) \in Nodes(us)
    /\ \A u \in Nodes(us) : u = B \/ \E n \in Nodes(ts) : u = Mv(n, lo, d)
    /\ \A p : p \notin Properties(us, B.off)
    /\ \A n \in Nodes(ts) : \A p :
          p \in Properties(us, Mv(n, lo, d).off) <=>
             \E q \in Properties(ts, n.off) : p = Mv(q, lo, d)

\* A new node leaves the others with their properties.
LEMMA NodeEdit ==
  ASSUME NEW ts, NEW us, Shaped(ts), NEW lo \in Nat, NEW new \in Nat,
         NodePlace(ToSet(ts), lo), NEW B, NEW E, IsNewNode(B, E, lo, new),
         ExchangedPair(ToSet(ts), ToSet(us), lo, new, B, E)
  PROVE  NodeEdited(ts, us, lo, new, B)
<1> DEFINE T == ToSet(ts)
           U == ToSet(us)
<1>0. /\ FDT_BEGIN_NODE # FDT_END_NODE /\ FDT_BEGIN_NODE # FDT_PROP
      /\ FDT_END_NODE # FDT_PROP
      /\ FDT_BEGIN_NODE \notin {FDT_PROP, FDT_NOP}
      /\ FDT_END_NODE \notin {FDT_PROP, FDT_NOP}
  BY DEF FDT_BEGIN_NODE, FDT_END_NODE, FDT_PROP, FDT_NOP
<1>1. Apart(T)
  BY DEF Shaped
<1>2. /\ \A t \in T : t.off \in Nat
      /\ \A t \in T : Mv(t, lo, new) \in U
      /\ B \in U /\ E \in U
      /\ \A u \in U : u = B \/ u = E \/ \E t \in T : u = Mv(t, lo, new)
  <2>1. MovedOrPair(T, U, lo, new, B, E)
    BY <1>1, ExchangedTwo
  <2> QED
    BY <2>1 DEF MovedOrPair
<1>3. \A t, u \in T :
         /\ Mv(t, lo, new).off \in Nat
         /\ Mv(t, lo, new).off < Mv(u, lo, new).off <=> t.off < u.off
         /\ Mv(t, lo, new).off < lo <=> t.off < lo
         /\ lo <= t.off => lo + new <= Mv(t, lo, new).off
         /\ Mv(t, lo, new).tag = t.tag /\ Mv(t, lo, new).path = t.path
  <2>1. OrderKept(T, lo, new)
    BY <1>1, MvTwo
  <2> QED
    BY <2>1 DEF OrderKept
<1>4. /\ B.tag = FDT_BEGIN_NODE /\ B.off = lo /\ E.tag = FDT_END_NODE
      /\ E.off \in Nat /\ lo < E.off /\ E.off < lo + new
  BY DEF IsNewNode
<1>5. PICK v \in T : v.off = lo /\ v.tag \notin {FDT_PROP, FDT_NOP}
  BY DEF NodePlace
<1> HIDE DEF T, U
<1>6. ASSUME NEW n \in T, NEW q \in T, n.tag = FDT_BEGIN_NODE, q.tag = FDT_PROP,
             n.off < q.off
      PROVE  InRun(U, Mv(n, lo, new).off, Mv(q, lo, new).off)
                <=> InRun(T, n.off, q.off)
  <2>1. ASSUME InRun(U, Mv(n, lo, new).off, Mv(q, lo, new).off),
               NEW t \in T, n.off < t.off, t.off < q.off
        PROVE  t.tag \in {FDT_PROP, FDT_NOP}
    <3>1. /\ Mv(n, lo, new).off < Mv(t, lo, new).off
          /\ Mv(t, lo, new).off < Mv(q, lo, new).off
          /\ Mv(t, lo, new) \in U /\ Mv(t, lo, new).tag = t.tag
      BY <1>2, <1>3, <2>1
    <3> QED
      BY <2>1, <3>1 DEF InRun
  <2>2. CASE n.off < lo /\ lo <= q.off
    <3>1. ~InRun(T, n.off, q.off)
      <4>1. q # v
        BY <1>5, <1>6
      <4>2. q.off # lo
        BY <1>1, <1>5, <4>1 DEF Apart
      <4>3. lo < q.off
        BY <1>2, <2>2, <4>2
      <4> QED
        BY <1>5, <2>2, <4>3 DEF InRun
    <3> QED
      BY <2>1, <3>1 DEF InRun
  <2>3. CASE ~(n.off < lo /\ lo <= q.off)
    <3>1. ASSUME InRun(T, n.off, q.off), NEW u \in U,
                 Mv(n, lo, new).off < u.off, u.off < Mv(q, lo, new).off
          PROVE  u.tag \in {FDT_PROP, FDT_NOP}
      <4>1. CASE u = B \/ u = E
        <5>1. lo <= u.off /\ u.off < lo + new
          BY <1>4, <4>1
        <5> DEFINE x == n.off
                   y == q.off
                   xx == Mv(n, lo, new).off
                   yy == Mv(q, lo, new).off
                   z == u.off
        <5>2. /\ x \in Nat /\ y \in Nat /\ xx \in Nat /\ yy \in Nat
              /\ xx < lo <=> x < lo
              /\ yy < lo <=> y < lo
              /\ lo <= x => lo + new <= xx
              /\ xx < z /\ z < yy /\ ~(x < lo /\ lo <= y)
          BY <1>2, <1>3, <2>3, <3>1
        <5>3. z \in Int
          BY <1>4, <4>1
        <5> HIDE DEF x, y, xx, yy, z
        <5> QED
          BY <5>1, <5>2, <5>3 DEF z
      <4>2. CASE \E t \in T : u = Mv(t, lo, new)
        <5>1. PICK t \in T : u = Mv(t, lo, new)
          BY <4>2
        <5>2. n.off < t.off /\ t.off < q.off /\ u.tag = t.tag
          BY <1>3, <3>1, <5>1
        <5> QED
          BY <3>1, <5>2 DEF InRun
      <4> QED
        BY <1>2, <4>1, <4>2
    <3> QED
      BY <2>1, <3>1 DEF InRun
  <2> QED
    BY <2>2, <2>3
<1>7. B \in Nodes(us)
  BY <1>2, <1>4, NodesAre DEF U
<1>8. ASSUME NEW n \in Nodes(ts)
      PROVE  n \in T /\ n.tag = FDT_BEGIN_NODE /\ Mv(n, lo, new) \in Nodes(us)
  <2>1. n \in T /\ n.tag = FDT_BEGIN_NODE
    BY NodesAre DEF T
  <2>2. Mv(n, lo, new) \in U /\ Mv(n, lo, new).tag = FDT_BEGIN_NODE
    BY <1>2, <1>3, <2>1
  <2> QED
    BY <2>1, <2>2, NodesAre DEF U
<1>9. ASSUME NEW u \in Nodes(us), u # B
      PROVE  \E n \in Nodes(ts) : u = Mv(n, lo, new)
  <2>1. u \in U /\ u.tag = FDT_BEGIN_NODE
    BY NodesAre DEF U
  <2>2. PICK t \in T : u = Mv(t, lo, new)
    BY <1>0, <1>2, <1>4, <1>9, <2>1
  <2>3. t.tag = FDT_BEGIN_NODE
    BY <1>3, <2>1, <2>2
  <2> QED
    BY <2>2, <2>3, NodesAre DEF T
<1>10. ASSUME NEW n \in Nodes(ts), NEW p
       PROVE  p \in Properties(us, Mv(n, lo, new).off) <=>
                 \E q \in Properties(ts, n.off) : p = Mv(q, lo, new)
  <2>1. n \in T /\ n.tag = FDT_BEGIN_NODE
    BY <1>8
  <2> DEFINE o == Mv(n, lo, new).off
  <2>2. \A r : r \in Properties(us, o) <=>
           r \in U /\ r.tag = FDT_PROP /\ o < r.off /\ InRun(U, o, r.off)
    BY PropertiesAre DEF U
  <2>3. \A q : q \in Properties(ts, n.off) <=>
           q \in T /\ q.tag = FDT_PROP /\ n.off < q.off /\ InRun(T, n.off, q.off)
    BY PropertiesAre DEF T
  <2>4. ASSUME NEW q \in T
        PROVE  Mv(q, lo, new) \in Properties(us, o)
                  <=> q \in Properties(ts, n.off)
    <3>1. /\ Mv(q, lo, new) \in U /\ Mv(q, lo, new).tag = q.tag
          /\ o < Mv(q, lo, new).off <=> n.off < q.off
      BY <1>2, <1>3, <2>1
    <3>2. q.tag = FDT_PROP /\ n.off < q.off =>
             (InRun(U, o, Mv(q, lo, new).off) <=> InRun(T, n.off, q.off))
      BY <1>6, <2>1
    <3> QED
      BY <2>2, <2>3, <3>1, <3>2
  <2> HIDE DEF o
  <2>5. p \in Properties(us, o) => \E q \in T : p = Mv(q, lo, new)
    BY <1>0, <1>2, <1>4, <2>2
  <2>6. \A q : q \in Properties(ts, n.off) => q \in T
    BY <2>3
  <2> QED
    BY <2>4, <2>5, <2>6 DEF o
<1>11. ASSUME NEW p, p \in Properties(us, B.off)
       PROVE  FALSE
  <2>1. p \in U /\ p.tag = FDT_PROP /\ lo < p.off /\ InRun(U, lo, p.off)
    BY <1>4, <1>11, PropertiesAre DEF U
  <2>2. PICK t \in T : p = Mv(t, lo, new)
    BY <1>0, <1>2, <1>4, <2>1
  <2>3. lo + new <= p.off
    <3>1. p.off \in Nat /\ ~(p.off < lo)
      BY <1>3, <2>1, <2>2
    <3>2. lo <= t.off
      BY <1>2, <1>3, <2>2, <3>1
    <3> QED
      BY <1>3, <2>2, <3>2
  <2>4. E.off < p.off
    <3>1. p.off \in Nat /\ E.off \in Nat /\ E.off < lo + new
      BY <1>3, <1>4, <2>2
    <3> QED
      BY <2>3, <3>1
  <2> QED
    BY <1>0, <1>2, <1>4, <2>1, <2>4 DEF InRun
<1> QED
  BY <1>7, <1>8, <1>9, <1>10, <1>11 DEF NodeEdited

\* Behind a new child of the root there is one root still.
LEMMA NodeShaped ==
  ASSUME NEW ts, NEW us, Shaped(ts), Apart(ToSet(us)),
         \A u \in ToSet(us) : u.off + 4 <= u.next,
         NEW lo \in Nat, NEW new \in Nat,
         NodePlace(ToSet(ts), lo), NEW B, NEW E, IsNewNode(B, E, lo, new),
         ExchangedPair(ToSet(ts), ToSet(us), lo, new, B, E)
  PROVE  Shaped(us)
<1> DEFINE T == ToSet(ts)
           U == ToSet(us)
<1>0. /\ FDT_BEGIN_NODE # FDT_END /\ FDT_BEGIN_NODE # FDT_END_NODE
      /\ FDT_END_NODE \notin {FDT_PROP, FDT_NOP}
      /\ FDT_END_NODE # FDT_END
  BY DEF FDT_BEGIN_NODE, FDT_END, FDT_END_NODE, FDT_PROP, FDT_NOP
<1>1. Apart(T)
  BY DEF Shaped
<1>2. /\ \A t \in T : t.off \in Nat
      /\ \A t \in T : Mv(t, lo, new) \in U
      /\ \A u \in U : u = B \/ u = E \/ \E t \in T : u = Mv(t, lo, new)
  <2>1. MovedOrPair(T, U, lo, new, B, E)
    BY <1>1, ExchangedTwo
  <2> QED
    BY <2>1 DEF MovedOrPair
<1>3. \A t, u \in T :
         /\ Mv(t, lo, new).off \in Nat
         /\ Mv(t, lo, new).off < Mv(u, lo, new).off <=> t.off < u.off
         /\ Mv(t, lo, new).off < lo <=> t.off < lo
         /\ lo <= t.off => lo + new <= Mv(t, lo, new).off
         /\ Mv(t, lo, new).tag = t.tag /\ Mv(t, lo, new).path = t.path
  <2>1. OrderKept(T, lo, new)
    BY <1>1, MvTwo
  <2> QED
    BY <2>1 DEF OrderKept
<1>4. /\ B.tag = FDT_BEGIN_NODE /\ B.off = lo /\ E.tag = FDT_END_NODE
      /\ E.off \in Nat /\ lo < E.off /\ E.off < lo + new
      /\ E.path = B.path /\ Len(B.path) = 2
  BY DEF IsNewNode
<1>5. lo > 0 /\ InRun(T, 0, lo)
  BY DEF NodePlace
<1>6. PICK r \in T : r.tag = FDT_BEGIN_NODE /\ r.off = 0 /\ Len(r.path) = 1
  BY DEF Shaped
<1>7. PICK close \in T :
          /\ close.tag = FDT_END_NODE /\ Len(close.path) = 1
          /\ \A t \in T :
                 /\ t.off > close.off => t.tag = FDT_END
                 /\ Len(t.path) = 1 => /\ t.tag = FDT_BEGIN_NODE => t.off = 0
                                       /\ t.tag = FDT_END_NODE => t = close
  BY DEF Shaped, OneRoot
<1>8. lo <= close.off
  <2>1. close.off # 0
    BY <1>0, <1>1, <1>6, <1>7 DEF Apart
  <2>2. ~(0 < close.off /\ close.off < lo)
    BY <1>0, <1>5, <1>7 DEF InRun
  <2> QED
    BY <1>2, <2>1, <2>2
<1>9. \E q \in U : q.tag = FDT_BEGIN_NODE /\ q.off = 0 /\ Len(q.path) = 1
  <2>1. Mv(r, lo, new) = r
    BY <1>5, <1>6 DEF Mv
  <2> QED
    BY <1>2, <1>6, <2>1
<1> DEFINE shut == Mv(close, lo, new)
<1>10. /\ shut \in U /\ shut.tag = FDT_END_NODE /\ Len(shut.path) = 1
       /\ shut.off \in Nat /\ lo + new <= shut.off
  BY <1>2, <1>3, <1>7, <1>8
<1>11. ASSUME NEW u \in U
       PROVE  /\ u.off > shut.off => u.tag = FDT_END
              /\ Len(u.path) = 1 => /\ u.tag = FDT_BEGIN_NODE => u.off = 0
                                    /\ u.tag = FDT_END_NODE => u = shut
  <2>1. CASE u = B \/ u = E
    <3> DEFINE x == u.off
               z == shut.off
    <3>1. x \in Nat /\ x < lo + new /\ z \in Nat /\ lo + new <= z
      BY <1>4, <1>10, <2>1
    <3> HIDE DEF x, z
    <3>2. ~(x > z)
      BY <3>1
    <3>3. ~(u.off > shut.off)
      BY <3>2 DEF x, z
    <3>4. Len(u.path) # 1
      BY <1>4, <2>1
    <3> HIDE DEF shut
    <3> QED
      BY <3>3, <3>4
  <2>2. CASE \E t \in T : u = Mv(t, lo, new)
    <3>1. PICK t \in T : u = Mv(t, lo, new)
      BY <2>2
    <3>2. u.off > shut.off => t.off > close.off
      BY <1>3, <3>1
    <3>3. u.tag = t.tag /\ u.path = t.path
      BY <1>3, <3>1
    <3>4. t.off = 0 => u.off = 0
      BY <1>5, <3>1, MvIs
    <3>5. t = close => u = shut
      BY <3>1
    <3> HIDE DEF shut
    <3> QED
      BY <1>7, <3>2, <3>3, <3>4, <3>5
  <2> QED
    BY <1>2, <2>1, <2>2
<1>12. OneRoot(us)
  <2> HIDE DEF shut
  <2> QED
    BY <1>10, <1>11 DEF OneRoot
<1> QED
  BY <1>9, <1>12 DEF Shaped

\* The node made is the /chosen that is found.
LEMMA NodeChosen ==
  ASSUME NEW ts, NEW us, Shaped(ts), NEW lo \in Nat, NEW new \in Nat,
         NEW B, NEW E, IsNewNode(B, E, lo, new),
         ExchangedPair(ToSet(ts), ToSet(us), lo, new, B, E),
         Last(B.path) = ChosenName,
         \A t \in ToSet(ts) : ~Called(ToSet(ts), t)
  PROVE  IsChosen(ToSet(us), B)
<1> DEFINE T == ToSet(ts)
           U == ToSet(us)
<1>0. FDT_BEGIN_NODE # FDT_END_NODE
  BY DEF FDT_BEGIN_NODE, FDT_END_NODE
<1>1. /\ B \in U
      /\ \A u \in U : u = B \/ u = E \/ \E t \in T : u = Mv(t, lo, new)
  <2>1. Apart(T)
    BY DEF Shaped
  <2>2. MovedOrPair(T, U, lo, new, B, E)
    BY <2>1, ExchangedTwo
  <2> QED
    BY <2>2 DEF MovedOrPair
<1>2. fdt_nodename_eq_(ChosenName, ChosenName)
  <2>1. ChosenName \in Seq(Nat)
    BY DEF ChosenName
  <2>2. IsPrefix(ChosenName, ChosenName)
    BY <2>1 DEF IsPrefix
  <2> QED
    BY <2>2 DEF fdt_nodename_eq_
<1>3. Called(U, B)
  BY <1>1, <1>2 DEF Called, IsNewNode
<1>4. ASSUME NEW u \in U, Called(U, u)
      PROVE  u = B
  <2>1. u # E
    BY <1>0, <1>4 DEF Called, IsNewNode
  <2>2. ASSUME NEW t \in T, u = Mv(t, lo, new)
        PROVE  FALSE
    <3>1. u.tag = t.tag /\ u.path = t.path
      BY <2>2, MvIs
    <3> QED
      BY <1>4, <3>1 DEF Called
  <2> QED
    BY <1>1, <2>1, <2>2
<1>5. B.off <= B.off
  BY DEF IsNewNode
<1> QED
  BY <1>3, <1>4, <1>5 DEF IsChosen

------------------------------------------------------------------------------
\* Property r of c is property q of b.
PropKept(b, q, c, r) ==
    /\ PropLen(c, r) = PropLen(b, q) /\ PropData(c, r) = PropData(b, q)
    /\ PropName(c, r) = PropName(b, q) /\ PropertyWhole(c, r)

\* A property's bytes in another place are the same property.
LEMMA PropAlike ==
  ASSUME NEW b, Standing(b), NEW c, Standing(c), StringsKept(b, c),
         NEW q, NEW r, q.off \in Nat, r.off \in Nat, ValidTag(b, q.off),
         Byte(b, b.off_dt_struct + q.off) = FDT_PROP, PropertyWhole(b, q),
         c.off_dt_struct + r.off + TagSize(b, q.off) <= End(c),
         Alike(b, b.off_dt_struct + q.off, c, c.off_dt_struct + r.off,
               TagSize(b, q.off))
  PROVE  PropKept(b, q, c, r)
<1> DEFINE x == b.off_dt_struct + q.off
           y == c.off_dt_struct + r.off
           len == PropLen(b, q)
           off == PropNameOff(b, q)
           size == TagSize(b, q.off)
<1>1. Readable(b) /\ Readable(c)
  BY DEF Standing
<1>2. /\ b \in Blob /\ c \in Blob
      /\ b.off_dt_struct \in Nat /\ c.off_dt_struct \in Nat
      /\ HeaderSize <= b.off_dt_struct /\ HeaderSize <= c.off_dt_struct
      /\ End(b) \in Nat /\ End(c) \in Nat
  BY <1>1, ReadNumbers
<1>3. TagWhole(b, q.off)
  <2>1. q.off \in Int
    OBVIOUS
  <2> QED
    BY <1>1, <2>1, ValidWhole
<1>4. len \in Nat /\ size = 12 + len /\ x + size <= End(b)
  <2>1. /\ Byte(b, b.off_dt_struct + q.off + FDT_TAGSIZE) \in Cell
        /\ size = PropertySize + Byte(b, b.off_dt_struct + q.off + FDT_TAGSIZE)
        /\ b.off_dt_struct + q.off + size <= End(b)
    BY <1>3 DEF TagWhole
  <2>2. len = Byte(b, b.off_dt_struct + q.off + FDT_TAGSIZE)
    BY DEF PropLen, FDT_TAGSIZE
  <2>3. len # Junk
    BY DEF PropertyWhole
  <2> HIDE DEF len, size
  <2> QED
    BY <2>1, <2>2, <2>3 DEF Cell, PropertySize, x
<1>5. \A i \in 0 .. size - 1 : Byte(c, y + i) = Byte(b, x + i)
  BY DEF Alike
<1>6. x \in Nat /\ y \in Nat /\ HeaderSize <= x /\ HeaderSize <= y
      /\ y + size <= End(c)
  BY <1>2 DEF HeaderSize
<1> HIDE DEF size
<1>7. PropLen(c, r) = len /\ PropNameOff(c, r) = off
  <2>1. 4 \in 0 .. size - 1 /\ 8 \in 0 .. size - 1
    <3> HIDE DEF len
    <3> QED
      BY <1>4
  <2>2. Byte(c, y + 4) = Byte(b, x + 4) /\ Byte(c, y + 8) = Byte(b, x + 8)
    BY <1>5, <2>1
  <2> QED
    BY <2>2 DEF PropLen, PropNameOff
<1>8. PropData(c, r) = PropData(b, q)
  <2>1. Alike(b, x + 12, c, y + 12, len)
    <3>1. ASSUME NEW i \in 0 .. len - 1
          PROVE  Byte(c, y + 12 + i) = Byte(b, x + 12 + i)
      <4> HIDE DEF x, y, len
      <4>1. /\ 12 + i \in 0 .. size - 1 /\ y + 12 + i = y + (12 + i)
            /\ x + 12 + i = x + (12 + i)
        BY <1>4, <1>6
      <4> QED
        BY <1>5, <4>1
    <3> HIDE DEF len, x, y
    <3> QED
      BY <3>1 DEF Alike
  <2>2. /\ x + 12 \in Nat /\ y + 12 \in Nat /\ HeaderSize <= x + 12
        /\ HeaderSize <= y + 12
        /\ x + 12 + len <= End(b) /\ y + 12 + len <= End(c)
    <3> HIDE DEF x, y, len
    <3> QED
      BY <1>2, <1>4, <1>6 DEF HeaderSize
  <2>3. Bytes(c, y + 12, len) = Bytes(b, x + 12, len)
    <3> HIDE DEF x, y, len
    <3> QED
      BY <1>2, <1>4, <2>1, <2>2, BytesAlike
  <2>4. PropData(b, q) = Bytes(b, x + 12, len)
    BY DEF PropData, PropertySize
  <2>5. PropData(c, r) = Bytes(c, y + 12, len)
    BY <1>7 DEF PropData, PropertySize
  <2> QED
    BY <2>3, <2>4, <2>5
<1>9. PropName(b, q) = StringHere(b, off)
  BY DEF PropName, StringHere
<1>10. off \in 0 .. b.size_dt_strings - 1 /\ StringAt(b, off, PropName(b, q))
  BY DEF PropertyWhole
<1>11. StringHere(c, off) = PropName(b, q) /\ StringAt(c, off, PropName(b, q))
  <2> HIDE DEF off
  <2> QED
    BY <1>9, <1>10, NameKept
<1>12. PropName(c, r) = PropName(b, q)
  BY <1>7, <1>11 DEF PropName, StringHere
<1>13. PropertyWhole(c, r)
  <2>1. off \in 0 .. c.size_dt_strings - 1
    <3> HIDE DEF off
    <3>1. b.size_dt_strings <= c.size_dt_strings
      BY DEF StringsKept
    <3>2. b.size_dt_strings \in Nat /\ c.size_dt_strings \in Nat
      BY StandNumbers
    <3> QED
      BY <1>10, <3>1, <3>2
  <2>2. PropLen(c, r) # Junk
    BY <1>7 DEF PropertyWhole
  <2> QED
    BY <1>7, <1>11, <1>12, <2>1, <2>2 DEF PropertyWhole
<1> QED
  BY <1>7, <1>8, <1>12, <1>13 DEF PropKept

\* Whole tags stand in a tree, and no tag reaches beyond lo from before it.
WholeTags(b, T) ==
    \A t \in T : /\ ValidTag(b, t.off) /\ t.tag = Byte(b, b.off_dt_struct + t.off)
                 /\ TagSize(b, t.off) \in Nat
                 /\ t.off + TagSize(b, t.off) <= t.next
                 /\ t.next <= BlockEnd(b)
                 /\ t.off + 4 <= t.next

\* The tags of a walk are whole.
LEMMA WalkWhole ==
  ASSUME NEW b, Readable(b), NEW s, Walk(b, s), s[Len(s)].next # -1
  PROVE  WholeTags(b, ToSet(s))
<1>1. Len(s) \in Nat /\ s \in Seq(TagSet)
  BY DEF Walk, WalkFrom
<1> SUFFICES ASSUME NEW k \in 1 .. Len(s)
             PROVE  /\ ValidTag(b, s[k].off)
                    /\ s[k].tag = Byte(b, b.off_dt_struct + s[k].off)
                    /\ TagSize(b, s[k].off) \in Nat
                    /\ s[k].off + TagSize(b, s[k].off) <= s[k].next
                    /\ s[k].next <= BlockEnd(b)
                    /\ s[k].off + 4 <= s[k].next
  BY <1>1 DEF WholeTags, ToSet
<1>2. /\ ValidTag(b, s[k].off) /\ TagWhole(b, s[k].off)
      /\ s[k].tag = Byte(b, b.off_dt_struct + s[k].off)
      /\ s[k].off + TagSize(b, s[k].off) <= s[k].next
      /\ s[k].next <= BlockEnd(b)
      /\ s[k].off + 4 <= s[k].next
  BY WholeTag
<1>3. TagSize(b, s[k].off) \in Nat
  BY <1>2 DEF TagWhole
<1> QED
  BY <1>2, <1>3

Cut(T, lo) == \A t \in T : t.off < lo => t.next <= lo

\* The properties that stay are what they were.
LEMMA EditedProps ==
  ASSUME NEW b, LaidOut(b), NEW T, Apart(T), WholeTags(b, T),
         NEW lo \in Nat, NEW old \in Nat, NEW new \in Nat, Cut(T, lo),
         lo + old <= b.size_dt_struct, NEW c, Edited(b, c, lo, old, new),
         NEW q \in T, q.tag = FDT_PROP, Stays(q, lo, old), PropertyWhole(b, q)
  PROVE  PropKept(b, q, c, Mv(q, lo, new - old))
<1> DEFINE r == Mv(q, lo, new - old)
           S == b.off_dt_struct
           size == TagSize(b, q.off)
           o == q.off
           ro == r.off
           block == b.size_dt_struct
           dsize == fdt_data_size_(b)
<1>1. LaidOut(c) /\ fdt_data_size_(c) = dsize + new - old
      /\ End(c) = fdt_data_size_(c)
  BY EditedLaidOut
<1>2. Standing(b) /\ Standing(c) /\ StringsKept(b, c)
  BY <1>1, LaidOutStanding, EditedStrings
<1>3. /\ ValidTag(b, o) /\ q.tag = Byte(b, S + o) /\ size \in Nat
      /\ o + size <= q.next /\ q.next <= BlockEnd(b)
  BY DEF WholeTags
<1>4. BlockEnd(b) = block
  BY LaidOutReadable
<1>5. /\ S \in Nat /\ block \in Nat /\ HeaderSize <= S /\ dsize \in Nat
      /\ S + block <= dsize
  BY LaidNumbers
<1>6. o \in Nat /\ q.next \in Int
  BY DEF Apart
<1>7. ro = IF o < lo THEN o ELSE o + (new - old)
  BY MvIs
<1>8. IF o < lo THEN o + size <= lo ELSE lo + old <= o
  <2>1. CASE o < lo
    <3>1. q.next <= lo
      BY <2>1 DEF Cut
    <3> DEFINE z == q.next
    <3>2. z \in Int /\ o + size <= z /\ z <= lo
      BY <1>3, <1>6, <3>1
    <3> HIDE DEF o, size, z
    <3>3. o + size <= lo
      BY <1>3, <1>6, <3>2
    <3> QED
      BY <2>1, <3>3
  <2>2. CASE ~(o < lo)
    <3>1. lo + old <= o
      BY <2>2 DEF Stays
    <3> HIDE DEF o, size
    <3> QED
      BY <2>2, <3>1
  <2> QED
    BY <2>1, <2>2
<1>9. o + size <= block
  <2> DEFINE z == q.next
  <2>1. z \in Int /\ o + size <= z /\ z <= block
    BY <1>3, <1>4, <1>6
  <2> HIDE DEF o, size, z, block
  <2> QED
    BY <1>3, <1>5, <1>6, <2>1
<1>10. c.off_dt_struct = S /\ Kept(b, c, S + lo)
       /\ Moved(b, c, S + lo + old, new - old)
  BY DEF Edited
<1>a. lo + old <= block
  OBVIOUS
<1>11. /\ ro \in Nat /\ S + ro + size <= dsize + new - old
       /\ \A i \in 0 .. size - 1 :
             IF o < lo THEN S + o + i \in HeaderSize .. (S + lo) - 1
             ELSE /\ S + o + i \in S + lo + old .. dsize - 1
                  /\ S + ro + i = (S + o + i) + (new - old)
  <2> HIDE DEF S, size, o, ro, block, dsize
  <2> QED
    BY <1>3, <1>5, <1>6, <1>7, <1>8, <1>9, <1>a DEF HeaderSize
<1>12. Alike(b, S + o, c, c.off_dt_struct + ro, size)
  <2>1. ASSUME NEW i \in 0 .. size - 1
        PROVE  Byte(c, S + ro + i) = Byte(b, S + o + i)
    <3>1. CASE o < lo
      <4>1. S + o + i \in HeaderSize .. (S + lo) - 1 /\ ro = o
        BY <1>7, <1>11, <3>1
      <4> HIDE DEF S, size, o, ro, dsize
      <4> QED
        BY <1>10, <4>1 DEF Kept
    <3>2. CASE ~(o < lo)
      <4>1. /\ S + o + i \in S + lo + old .. dsize - 1
            /\ S + ro + i = (S + o + i) + (new - old)
        BY <1>11, <3>2
      <4>2. Byte(c, (S + o + i) + (new - old)) = Byte(b, S + o + i)
        <5>1. \A y \in S + lo + old .. dsize - 1 :
                  Byte(c, y + (new - old)) = Byte(b, y)
          BY <1>10 DEF Moved
        <5> HIDE DEF S, size, o, ro, dsize
        <5> QED
          BY <4>1, <5>1
      <4> QED
        BY <4>1, <4>2
    <3> QED
      BY <3>1, <3>2
  <2> HIDE DEF S, size, o, ro
  <2> QED
    BY <1>10, <2>1 DEF Alike
<1>13. c.off_dt_struct + ro + size <= End(c)
  BY <1>1, <1>10, <1>11
<1>14. Byte(b, b.off_dt_struct + q.off) = FDT_PROP
  BY <1>3
<1> HIDE DEF r
<1>15. PropKept(b, q, c, r)
  BY <1>2, <1>3, <1>6, <1>11, <1>12, <1>13, <1>14, PropAlike
<1> QED
  BY <1>15 DEF r

------------------------------------------------------------------------------
\* What a tree says of the nodes and their properties.
IsFunction(f) == f = [x \in DOMAIN f |-> f[x]]

Says(W, b, ts) ==
    /\ IsFunction(W)
    /\ DOMAIN W = {t.path : t \in Nodes(ts)}
    /\ \A n \in Nodes(ts) :
          /\ IsFunction(W[n.path])
          /\ DOMAIN W[n.path] = {PropName(b, p) : p \in Properties(ts, n.off)}
          /\ \A p \in Properties(ts, n.off) :
                W[n.path][PropName(b, p)] = PropData(b, p)

NodeProps(b, ts, o) ==
    [name \in {PropName(b, p) : p \in Properties(ts, o)} |->
        PropData(b, CHOOSE p \in Properties(ts, o) : PropName(b, p) = name)]

\* The nodes of a tree are known by their paths, and their properties by name.
LEMMA TreeSays ==
  ASSUME NEW b, NEW ts, NodesApart(ts), PropertiesApart(b, ts)
  PROVE  Says(Tree(b, ts), b, ts)
<1> DEFINE W == Tree(b, ts)
           node(path) == CHOOSE t \in Nodes(ts) : t.path = path
<1>1. W = [path \in {t.path : t \in Nodes(ts)} |-> NodeProps(b, ts, node(path).off)]
  BY DEF Tree, NodeProps
<1>2. IsFunction(W) /\ DOMAIN W = {t.path : t \in Nodes(ts)}
  BY <1>1, Zenon DEF IsFunction
<1>3. ASSUME NEW n \in Nodes(ts)
      PROVE  /\ IsFunction(W[n.path])
             /\ DOMAIN W[n.path] = {PropName(b, p) : p \in Properties(ts, n.off)}
             /\ \A p \in Properties(ts, n.off) :
                   W[n.path][PropName(b, p)] = PropData(b, p)
  <2>1. node(n.path) = n
    BY DEF NodesApart
  <2>2. W[n.path] = NodeProps(b, ts, n.off)
    <3>1. n.path \in {t.path : t \in Nodes(ts)}
      OBVIOUS
    <3>2. W[n.path] = NodeProps(b, ts, node(n.path).off)
      BY <1>1, <3>1, Zenon
    <3> QED BY <2>1, <3>2, Zenon
  <2>3. \A p, q \in Properties(ts, n.off) : PropName(b, p) = PropName(b, q) => p = q
    BY DEF PropertiesApart
  <2>4. DOMAIN NodeProps(b, ts, n.off) = {PropName(b, p) : p \in Properties(ts, n.off)}
        /\ IsFunction(NodeProps(b, ts, n.off))
    <3> DEFINE V == NodeProps(b, ts, n.off)
               data(name) == PropData(b, CHOOSE p \in Properties(ts, n.off) :
                                             PropName(b, p) = name)
    <3>1. V = [name \in {PropName(b, p) : p \in Properties(ts, n.off)} |-> data(name)]
      BY Zenon DEF NodeProps
    <3> HIDE DEF V, data
    <3>2. DOMAIN V = {PropName(b, p) : p \in Properties(ts, n.off)}
          /\ IsFunction(V)
      BY <3>1, Zenon DEF IsFunction
    <3> QED BY <3>2 DEF V
  <2>5. ASSUME NEW p \in Properties(ts, n.off)
        PROVE  NodeProps(b, ts, n.off)[PropName(b, p)] = PropData(b, p)
    <3>1. (CHOOSE q \in Properties(ts, n.off) : PropName(b, q) = PropName(b, p)) = p
      BY <2>3
    <3>2. PropName(b, p) \in {PropName(b, q) : q \in Properties(ts, n.off)}
      OBVIOUS
    <3>3. NodeProps(b, ts, n.off)[PropName(b, p)]
            = PropData(b, CHOOSE q \in Properties(ts, n.off) :
                             PropName(b, q) = PropName(b, p))
      BY <3>2, Zenon DEF NodeProps
    <3> QED BY <3>1, <3>3, Zenon
  <2> QED BY <2>2, <2>4, <2>5, Zenon
<1> QED BY <1>2, <1>3, Zenon DEF Says

\* It says one thing.
LEMMA SaysOnce ==
  ASSUME NEW b, NEW ts, NEW V, Says(V, b, ts), NEW W, Says(W, b, ts)
  PROVE  V = W
<1>1. IsFunction(V) /\ IsFunction(W) /\ DOMAIN V = DOMAIN W
  BY DEF Says
<1>2. ASSUME NEW p \in DOMAIN V PROVE V[p] = W[p]
  <2>1. PICK n \in Nodes(ts) : p = n.path
    BY DEF Says
  <2>2. IsFunction(V[p]) /\ IsFunction(W[p]) /\ DOMAIN V[p] = DOMAIN W[p]
        /\ DOMAIN V[p] = {PropName(b, q) : q \in Properties(ts, n.off)}
    BY <2>1, Zenon DEF Says
  <2>3. ASSUME NEW x \in DOMAIN V[p] PROVE V[p][x] = W[p][x]
    <3>1. PICK q \in Properties(ts, n.off) : x = PropName(b, q)
      BY <2>2
    <3>2. V[p][x] = PropData(b, q) /\ W[p][x] = PropData(b, q)
      BY <2>1, <3>1, Zenon DEF Says
    <3> QED BY <3>2
  <2> QED BY <2>2, <2>3, Zenon DEF IsFunction
<1> QED BY <1>1, <1>2, Zenon DEF IsFunction

\* All its properties are whole.
Wholes(b, ts) == \A t \in ToSet(ts) : t.tag = FDT_PROP => PropertyWhole(b, t)

\* The same tags in another blob, and the same properties: the same tree.
LEMMA SameTree ==
  ASSUME NEW b, NEW c, NEW ts, PropertiesApart(b, ts),
         \A q \in ToSet(ts) : q.tag = FDT_PROP => PropKept(b, q, c, q),
         NEW W, Says(W, b, ts)
  PROVE  PropertiesApart(c, ts) /\ Wholes(c, ts) /\ Says(W, c, ts)
<1>1. \A o : \A q \in Properties(ts, o) :
         PropName(c, q) = PropName(b, q) /\ PropData(c, q) = PropData(b, q)
  BY PropertiesAre DEF PropKept
<1>2. PropertiesApart(c, ts)
  BY <1>1 DEF PropertiesApart
<1>3. Wholes(c, ts)
  BY DEF Wholes, PropKept
<1>4. ASSUME NEW n \in Nodes(ts)
      PROVE  {PropName(c, p) : p \in Properties(ts, n.off)}
               = {PropName(b, p) : p \in Properties(ts, n.off)}
  BY <1>1
<1>5. Says(W, c, ts)
  BY <1>1, <1>4, Zenon DEF Says
<1> QED BY <1>2, <1>3, <1>5

\* A tree with a property of one node set.
With(W, path, name, val) ==
    [p \in DOMAIN W |->
        IF p # path THEN W[p]
        ELSE [x \in DOMAIN W[p] \cup {name} |->
                 IF x = name THEN val ELSE W[p][x]]]

\* The properties of c are those of b, but for x, that has the place of those
\* of its name in node N.
OneSet(b, ts, lo, old, d, c, N, x, name, val) ==
    /\ \A q \in ToSet(ts) : q.tag = FDT_PROP /\ Stays(q, lo, old) =>
           PropKept(b, q, c, Mv(q, lo, d))
    /\ PropertyWhole(c, x) /\ PropName(c, x) = name /\ PropData(c, x) = val
    /\ \A q \in Properties(ts, N.off) :
           Stays(q, lo, old) <=> PropName(b, q) # name
    /\ \A q \in ToSet(ts) :
           ~Stays(q, lo, old) => q \in Properties(ts, N.off)

\* One property is set and no other.
LEMMA PropSays ==
  ASSUME NEW b, NEW ts, NEW c, NEW us, NEW lo \in Nat, NEW old \in Nat,
         NEW d \in Int, NEW N \in Nodes(ts), NEW x, NEW name, NEW val,
         NodesApart(ts), PropertiesApart(b, ts),
         PropEdited(ts, us, lo, old, d, N, x),
         \A n, m \in Nodes(ts) : \A p : p \in Properties(ts, n.off)
                 /\ p \in Properties(ts, m.off) => n = m,
         OneSet(b, ts, lo, old, d, c, N, x, name, val),
         NEW W, Says(W, b, ts)
  PROVE  /\ NodesApart(us) /\ PropertiesApart(c, us)
         /\ Says(With(W, N.path, name, val), c, us)
<1> DEFINE M(t) == Mv(t, lo, d)
           Old(n) == Properties(ts, n.off)
           New(n) == Properties(us, M(n).off)
<1>1. \A t : M(t).path = t.path /\ M(t).tag = t.tag
  BY MvIs
<1>2. NodesApart(us)
  BY <1>1 DEF NodesApart, PropEdited
<1>3. \A n \in Nodes(ts) : \A p :
         p \in New(n) <=> \/ p = x /\ n = N
                          \/ \E q \in Old(n) : Stays(q, lo, old) /\ p = M(q)
  BY DEF PropEdited
<1>4. \A o : \A q \in Properties(ts, o) : q \in ToSet(ts) /\ q.tag = FDT_PROP
  BY PropertiesAre
<1>5. \A n \in Nodes(ts) : \A q \in Old(n) : Stays(q, lo, old) =>
         PropName(c, M(q)) = PropName(b, q) /\ PropData(c, M(q)) = PropData(b, q)
  BY <1>4 DEF OneSet, PropKept
<1>6. \A n \in Nodes(ts) : \A q \in Old(n) :
         \/ Stays(q, lo, old)
         \/ n = N /\ PropName(b, q) = name
  BY <1>4 DEF OneSet
<1>7. \A q \in Old(N) : Stays(q, lo, old) => PropName(b, q) # name
  BY DEF OneSet
<1>8. PropName(c, x) = name /\ PropData(c, x) = val
  BY DEF OneSet
<1>9. \A n \in Nodes(ts) : \A p, q \in Old(n) : PropName(b, p) = PropName(b, q) => p = q
  BY DEF PropertiesApart
<1> HIDE DEF M, Old, New
<1>10. \A n \in Nodes(ts) : \A p, q \in New(n) : PropName(c, p) = PropName(c, q) => p = q
  BY <1>3, <1>5, <1>7, <1>8, <1>9
<1>11. PropertiesApart(c, us)
  BY <1>10 DEF PropertiesApart, PropEdited, M, New
<1> DEFINE V == With(W, N.path, name, val)
<1>12. {t.path : t \in Nodes(us)} = {t.path : t \in Nodes(ts)}
  <2>1. \A t \in Nodes(ts) : M(t) \in Nodes(us)
    BY DEF PropEdited, M
  <2>2. \A u \in Nodes(us) : \E t \in Nodes(ts) : u = M(t)
    BY DEF PropEdited, M
  <2> QED BY <1>1, <2>1, <2>2
<1>13. IsFunction(V) /\ DOMAIN V = {t.path : t \in Nodes(us)}
  <2>1. DOMAIN V = DOMAIN W
    BY Zenon DEF With
  <2>2. IsFunction(V)
    <3> DEFINE v(p) == IF p # N.path THEN W[p]
                       ELSE [y \in DOMAIN W[p] \cup {name} |->
                                IF y = name THEN val ELSE W[p][y]]
    <3>1. V = [p \in DOMAIN W |-> v(p)]
      BY Zenon DEF With
    <3> HIDE DEF v, V
    <3> QED BY <3>1, Zenon DEF IsFunction
  <2> QED BY <1>12, <2>1, <2>2 DEF Says
<1>14. ASSUME NEW n \in Nodes(ts), n # N
       PROVE  /\ IsFunction(V[n.path])
              /\ DOMAIN V[n.path] = {PropName(c, p) : p \in New(n)}
              /\ \A p \in New(n) : V[n.path][PropName(c, p)] = PropData(c, p)
  <2>1. n.path # N.path
    BY <1>14 DEF NodesApart
  <2>2. n.path \in DOMAIN W
    BY DEF Says
  <2>3. V[n.path] = W[n.path]
    BY <2>1, <2>2, Zenon DEF With
  <2>4. \A p : p \in New(n) <=> \E q \in Old(n) : p = M(q)
    BY <1>3, <1>6, <1>14
  <2>5. \A q \in Old(n) : PropName(c, M(q)) = PropName(b, q)
                          /\ PropData(c, M(q)) = PropData(b, q)
    BY <1>5, <1>6, <1>14
  <2>6. {PropName(c, p) : p \in New(n)} = {PropName(b, p) : p \in Old(n)}
    BY <2>4, <2>5
  <2>7. /\ IsFunction(W[n.path])
        /\ DOMAIN W[n.path] = {PropName(b, p) : p \in Old(n)}
        /\ \A p \in Old(n) : W[n.path][PropName(b, p)] = PropData(b, p)
    BY DEF Says, Old
  <2>8. ASSUME NEW p \in New(n) PROVE V[n.path][PropName(c, p)] = PropData(c, p)
    <3>1. PICK q \in Old(n) : p = M(q)
      BY <2>4
    <3>2. W[n.path][PropName(b, q)] = PropData(b, q)
      BY <2>7
    <3> QED BY <2>3, <2>5, <3>1, <3>2, Zenon
  <2> QED BY <2>3, <2>6, <2>7, <2>8
<1>15. /\ IsFunction(V[N.path])
       /\ DOMAIN V[N.path] = {PropName(c, p) : p \in New(N)}
       /\ \A p \in New(N) : V[N.path][PropName(c, p)] = PropData(c, p)
  <2> DEFINE f == W[N.path]
             g == [y \in DOMAIN f \cup {name} |-> IF y = name THEN val ELSE f[y]]
  <2>1. N.path \in DOMAIN W
    BY DEF Says
  <2>2. V[N.path] = g
    BY <2>1, Zenon DEF With
  <2>3. /\ DOMAIN f = {PropName(b, p) : p \in Old(N)}
        /\ \A p \in Old(N) : f[PropName(b, p)] = PropData(b, p)
    BY DEF Says, Old
  <2> HIDE DEF f
  <2>4. IsFunction(g) /\ DOMAIN g = DOMAIN f \cup {name} /\ g[name] = val
        /\ \A y \in DOMAIN f : y # name => g[y] = f[y]
    <3>1. DOMAIN g = DOMAIN f \cup {name}
      BY Zenon
    <3>2. \A y \in DOMAIN f \cup {name} : g[y] = IF y = name THEN val ELSE f[y]
      BY Zenon
    <3>3. IsFunction(g)
      <4> DEFINE h(y) == IF y = name THEN val ELSE f[y]
      <4>1. g = [y \in DOMAIN f \cup {name} |-> h(y)]
        BY Zenon
      <4> HIDE DEF h, g
      <4> QED BY <4>1, Zenon DEF IsFunction
    <3> HIDE DEF g
    <3> QED BY <3>1, <3>2, <3>3
  <2> HIDE DEF g
  <2>5. \A p : p \in New(N) <=> \/ p = x
                                \/ \E q \in Old(N) : Stays(q, lo, old) /\ p = M(q)
    BY <1>3
  <2>6. \A q \in Old(N) : Stays(q, lo, old) <=> PropName(b, q) # name
    BY <1>6, <1>7
  <2>7. {PropName(c, p) : p \in New(N)} = DOMAIN f \cup {name}
    <3>1. \A p \in New(N) : PropName(c, p) \in DOMAIN f \cup {name}
      BY <1>5, <1>8, <2>3, <2>5
    <3>2. \A y \in DOMAIN f \cup {name} : \E p \in New(N) : y = PropName(c, p)
      <4>1. x \in New(N) /\ PropName(c, x) = name
        BY <1>8, <2>5
      <4>2. ASSUME NEW y \in DOMAIN f, y # name
            PROVE  \E p \in New(N) : y = PropName(c, p)
        <5>1. PICK q \in Old(N) : y = PropName(b, q)
          BY <2>3
        <5>2. Stays(q, lo, old)
          BY <2>6, <4>2, <5>1
        <5>3. M(q) \in New(N) /\ PropName(c, M(q)) = y
          BY <1>5, <2>5, <5>1, <5>2
        <5> QED BY <5>3
      <4> QED BY <4>1, <4>2
    <3> QED BY <3>1, <3>2
  <2>8. ASSUME NEW p \in New(N) PROVE g[PropName(c, p)] = PropData(c, p)
    <3>1. CASE p = x
      BY <1>8, <2>4, <3>1
    <3>2. CASE \E q \in Old(N) : Stays(q, lo, old) /\ p = M(q)
      <4>1. PICK q \in Old(N) : Stays(q, lo, old) /\ p = M(q)
        BY <3>2
      <4>2. PropName(b, q) # name /\ PropName(b, q) \in DOMAIN f
        BY <2>3, <2>6, <4>1
      <4>3. g[PropName(b, q)] = PropData(b, q)
        BY <2>3, <2>4, <4>2
      <4> QED BY <1>5, <4>1, <4>3, Zenon
    <3> QED BY <2>5, <3>1, <3>2
  <2> QED BY <2>2, <2>4, <2>7, <2>8
<1>16. ASSUME NEW u \in Nodes(us)
       PROVE  /\ IsFunction(V[u.path])
              /\ DOMAIN V[u.path] = {PropName(c, p) : p \in Properties(us, u.off)}
              /\ \A p \in Properties(us, u.off) :
                    V[u.path][PropName(c, p)] = PropData(c, p)
  <2>1. PICK n \in Nodes(ts) : u = M(n)
    BY DEF PropEdited, M
  <2>2. u.path = n.path /\ Properties(us, u.off) = New(n)
    BY <1>1, <2>1 DEF New
  <2> HIDE DEF V
  <2> QED BY <1>14, <1>15, <2>2
<1> QED BY <1>2, <1>11, <1>13, <1>16, Zenon DEF Says

\* A property belongs to one node.
OneOwner(ts) ==
    \A n, m \in Nodes(ts) : \A p :
        p \in Properties(ts, n.off) /\ p \in Properties(ts, m.off) => n = m

\* The first node before a property is the one it belongs to.
LEMMA Owner ==
  ASSUME NEW ts, Apart(ToSet(ts))
  PROVE  OneOwner(ts)
<1> SUFFICES ASSUME NEW n \in Nodes(ts), NEW m \in Nodes(ts), NEW p,
                    p \in Properties(ts, n.off), p \in Properties(ts, m.off)
             PROVE  n = m
  BY DEF OneOwner
<1>1. /\ n \in ToSet(ts) /\ m \in ToSet(ts)
      /\ n.tag = FDT_BEGIN_NODE /\ m.tag = FDT_BEGIN_NODE
  BY NodesAre
<1>2. /\ p \in ToSet(ts) /\ n.off < p.off /\ m.off < p.off
      /\ InRun(ToSet(ts), n.off, p.off) /\ InRun(ToSet(ts), m.off, p.off)
  BY PropertiesAre
<1>3. ~(n.off < m.off) /\ ~(m.off < n.off)
  BY <1>1, <1>2 DEF InRun, FDT_BEGIN_NODE, FDT_PROP, FDT_NOP
<1>4. n.off = m.off
  BY <1>1, <1>3 DEF Apart
<1> QED BY <1>1, <1>4 DEF Apart

\* An editable tree of distinct nodes and properties, and its tags.
Sound(b, ts) ==
    /\ LaidOut(b) /\ Walk(b, ts) /\ ts[Len(ts)].next # -1
    /\ Shaped(ts) /\ NodesApart(ts) /\ PropertiesApart(b, ts) /\ Wholes(b, ts)

\* An exchange of whole tags leaves the properties that stay what they were.
LEMMA PropsStay ==
  ASSUME NEW b, NEW ts, Sound(b, ts), NEW lo \in Nat, NEW old \in Nat,
         NEW new \in Nat, Cut(ToSet(ts), lo), lo + old <= b.size_dt_struct,
         NEW c, Edited(b, c, lo, old, new)
  PROVE  \A q \in ToSet(ts) : q.tag = FDT_PROP /\ Stays(q, lo, old) =>
            PropKept(b, q, c, Mv(q, lo, new - old))
<1>1. /\ LaidOut(b) /\ Readable(b) /\ Walk(b, ts) /\ ts[Len(ts)].next # -1
      /\ Apart(ToSet(ts)) /\ Wholes(b, ts)
  BY LaidOutReadable DEF Sound, Shaped
<1>2. WholeTags(b, ToSet(ts))
  BY <1>1, WalkWhole
<1> SUFFICES ASSUME NEW q \in ToSet(ts), q.tag = FDT_PROP, Stays(q, lo, old)
             PROVE  PropKept(b, q, c, Mv(q, lo, new - old))
  OBVIOUS
<1>3. PropertyWhole(b, q)
  BY <1>1 DEF Wholes
<1> QED BY <1>1, <1>2, <1>3, EditedProps

\* What setting one property asks of the tags and the bytes.
PropSet(b, ts, lo, old, new, c, us, N, x, name, val) ==
    /\ lo \in Nat /\ old \in Nat /\ new \in Nat /\ new > 0
    /\ PropPlace(ToSet(ts), N, lo, old)
    /\ Cut(ToSet(ts), lo) /\ lo + old <= b.size_dt_struct
    /\ Edited(b, c, lo, old, new)
    /\ Walk(c, us) /\ us[Len(us)].next # -1
    /\ x.tag = FDT_PROP /\ x.off = lo
    /\ ExchangedFor(ToSet(ts), ToSet(us), lo, old, new - old, x)
    /\ PropertyWhole(c, x) /\ PropName(c, x) = name /\ PropData(c, x) = val
    /\ \A q \in Properties(ts, N.off) :
           Stays(q, lo, old) <=> PropName(b, q) # name
    /\ \A q \in ToSet(ts) :
           ~Stays(q, lo, old) => q \in Properties(ts, N.off)

\* It sets that property and keeps the tree sound.
LEMMA PropTree ==
  ASSUME NEW b, NEW ts, Sound(b, ts), NEW lo, NEW old, NEW new, NEW c, NEW us,
         NEW N, NEW x, NEW name, NEW val,
         PropSet(b, ts, lo, old, new, c, us, N, x, name, val)
  PROVE  /\ Sound(c, us)
         /\ Tree(c, us) = With(Tree(b, ts), N.path, name, val)
         /\ IsChosen(ToSet(ts), N) => IsChosen(ToSet(us), N)
<1> DEFINE T == ToSet(ts)
           U == ToSet(us)
<1>1. /\ lo \in Nat /\ old \in Nat /\ new \in Nat /\ new > 0
      /\ PropPlace(T, N, lo, old) /\ x.tag = FDT_PROP /\ x.off = lo
      /\ ExchangedFor(T, U, lo, old, new - old, x)
      /\ Cut(T, lo) /\ lo + old <= b.size_dt_struct
      /\ Edited(b, c, lo, old, new) /\ Walk(c, us) /\ us[Len(us)].next # -1
  BY DEF PropSet
<1>2. /\ LaidOut(b) /\ Shaped(ts) /\ NodesApart(ts) /\ PropertiesApart(b, ts)
      /\ Wholes(b, ts) /\ Apart(T)
  BY DEF Sound, Shaped
<1>3. LaidOut(c)
  BY <1>1, <1>2, EditedLaidOut
<1>4. Readable(c) /\ Apart(U)
  BY <1>1, <1>3, LaidOutReadable, WalkSet
<1>5. \A u \in U : u.off + 4 <= u.next
  BY <1>1, <1>4, WalkWhole DEF WholeTags
<1>6. Shaped(us)
  BY <1>1, <1>2, <1>4, <1>5, PropShaped
<1>7. PropEdited(ts, us, lo, old, new - old, N, x)
  BY <1>1, <1>2, PropEdit
<1>8. \A q \in T : q.tag = FDT_PROP /\ Stays(q, lo, old) =>
            PropKept(b, q, c, Mv(q, lo, new - old))
  BY <1>1, PropsStay
<1>9. OneSet(b, ts, lo, old, new - old, c, N, x, name, val)
  BY <1>8 DEF OneSet, PropSet
<1>10. N \in Nodes(ts) /\ new - old \in Int
  BY <1>1, NodesAre DEF PropPlace
<1>11. Says(Tree(b, ts), b, ts)
  BY <1>2, TreeSays
<1>12. OneOwner(ts)
  BY <1>2, Owner
<1>13. /\ NodesApart(us) /\ PropertiesApart(c, us)
       /\ Says(With(Tree(b, ts), N.path, name, val), c, us)
  <2>1. \A n, m \in Nodes(ts) : \A p : p \in Properties(ts, n.off)
                 /\ p \in Properties(ts, m.off) => n = m
    BY <1>12 DEF OneOwner
  <2> DEFINE d == new - old
  <2>2. d \in Int
    BY <1>10
  <2>3. PropEdited(ts, us, lo, old, d, N, x)
        /\ OneSet(b, ts, lo, old, d, c, N, x, name, val)
    BY <1>7, <1>9
  <2> HIDE DEF d
  <2> QED BY <1>1, <1>2, <1>10, <1>11, <2>1, <2>2, <2>3, PropSays
<1>14. Tree(c, us) = With(Tree(b, ts), N.path, name, val)
  BY <1>13, TreeSays, SaysOnce
<1>15. Wholes(c, us)
  <2> SUFFICES ASSUME NEW u \in U, u.tag = FDT_PROP PROVE PropertyWhole(c, u)
    BY DEF Wholes
  <2>1. MovedOrNew(T, U, lo, old, new - old, x)
    <3> DEFINE d == new - old
    <3>1. ExchangedFor(T, U, lo, old, d, x)
      BY <1>1
    <3> HIDE DEF d
    <3>2. MovedOrNew(T, U, lo, old, d, x)
      BY <1>1, <1>2, <3>1, ExchangedOne
    <3> QED BY <3>2 DEF d
  <2>2. CASE u = x
    BY <2>2 DEF PropSet
  <2>3. CASE \E t \in T : Stays(t, lo, old) /\ u = Mv(t, lo, new - old)
    <3>1. PICK t \in T : Stays(t, lo, old) /\ u = Mv(t, lo, new - old)
      BY <2>3
    <3>2. t.tag = FDT_PROP
      BY <3>1, MvIs
    <3> QED BY <1>8, <3>1, <3>2 DEF PropKept
  <2> QED BY <2>1, <2>2, <2>3 DEF MovedOrNew
<1>16. Sound(c, us)
  BY <1>1, <1>3, <1>6, <1>13, <1>15 DEF Sound
<1>17. IsChosen(T, N) => IsChosen(U, N)
  BY <1>1, <1>2, PropChosen
<1> QED BY <1>14, <1>16, <1>17

\* A tree with a node more, that has no properties yet.
Added(V, W, path) ==
    /\ IsFunction(V) /\ DOMAIN V = DOMAIN W \cup {path}
    /\ \A p \in DOMAIN W : V[p] = W[p]
    /\ IsFunction(V[path]) /\ DOMAIN V[path] = {}

\* What making one node asks of the tags and the bytes.
NodeMade(b, ts, lo, new, c, us, B, E) ==
    /\ lo \in Nat /\ new \in Nat /\ new > 0
    /\ NodePlace(ToSet(ts), lo) /\ IsNewNode(B, E, lo, new)
    /\ Cut(ToSet(ts), lo) /\ lo <= b.size_dt_struct
    /\ Edited(b, c, lo, 0, new)
    /\ Walk(c, us) /\ us[Len(us)].next # -1
    /\ ExchangedPair(ToSet(ts), ToSet(us), lo, new, B, E)
    /\ \A t \in Nodes(ts) : t.path # B.path

\* It adds that node and keeps the tree sound.
LEMMA NodeTree ==
  ASSUME NEW b, NEW ts, Sound(b, ts), NEW lo, NEW new, NEW c, NEW us,
         NEW B, NEW E, NodeMade(b, ts, lo, new, c, us, B, E)
  PROVE  /\ Sound(c, us)
         /\ Added(Tree(c, us), Tree(b, ts), B.path)
<1> DEFINE T == ToSet(ts)
           U == ToSet(us)
           M(t) == Mv(t, lo, new)
<1>1. /\ lo \in Nat /\ new \in Nat /\ new > 0
      /\ NodePlace(T, lo) /\ IsNewNode(B, E, lo, new)
      /\ ExchangedPair(T, U, lo, new, B, E)
      /\ Cut(T, lo) /\ lo <= b.size_dt_struct
      /\ Edited(b, c, lo, 0, new) /\ Walk(c, us) /\ us[Len(us)].next # -1
  BY DEF NodeMade
<1>2. /\ LaidOut(b) /\ Shaped(ts) /\ NodesApart(ts) /\ PropertiesApart(b, ts)
      /\ Wholes(b, ts) /\ Apart(T)
  BY DEF Sound, Shaped
<1>3. LaidOut(c)
  <2>1. lo + 0 <= b.size_dt_struct /\ 0 \in Nat
    BY <1>1, <1>2, LaidNumbers
  <2> QED BY <1>1, <1>2, <2>1, EditedLaidOut
<1>4. Readable(c) /\ Apart(U)
  BY <1>1, <1>3, LaidOutReadable, WalkSet
<1>5. \A u \in U : u.off + 4 <= u.next
  BY <1>1, <1>4, WalkWhole DEF WholeTags
<1>6. Shaped(us)
  BY <1>1, <1>2, <1>4, <1>5, NodeShaped
<1>7. NodeEdited(ts, us, lo, new, B)
  BY <1>1, <1>2, NodeEdit
<1>8. \A q \in T : q.tag = FDT_PROP => PropKept(b, q, c, M(q))
  <2>1. lo + 0 <= b.size_dt_struct /\ 0 \in Nat /\ new - 0 = new
    BY <1>1, <1>2, LaidNumbers
  <2>2. \A q \in T : q.tag = FDT_PROP /\ Stays(q, lo, 0) =>
            PropKept(b, q, c, Mv(q, lo, new - 0))
    BY <1>1, <2>1, PropsStay
  <2>3. \A q \in T : Stays(q, lo, 0)
    BY <1>1, <1>2 DEF Apart, Stays
  <2> QED BY <2>1, <2>2, <2>3
<1>9. \A t : M(t).path = t.path /\ M(t).tag = t.tag
  BY MvIs
<1>10. /\ B \in Nodes(us)
       /\ \A n \in Nodes(ts) : M(n) \in Nodes(us)
       /\ \A u \in Nodes(us) : u = B \/ \E n \in Nodes(ts) : u = M(n)
       /\ \A p : p \notin Properties(us, B.off)
       /\ \A n \in Nodes(ts) : \A p :
             p \in Properties(us, M(n).off) <=>
                \E q \in Properties(ts, n.off) : p = M(q)
  BY <1>7 DEF NodeEdited
<1>11. \A o : \A q \in Properties(ts, o) : q \in T /\ q.tag = FDT_PROP
  BY PropertiesAre
<1>12. \A t \in Nodes(ts) : t.path # B.path
  BY DEF NodeMade
<1>13. \A q \in T : q.tag = FDT_PROP =>
         PropName(c, M(q)) = PropName(b, q) /\ PropData(c, M(q)) = PropData(b, q)
         /\ PropertyWhole(c, M(q))
  BY <1>8 DEF PropKept
<1>14. Wholes(c, us)
  <2>1. MovedOrPair(T, U, lo, new, B, E)
    BY <1>1, <1>2, ExchangedTwo
  <2> SUFFICES ASSUME NEW u \in U, u.tag = FDT_PROP PROVE PropertyWhole(c, u)
    BY DEF Wholes
  <2>2. u # B /\ u # E
    BY <1>1 DEF IsNewNode, FDT_PROP, FDT_BEGIN_NODE, FDT_END_NODE
  <2>3. PICK t \in T : u = M(t)
    BY <2>1, <2>2 DEF MovedOrPair
  <2> QED BY <1>9, <1>13, <2>3
<1> HIDE DEF M
<1>15. NodesApart(us)
  BY <1>2, <1>9, <1>10, <1>12 DEF NodesApart
<1>16. PropertiesApart(c, us)
  <2>1. \A n \in Nodes(ts) : \A p, q \in Properties(ts, n.off) :
           PropName(b, p) = PropName(b, q) => p = q
    BY <1>2 DEF PropertiesApart
  <2> SUFFICES ASSUME NEW u \in Nodes(us), NEW p \in Properties(us, u.off),
                      NEW q \in Properties(us, u.off), PropName(c, p) = PropName(c, q)
               PROVE  p = q
    BY DEF PropertiesApart
  <2>2. PICK n \in Nodes(ts) : u = M(n)
    BY <1>10
  <2>3. PICK r \in Properties(ts, n.off) : p = M(r)
    BY <1>10, <2>2
  <2>4. PICK s \in Properties(ts, n.off) : q = M(s)
    BY <1>10, <2>2
  <2>5. PropName(b, r) = PropName(b, s)
    BY <1>11, <1>13, <2>3, <2>4
  <2> QED BY <2>1, <2>3, <2>4, <2>5
<1>17. Sound(c, us)
  BY <1>1, <1>3, <1>6, <1>14, <1>15, <1>16 DEF Sound
<1> DEFINE W == Tree(b, ts)
           V == Tree(c, us)
<1>18. Says(W, b, ts) /\ Says(V, c, us)
  BY <1>2, <1>15, <1>16, TreeSays
<1> HIDE DEF W, V
<1>19. IsFunction(V) /\ DOMAIN V = DOMAIN W \cup {B.path}
  <2>1. {t.path : t \in Nodes(us)} = {t.path : t \in Nodes(ts)} \cup {B.path}
    BY <1>9, <1>10
  <2> QED BY <1>18, <2>1 DEF Says
<1>20. IsFunction(V[B.path]) /\ DOMAIN V[B.path] = {}
  <2>1. IsFunction(V[B.path])
        /\ DOMAIN V[B.path] = {PropName(c, p) : p \in Properties(us, B.off)}
    BY <1>10, <1>18 DEF Says
  <2> QED BY <1>10, <2>1
<1>21. ASSUME NEW p \in DOMAIN W PROVE V[p] = W[p]
  <2>1. PICK n \in Nodes(ts) : p = n.path
    BY <1>18 DEF Says
  <2>2. M(n) \in Nodes(us) /\ M(n).path = p
    BY <1>9, <1>10, <2>1
  <2>3. /\ IsFunction(V[p])
        /\ DOMAIN V[p] = {PropName(c, r) : r \in Properties(us, M(n).off)}
        /\ \A r \in Properties(us, M(n).off) : V[p][PropName(c, r)] = PropData(c, r)
    BY <1>18, <2>2, Zenon DEF Says
  <2>4. /\ IsFunction(W[p])
        /\ DOMAIN W[p] = {PropName(b, r) : r \in Properties(ts, n.off)}
        /\ \A r \in Properties(ts, n.off) : W[p][PropName(b, r)] = PropData(b, r)
    BY <1>18, <2>1, Zenon DEF Says
  <2>5. \A q \in Properties(ts, n.off) : /\ PropName(c, M(q)) = PropName(b, q)
                                         /\ PropData(c, M(q)) = PropData(b, q)
    BY <1>11, <1>13
  <2>6. \A r : r \in Properties(us, M(n).off) <=>
                \E q \in Properties(ts, n.off) : r = M(q)
    BY <1>10
  <2>7. DOMAIN V[p] = DOMAIN W[p]
    BY <2>3, <2>4, <2>5, <2>6
  <2>8. ASSUME NEW y \in DOMAIN W[p] PROVE V[p][y] = W[p][y]
    <3>1. PICK q \in Properties(ts, n.off) : y = PropName(b, q)
      BY <2>4
    <3>2. W[p][y] = PropData(b, q)
      BY <2>4, <3>1
    <3>3. M(q) \in Properties(us, M(n).off) /\ PropName(c, M(q)) = y
          /\ PropData(c, M(q)) = PropData(b, q)
      BY <2>5, <2>6, <3>1
    <3>4. V[p][y] = PropData(c, M(q))
      BY <2>3, <3>3
    <3> QED BY <3>2, <3>3, <3>4
  <2> QED BY <2>3, <2>4, <2>7, <2>8, Zenon DEF IsFunction
<1> QED BY <1>17, <1>19, <1>20, <1>21 DEF Added, V, W

\* The tags of b have room in c, and stand there.
Holds(b, ts, c) ==
    /\ Readable(b) /\ Walk(b, ts) /\ ts[Len(ts)].next # -1
    /\ Readable(c) /\ c.version = 17 /\ c.off_dt_struct = b.off_dt_struct
    /\ ts[Len(ts)].next <= c.size_dt_struct
    /\ Kept(b, c, b.off_dt_struct + ts[Len(ts)].next)

\* A walk whose bytes stand in another blob is a walk there.
LEMMA WalkKept ==
  ASSUME NEW b, NEW ts, NEW c, Holds(b, ts, c)
  PROVE  Walk(c, ts)
<1> DEFINE n == Len(ts)
           e == ts[n].next
<1>1. /\ Readable(b) /\ Walk(b, ts) /\ e # -1
      /\ Readable(c) /\ c.version = 17 /\ c.off_dt_struct = b.off_dt_struct
      /\ e <= c.size_dt_struct /\ Kept(b, c, b.off_dt_struct + e)
  BY DEF Holds
<1>2. n \in Nat /\ n >= 1 /\ ts \in Seq(TagSet)
  BY <1>1 DEF Walk, WalkFrom
<1>3. ASSUME NEW k \in 1 .. n
      PROVE  /\ ts[k].off \in Nat /\ ValidTag(b, ts[k].off)
             /\ TagSize(b, ts[k].off) \in Nat
             /\ ts[k].off + TagSize(b, ts[k].off) <= ts[k].next
             /\ ts[k].next \in Int /\ ts[k].next % 4 = 0
  BY <1>1, WholeTag, WalkTag DEF TagWhole
<1>4. ASSUME NEW k \in 1 .. n PROVE ts[k].next <= e
  <2>1. CASE k = n
    BY <1>2, <1>3, <2>1
  <2>2. CASE k # n
    <3>1. ts[k].next <= ts[n].off
      BY <1>1, <1>2, <2>2, WalkOrder
    <3>2. n \in 1 .. n
      BY <1>2
    <3>3. /\ ts[n].off \in Nat /\ TagSize(b, ts[n].off) \in Nat
          /\ ts[n].off + TagSize(b, ts[n].off) <= ts[n].next
          /\ ts[n].next \in Int
      BY <1>3, <3>2
    <3>4. ts[k].next \in Int
      BY <1>3
    <3> DEFINE f == ts[k].next
               g == ts[n].off
               m == TagSize(b, g)
    <3>5. f \in Int /\ g \in Nat /\ m \in Nat /\ e \in Int /\ g + m <= e
          /\ f <= g
      BY <3>1, <3>3, <3>4
    <3> HIDE DEF f, g, m, e
    <3>6. f <= e
      BY <3>5
    <3> QED BY <3>6 DEF f
  <2> QED BY <2>1, <2>2
<1>5. e \in Nat
  <2>1. n \in 1 .. n
    BY <1>2
  <2> QED BY <1>3, <2>1
<1>6. ASSUME NEW k \in 1 .. n, NEW p \in Path
      PROVE  Entry(c, ts[k].off, p) = Entry(b, ts[k].off, p)
  <2> DEFINE o == ts[k].off
             m == TagSize(b, o)
  <2>1. o \in Nat /\ ValidTag(b, o) /\ m \in Nat /\ o + m <= e
    <3>1. o \in Nat /\ ValidTag(b, o) /\ m \in Nat /\ o + m <= ts[k].next
          /\ ts[k].next <= e /\ ts[k].next \in Int
      BY <1>3, <1>4
    <3> QED BY <1>5, <3>1
  <2>2. fdt_offset_ptr(c, o, m)
    <3>1. /\ c.off_dt_struct \in Nat /\ c.size_dt_struct \in Nat
          /\ c.totalsize \in Nat
          /\ c.off_dt_struct + c.size_dt_struct <= c.totalsize
      BY <1>1, ReadNumbers DEF Readable
    <3> DEFINE S == c.off_dt_struct
               z == c.size_dt_struct
    <3>2. o \in Nat /\ m \in Nat /\ o + m <= e /\ e \in Nat /\ e <= z
          /\ S \in Nat /\ z \in Nat /\ c.totalsize \in Nat
          /\ S + z <= c.totalsize
      BY <1>1, <1>5, <2>1, <3>1
    <3> HIDE DEF o, m, e, S, z
    <3>3. o >= 0 /\ S + o + m <= c.totalsize /\ o + m <= z
      BY <3>2
    <3> QED BY <3>3 DEF fdt_offset_ptr, S, z
  <2> HIDE DEF e
  <2> QED BY <1>1, <1>5, <2>1, <2>2, EntryKept
<1>7. ts[1] = Entry(c, 0, <<>>)
  <2>1. 1 \in 1 .. n /\ ts[1].off = 0 /\ ts[1] = Entry(b, 0, <<>>)
        /\ <<>> \in Path
    <3>1. 1 \in 1 .. n
      BY <1>2
    <3>2. ts[1].off = 0
      BY <1>1, <3>1, WalkTag
    <3> QED BY <1>1, <3>1, <3>2 DEF Walk, WalkFrom, Path
  <2>2. Entry(c, ts[1].off, <<>>) = Entry(b, ts[1].off, <<>>)
    BY <1>6, <2>1
  <2> QED BY <2>1, <2>2
<1>8. ASSUME NEW k \in 1 .. n - 1
      PROVE  ~Stops(ts[k]) /\ ts[k + 1] = Entry(c, ts[k].next, Inside(ts[k]))
  <2>1. k \in 1 .. n /\ k + 1 \in 1 .. n /\ k # n
    BY <1>2
  <2>2. ~Stops(ts[k]) /\ ts[k + 1] = Entry(b, ts[k].next, Inside(ts[k]))
    BY <1>1 DEF Walk, WalkFrom
  <2>3. ts[k + 1].off = ts[k].next /\ ts[k] \in TagSet
    BY <1>1, <2>1, WalkTag
  <2>4. Inside(ts[k]) \in Path
    BY <2>2, <2>3, InsideTyped
  <2>5. Entry(c, ts[k + 1].off, Inside(ts[k])) = Entry(b, ts[k + 1].off, Inside(ts[k]))
    BY <1>6, <2>1, <2>4
  <2> QED BY <2>2, <2>3, <2>5
<1>9. Stops(ts[n]) /\ n # 0
  BY <1>1 DEF Walk, WalkFrom
<1> QED BY <1>2, <1>7, <1>8, <1>9 DEF Walk, WalkFrom

\* Where a tag ends no tag that begins before it is cut.
LEMMA WalkCut ==
  ASSUME NEW b, Readable(b), NEW s, Walk(b, s), NEW k \in 1 .. Len(s) - 1
  PROVE  Cut(ToSet(s), s[k].next) /\ s[k].off < s[k].next /\ s[k].next \in Nat
<1> DEFINE n == Len(s)
<1>1. s \in Seq(TagSet) /\ n \in Nat
  BY DEF Walk, WalkFrom
<1>2. ASSUME NEW i \in 1 .. n
      PROVE  s[i].off \in Nat /\ s[i].next \in Int /\ (i # n => s[i].off < s[i].next)
  <2>1. /\ s[i].off \in Nat /\ s[i].next \in Int
        /\ i # Len(s) => s[i].off + 4 <= s[i].next
    BY WalkTag
  <2> QED BY <2>1
<1>3. ASSUME NEW i \in 1 .. n, s[i].off < s[k].next PROVE s[i].next <= s[k].next
  <2>1. k \in 1 .. n /\ k # n
    BY <1>1
  <2>2. CASE i > k
    <3>1. s[k].next <= s[i].off
      BY <1>1, <2>1, <2>2, WalkOrder
    <3> QED BY <1>2, <1>3, <2>1, <3>1
  <2>3. CASE i < k
    <3>1. s[i].next <= s[k].off
      BY <1>1, <2>1, <2>3, WalkOrder
    <3> QED BY <1>2, <2>1, <3>1
  <2>4. CASE i = k
    BY <1>2, <2>1, <2>4
  <2> QED BY <1>1, <2>1, <2>2, <2>3, <2>4
<1>4. ASSUME NEW t \in ToSet(s), t.off < s[k].next PROVE t.next <= s[k].next
  <2>1. PICK i \in 1 .. n : t = s[i]
    BY <1>1 DEF ToSet
  <2> QED BY <1>3, <1>4, <2>1
<1>5. k \in 1 .. n /\ k # n
  BY <1>1
<1>6. s[k].off < s[k].next /\ s[k].next \in Nat
  BY <1>2, <1>5
<1> QED BY <1>4, <1>6 DEF Cut

\* The place of a new property: in front of the node's others.
LEMMA FrontPlace ==
  ASSUME NEW b, Readable(b), NEW s, Walk(b, s), NEW k \in 1 .. Len(s) - 1,
         s[k].tag = FDT_BEGIN_NODE
  PROVE  PropPlace(ToSet(s), s[k], s[k].next, 0)
<1> DEFINE T == ToSet(s)
           N == s[k]
           lo == s[k].next
<1>1. N \in T
  BY DEF Walk, WalkFrom, ToSet
<1>2. Apart(T) /\ Cut(T, lo) /\ N.off < lo /\ lo \in Nat
  BY WalkSet, WalkCut
<1>3. ASSUME NEW u \in T, N.off < u.off, u.off < lo PROVE FALSE
  <2>1. N.next <= u.off /\ u.off \in Nat
    BY <1>1, <1>3, <1>2 DEF Apart
  <2> QED BY <1>2, <1>3, <2>1
<1>4. InRun(T, N.off, lo)
  BY <1>3 DEF InRun
<1>5. \A t \in T : Stays(t, lo, 0)
  BY <1>2 DEF Stays, Apart
<1>6. N.next = lo + 0 /\ N.off < lo + 0
  BY <1>2
<1> QED BY <1>1, <1>2, <1>4, <1>5, <1>6 DEF PropPlace

\* The place of a property that is there.
LEMMA SamePlace ==
  ASSUME NEW b, Readable(b), NEW s, Walk(b, s), NEW k \in 1 .. Len(s) - 1,
         NEW N, N \in Nodes(s), s[k + 1] \in Properties(s, N.off)
  PROVE  /\ k + 1 \in 1 .. Len(s) - 1
         /\ s[k + 1].off = s[k].next /\ s[k].next < s[k + 1].next
         /\ s[k + 1].next \in Nat
         /\ PropPlace(ToSet(s), N, s[k].next, s[k + 1].next - s[k].next)
         /\ \A t \in ToSet(s) :
              ~Stays(t, s[k].next, s[k + 1].next - s[k].next) => t = s[k + 1]
<1> DEFINE T == ToSet(s)
           g == s[k + 1]
           lo == s[k].next
<1>1. s \in Seq(TagSet) /\ Len(s) \in Nat /\ k \in 1 .. Len(s) /\ k # Len(s)
  BY DEF Walk, WalkFrom
<1>2. k + 1 \in 1 .. Len(s) /\ g.off = lo
  BY <1>1, WalkTag
<1>3. g \in T /\ g.tag = FDT_PROP /\ N.off < g.off /\ InRun(T, N.off, g.off)
  BY PropertiesAre
<1>4. k + 1 # Len(s)
  BY <1>3, WalkTag, <1>2 DEF Stops, FDT_PROP, FDT_END, FDT_END_NODE
<1>5. k + 1 \in 1 .. Len(s) - 1
  BY <1>1, <1>2, <1>4
<1>6. g.next \in Nat /\ g.off < g.next /\ lo \in Nat
  BY <1>5, WalkCut
<1>7. N \in T /\ N.tag = FDT_BEGIN_NODE /\ Apart(T)
  BY NodesAre, WalkSet
<1> DEFINE old == g.next - lo
<1>8. lo + old = g.next /\ lo < g.next
  BY <1>2, <1>6
<1>9. ASSUME NEW t \in T, ~Stays(t, lo, old) PROVE t = g
  <2>1. g.off <= t.off /\ t.off < g.next /\ t.off \in Nat
    BY <1>2, <1>6, <1>7, <1>8, <1>9 DEF Stays, Apart
  <2>2. ~(g.off < t.off)
    <3>1. g.off < t.off => g.next <= t.off
      BY <1>3, <1>7 DEF Apart
    <3> QED BY <1>6, <2>1, <3>1
  <2>3. g.off = t.off
    BY <1>2, <1>6, <2>1, <2>2
  <2> QED BY <1>3, <1>7, <2>3 DEF Apart
<1> HIDE DEF old
<1>10. PropPlace(T, N, lo, old)
  <2>1. g.next = lo + old /\ g.off < lo + old
    BY <1>2, <1>8
  <2>2. g.tag \in {FDT_BEGIN_NODE, FDT_PROP}
    BY <1>3
  <2>3. N.off < lo /\ InRun(T, N.off, lo)
    BY <1>2, <1>3
  <2>4. \A t \in T : ~Stays(t, lo, old) => t.tag = FDT_PROP
    BY <1>3, <1>9
  <2> HIDE DEF lo, g
  <2> QED BY <1>3, <1>7, <2>1, <2>2, <2>3, <2>4 DEF PropPlace
<1> QED BY <1>2, <1>5, <1>6, <1>8, <1>9, <1>10 DEF old

\* A string of characters, that has no NUL.
NameString(s) == s \in Seq(Nat) /\ \A i \in 1 .. Len(s) : s[i] # NUL

\* A name that stands at an offset of the strings is the name read there.
LEMMA NameHere ==
  ASSUME NEW c, Standing(c), NEW off \in Nat, NEW name, NameString(name),
         StringAt(c, off, name)
  PROVE  StringHere(c, off) = name
<1> DEFINE n == Len(name)
           x == c.off_dt_strings + off
           y == c.off_dt_strings + c.size_dt_strings
<1>1. /\ c \in Blob /\ c.off_dt_strings \in Nat /\ c.size_dt_strings \in Nat
      /\ HeaderSize <= c.off_dt_strings /\ End(c) \in Nat /\ y <= End(c)
  BY StandNumbers
<1>2. n \in Nat /\ name \in Seq(Nat) /\ HeaderSize \in Nat
  BY DEF NameString, HeaderSize
<1>3. off + n < c.size_dt_strings /\ Bytes(c, x, n + 1) = Append(name, NUL)
  BY DEF StringAt
<1>4. HeaderSize <= x /\ x + (n + 1) <= End(c) /\ x + n < y /\ x \in Nat
      /\ y \in Nat
  BY SMTT(60), <1>1, <1>2, <1>3
<1>5. \A i \in 1 .. n + 1 : Append(name, NUL)[i] = Byte(c, x + i - 1)
  <2>1. n + 1 \in Nat /\ x \in Int
    BY <1>2, <1>4
  <2>2. \A i \in 1 .. n + 1 : Bytes(c, x, n + 1)[i] = Byte(c, x + i - 1)
    BY <1>1, <1>4, <2>1, BytesOf
  <2> QED BY <1>3, <2>2
<1>6. StringOf(c, x, n)
  <2>1. Byte(c, x + n) = NUL
    <3>1. Append(name, NUL)[n + 1] = NUL /\ n + 1 \in 1 .. n + 1
      BY <1>2 DEF NUL
    <3>2. x + (n + 1) - 1 = x + n
      BY <1>2, <1>4
    <3> QED BY <1>5, <3>1, <3>2
  <2>2. ASSUME NEW i \in 0 .. n - 1 PROVE Byte(c, x + i) # NUL
    <3>1. i + 1 \in 1 .. n /\ i + 1 \in 1 .. n + 1 /\ x + (i + 1) - 1 = x + i
      BY <1>2, <1>4
    <3>2. Append(name, NUL)[i + 1] = name[i + 1]
      BY <1>2, <3>1 DEF NUL
    <3> QED BY <1>5, <3>1, <3>2 DEF NameString
  <2> QED BY <1>2, <2>1, <2>2 DEF StringOf
<1>7. CString(c, x, y) = Bytes(c, x, n)
  BY <1>2, <1>4, <1>6, StringIs
<1>8. Bytes(c, x, n) = name
  <2>1. /\ Bytes(c, x, n) \in Seq(Cell) /\ Len(Bytes(c, x, n)) = n
        /\ \A i \in 1 .. n : Bytes(c, x, n)[i] = Byte(c, x + i - 1)
    <3>1. x \in Int /\ x + n <= End(c)
      BY <1>1, <1>2, <1>4
    <3> QED BY <1>1, <1>2, <1>4, <3>1, BytesOf
  <2>2. ASSUME NEW i \in 1 .. n PROVE Bytes(c, x, n)[i] = name[i]
    <3>1. i \in 1 .. n + 1 /\ Append(name, NUL)[i] = name[i]
      BY <1>2 DEF NUL
    <3> QED BY <1>5, <2>1, <3>1
  <2>3. name \in Seq(Cell)
    BY <1>2 DEF Cell
  <2> QED BY <2>1, <2>2, <2>3
<1> QED BY <1>7, <1>8 DEF StringHere

\* A property's words, name and value stand at an offset.
Written(c, lo, name, off, val) ==
    /\ Byte(c, c.off_dt_struct + lo) = FDT_PROP
    /\ Byte(c, c.off_dt_struct + lo + 4) = Len(val)
    /\ Byte(c, c.off_dt_struct + lo + 8) = off
    /\ Bytes(c, c.off_dt_struct + lo + 12, Len(val)) = val
    /\ off \in 0 .. c.size_dt_strings - 1 /\ StringAt(c, off, name)

PropSize(val) == PropertySize + FDT_TAGALIGN(Len(val))

PropTagOf(lo, val, p) == [tag |-> FDT_PROP, off |-> lo,
                          next |-> lo + PropSize(val), path |-> p]

\* They are a property of that name and value.
LEMMA PropIs ==
  ASSUME NEW c, LaidOut(c), NEW lo \in Nat, lo % 4 = 0, NEW name,
         NameString(name),
         NEW off, NEW val \in Seq(Cell), Written(c, lo, name, off, val),
         lo + PropSize(val) <= c.size_dt_struct, NEW p,
         NEW x, x = PropTagOf(lo, val, p)
  PROVE  /\ Entry(c, lo, p) = x /\ PropertyWhole(c, x)
         /\ PropName(c, x) = name /\ PropData(c, x) = val
<1> DEFINE S == c.off_dt_struct
<1>1. S \in Nat /\ Standing(c) /\ Len(val) \in Nat
  BY LaidNumbers, LaidOutStanding
<1>2. /\ x.off = lo /\ Byte(c, S + lo) = FDT_PROP
      /\ Byte(c, S + lo + 4) = Len(val) /\ Byte(c, S + lo + 8) = off
      /\ Bytes(c, S + lo + 12, Len(val)) = val
      /\ off \in 0 .. c.size_dt_strings - 1 /\ StringAt(c, off, name)
  BY DEF Written, PropTagOf
<1>3. Entry(c, lo, p) = x
  <2>1. Entry(c, lo, p) =
            [tag |-> FDT_PROP, off |-> lo,
             next |-> lo + (PropertySize + FDT_TAGALIGN(Len(val))), path |-> p]
    <3> DEFINE len == Len(val)
    <3>1. /\ len \in Nat /\ Byte(c, c.off_dt_struct + lo) = FDT_PROP
          /\ Byte(c, c.off_dt_struct + lo + 4) = len
          /\ lo + (PropertySize + FDT_TAGALIGN(len)) <= c.size_dt_struct
      BY <1>1, <1>2 DEF PropSize
    <3> HIDE DEF len
    <3>2. Entry(c, lo, p) =
            [tag |-> FDT_PROP, off |-> lo,
             next |-> lo + (PropertySize + FDT_TAGALIGN(len)), path |-> p]
      BY <3>1, PropTag
    <3> QED BY <3>2 DEF len
  <2> QED BY <2>1 DEF PropTagOf, PropSize
<1>4. PropLen(c, x) = Len(val) /\ PropNameOff(c, x) = off
      /\ PropData(c, x) = val
  BY <1>2 DEF PropLen, PropNameOff, PropData, PropertySize
<1>5. PropName(c, x) = name
  <2>1. StringHere(c, off) = name
    BY <1>1, <1>2, NameHere
  <2> QED BY <1>4, <2>1 DEF PropName, StringHere
<1>6. PropertyWhole(c, x)
  BY <1>1, <1>2, <1>4, <1>5 DEF PropertyWhole, Junk
<1> QED BY <1>3, <1>4, <1>5, <1>6

\* A property's words put between two tags, for those that were there.
PropPut(b, ts, k, j, c, name, off, val) ==
    /\ Sound(b, ts) /\ NameString(name) /\ val \in Seq(Cell)
    /\ k \in 1 .. Len(ts) - 1 /\ j \in k .. Len(ts) - 1
    /\ Inside(ts[k]) = Inside(ts[j])
    /\ Edited(b, c, ts[k].next, ts[j].next - ts[k].next, PropSize(val))
    /\ Written(c, ts[k].next, name, off, val)

Put(ts, k, j, val) ==
    Replaced(ts, k, j, <<PropTagOf(ts[k].next, val, Inside(ts[k]))>>,
             PropSize(val) - (ts[j].next - ts[k].next))

PutAt(ts, k, j, val, lo, old, new, x, us) ==
    /\ lo = ts[k].next /\ old = ts[j].next - lo /\ new = PropSize(val)
    /\ x = PropTagOf(lo, val, Inside(ts[k])) /\ us = Put(ts, k, j, val)

\* They are one tag of the walk in the place of those.
LEMMA PutWalk ==
  ASSUME NEW b, NEW ts, NEW k, NEW j, NEW c, NEW name, NEW off, NEW val,
         PropPut(b, ts, k, j, c, name, off, val),
         NEW lo, NEW old, NEW new, NEW x, NEW us,
         PutAt(ts, k, j, val, lo, old, new, x, us)
  PROVE  /\ lo \in Nat /\ old \in Nat /\ new \in Nat /\ new > 0
         /\ Cut(ToSet(ts), lo) /\ lo + old <= b.size_dt_struct
         /\ Walk(c, us) /\ us[Len(us)].next # -1
         /\ x.tag = FDT_PROP /\ x.off = lo
         /\ ExchangedFor(ToSet(ts), ToSet(us), lo, old, new - old, x)
         /\ PropertyWhole(c, x) /\ PropName(c, x) = name
         /\ PropData(c, x) = val
<1> DEFINE n == Len(ts)
<1>0. /\ lo = ts[k].next /\ old = ts[j].next - lo /\ new = PropSize(val)
      /\ x = PropTagOf(lo, val, Inside(ts[k])) /\ us = Put(ts, k, j, val)
  BY DEF PutAt
<1>1. /\ LaidOut(b) /\ Readable(b) /\ Walk(b, ts) /\ ts[n].next # -1
      /\ k \in 1 .. n - 1 /\ j \in k .. n - 1 /\ Inside(ts[k]) = Inside(ts[j])
      /\ Edited(b, c, lo, old, new) /\ NameString(name) /\ val \in Seq(Cell)
      /\ Written(c, lo, name, off, val)
  BY <1>0, LaidOutReadable DEF PropPut, Sound
<1>2. n \in Nat /\ ts \in Seq(TagSet)
  BY <1>1 DEF Walk, WalkFrom
<1>3. Cut(ToSet(ts), lo) /\ lo \in Nat
  BY <1>0, <1>1, WalkCut
<1>4. ASSUME NEW i \in 1 .. n
      PROVE  /\ ts[i].next % 4 = 0 /\ ts[i].next <= b.size_dt_struct
             /\ ts[i].off \in Nat /\ ts[i].next \in Nat
             /\ ts[i].off < ts[i].next
             /\ ts[i].path \in Path /\ ts[i] \in TagSet
  <2>1. /\ ts[i].next % 4 = 0 /\ ts[i].next <= BlockEnd(b)
        /\ ts[i].off + 4 <= ts[i].next
    BY <1>1, WholeTag
  <2>2. BlockEnd(b) = b.size_dt_struct
    BY <1>1, LaidOutReadable
  <2>3. ts[i].off \in Nat /\ ts[i].next \in Int /\ ts[i].path \in Path
        /\ ts[i] \in TagSet
    BY <1>1, WalkTag
  <2> QED BY <2>1, <2>2, <2>3
<1>5. k \in 1 .. n /\ j \in 1 .. n /\ n \in 1 .. n /\ j # n /\ k # n
  BY <1>1, <1>2
<1>6. ts[k].next <= ts[j].next
  <2>1. CASE k = j
    BY <1>4, <1>5, <2>1
  <2>2. CASE k # j
    <3>1. ts[k].next <= ts[j].off
      BY <1>1, <1>5, <2>2, WalkOrder
    <3> QED BY <1>4, <1>5, <3>1
  <2> QED BY <2>1, <2>2
<1>7. /\ old \in Nat /\ ts[j].next = lo + old /\ old % 4 = 0 /\ lo % 4 = 0
      /\ lo + old <= b.size_dt_struct
  <2> DEFINE f == ts[k].next
             g == ts[j].next
             z == b.size_dt_struct
  <2>1. f \in Nat /\ g \in Nat /\ f <= g /\ f % 4 = 0 /\ g % 4 = 0 /\ g <= z
    BY <1>4, <1>5, <1>6
  <2> HIDE DEF f, g, z
  <2>2. g - f \in Nat /\ g = f + (g - f) /\ (g - f) % 4 = 0 /\ f + (g - f) <= z
    BY <2>1
  <2>3. lo = f /\ old = g - f
    BY <1>0 DEF f, g
  <2>4. old \in Nat /\ g = lo + old /\ old % 4 = 0 /\ lo % 4 = 0
        /\ lo + old <= z
    BY <2>1, <2>2, <2>3
  <2> QED BY <2>4 DEF g, z
<1>8. new \in Nat /\ new > 0 /\ new % 4 = 0 /\ (new - old) % 4 = 0
      /\ new - old \in Int
  <2>1. FDT_TAGALIGN(Len(val)) \in Nat /\ FDT_TAGALIGN(Len(val)) % 4 = 0
    <3> DEFINE m == Len(val)
    <3>1. m \in Nat
      BY <1>1
    <3> HIDE DEF m
    <3>2. FDT_TAGALIGN(m) \in Int /\ m <= FDT_TAGALIGN(m)
          /\ FDT_TAGALIGN(m) % 4 = 0
      BY <3>1, TagAlign
    <3>3. FDT_TAGALIGN(m) \in Nat
      BY <3>1, <3>2
    <3> QED BY <3>2, <3>3 DEF m
  <2>2. new = 12 + FDT_TAGALIGN(Len(val))
    BY <1>0 DEF PropSize, PropertySize
  <2> DEFINE a == FDT_TAGALIGN(Len(val))
  <2>3. a \in Nat /\ a % 4 = 0 /\ new = 12 + a /\ old \in Nat /\ old % 4 = 0
    BY <1>7, <2>1, <2>2
  <2> HIDE DEF a
  <2> QED BY <2>3
<1>9. LaidOut(c) /\ lo + new <= c.size_dt_struct
  <2>1. LaidOut(c)
    BY <1>1, <1>3, <1>7, <1>8, EditedLaidOut
  <2>2. c.size_dt_struct = b.size_dt_struct + new - old
        /\ b.size_dt_struct \in Nat
    BY <1>1, LaidNumbers DEF Edited
  <2> DEFINE y == b.size_dt_struct
             z == c.size_dt_struct
  <2>3. y \in Nat /\ z = y + new - old /\ lo + old <= y
    BY <1>7, <2>2
  <2> HIDE DEF y, z
  <2>4. lo + new <= z
    BY <1>3, <1>7, <1>8, <2>3
  <2> QED BY <2>1, <2>4 DEF z
<1>10. /\ Entry(c, lo, Inside(ts[k])) = x /\ PropertyWhole(c, x)
       /\ PropName(c, x) = name /\ PropData(c, x) = val
  BY SMTT(60), <1>0, <1>1, <1>3, <1>7, <1>9, PropIs
<1>11. x.tag = FDT_PROP /\ x.off = lo /\ x.next = lo + new
       /\ x.path = Inside(ts[k]) /\ Inside(x) = Inside(ts[k]) /\ ~Stops(x)
  BY <1>0 DEF PropTagOf, Inside, Stops, FDT_PROP, FDT_END_NODE, FDT_END
<1>12. Inside(ts[k]) \in Path
  <2>1. ~Stops(ts[k]) /\ ts[k] \in TagSet
    BY <1>1, <1>5, WalkTag
  <2> QED BY <2>1, InsideTyped
<1>13. x \in TagSet
  BY <1>0, <1>3, <1>8, <1>12 DEF PropTagOf, TagSet, FDT_PROP
<1>14. NewTags(c, lo, lo + new, Inside(ts[k]), Inside(ts[j]), <<x>>)
  <2> DEFINE ns == <<x>>
  <2>1. ns \in Seq(TagSet) /\ Len(ns) = 1 /\ ns[1] = x
    BY <1>13
  <2> HIDE DEF ns
  <2>2. \A i \in 1 .. Len(ns) : i = 1
    BY <2>1
  <2>3. \A i \in 1 .. Len(ns) - 1 : FALSE
    BY <2>1
  <2>4. NewTags(c, lo, lo + new, Inside(ts[k]), Inside(ts[j]), ns)
    BY <1>1, <1>10, <1>11, <2>1, <2>2, <2>3 DEF NewTags
  <2> QED BY <2>4 DEF ns
<1>15. Changed(b, ts, k, j, lo, old, new, c, <<x>>)
  BY <1>0, <1>1, <1>7, <1>8, <1>14 DEF Changed
<1>16. us = Replaced(ts, k, j, <<x>>, new - old)
  BY <1>0 DEF Put
<1>17. Walk(c, us)
  BY <1>3, <1>7, <1>8, <1>15, <1>16, ReplaceWalk
<1>18. /\ Exchanged(ToSet(ts), ToSet(us), lo, old, new - old, ToSet(<<x>>))
       /\ us[Len(us)].next = ts[Len(ts)].next + (new - old)
  <2> DEFINE ns == <<x>>
  <2>1. /\ Changed(b, ts, k, j, lo, old, new, c, ns)
        /\ us = Replaced(ts, k, j, ns, new - old)
        /\ lo \in Nat /\ old \in Nat /\ new \in Nat
    BY <1>3, <1>7, <1>8, <1>15, <1>16
  <2> HIDE DEF ns
  <2>2. /\ Exchanged(ToSet(ts), ToSet(us), lo, old, new - old, ToSet(ns))
        /\ us[Len(us)].next = ts[Len(ts)].next + (new - old)
        /\ us[1] = ts[1]
    BY <2>1, ReplacedSet
  <2> QED BY <2>2 DEF ns
<1>19. ToSet(<<x>>) = {x}
  BY DEF ToSet
<1>20. us[Len(us)].next # -1
  <2>1. ts[j].next <= ts[n].off
    BY <1>1, <1>2, <1>5, WalkOrder
  <2>2. ts[n].off < ts[n].next /\ ts[n].off \in Nat /\ ts[n].next \in Nat
    BY <1>4, <1>5
  <2> DEFINE f == ts[n].next
             g == ts[n].off
             h == us[Len(us)].next
  <2>3. f \in Nat /\ g \in Nat /\ lo + old <= g /\ g < f /\ h = f + (new - old)
    BY <1>7, <1>18, <2>1, <2>2
  <2> HIDE DEF f, g, h
  <2>4. h # -1
    BY <1>3, <1>7, <1>8, <2>3
  <2> QED BY <2>4 DEF h
<1>21. ExchangedFor(ToSet(ts), ToSet(us), lo, old, new - old, x)
  BY <1>18, <1>19 DEF ExchangedFor
<1> HIDE DEF n
<1> QED BY <1>3, <1>7, <1>8, <1>10, <1>11, <1>17, <1>20, <1>21

\* A property is found by its name.
Finds(b, ts, N, name, q) ==
    /\ q \in Properties(ts, N.off) /\ PropName(b, q) = name
    /\ fdt_get_property(b, ts, N.off, name) = q.off
    /\ TagAt(ts, q.off) = q /\ q.off \in Nat

Lacks(b, ts, N, name) ==
    /\ \A q \in Properties(ts, N.off) : PropName(b, q) # name
    /\ fdt_get_property(b, ts, N.off, name) = -1

\* fdt_get_property finds it, or there is none (fdt_ro.c:400-453).
LEMMA GetProperty ==
  ASSUME NEW b, NEW ts, Standing(b), Apart(ToSet(ts)), PropertiesApart(b, ts),
         Wholes(b, ts), NEW N \in Nodes(ts), NEW name, NameString(name)
  PROVE  Lacks(b, ts, N, name) \/ \E q : Finds(b, ts, N, name, q)
<1> DEFINE P == Properties(ts, N.off)
           F == {p \in P : StringAt(b, PropNameOff(b, p), name)}
           r == fdt_get_property(b, ts, N.off, name)
<1>1. r = IF F = {} THEN -1 ELSE Min({p.off : p \in F})
  BY DEF fdt_get_property
<1>2. \A q \in P : q \in ToSet(ts) /\ q.tag = FDT_PROP /\ q.off \in Nat
  BY PropertiesAre DEF Apart
<1>3. ASSUME NEW q \in P
      PROVE  StringAt(b, PropNameOff(b, q), name) <=> PropName(b, q) = name
  <2>1. PropertyWhole(b, q)
    BY <1>2 DEF Wholes
  <2>2. PropName(b, q) = StringHere(b, PropNameOff(b, q))
    BY DEF PropName, StringHere
  <2>3. PropNameOff(b, q) \in Nat
        /\ StringAt(b, PropNameOff(b, q), PropName(b, q))
    BY <2>1, StandNumbers DEF PropertyWhole
  <2>4. StringAt(b, PropNameOff(b, q), name) => PropName(b, q) = name
    BY <2>2, <2>3, NameHere
  <2> QED BY <2>3, <2>4
<1>4. \A p, q \in P : PropName(b, p) = PropName(b, q) => p = q
  BY DEF PropertiesApart
<1>5. CASE F = {}
  BY <1>1, <1>3, <1>5 DEF Lacks
<1>6. CASE F # {}
  <2>1. PICK q \in F : TRUE
    BY <1>6
  <2>2. q \in P /\ PropName(b, q) = name
    BY <1>3, <2>1
  <2>3. F = {q}
    BY <1>3, <1>4, <2>1, <2>2
  <2>4. {p.off : p \in F} = {q.off}
    BY <2>3
  <2>5. Min({q.off}) = q.off
    <3>1. {q.off} \subseteq Int /\ q.off \in {q.off} /\ \A k \in {q.off} : q.off <= k
      BY <1>2, <2>2
    <3> QED BY <3>1, MinIs
  <2>6. r = q.off
    BY <1>1, <1>6, <2>4, <2>5
  <2>7. TagAt(ts, q.off) = q
    BY <1>2, <2>2 DEF TagAt, Apart
  <2> QED BY <1>2, <2>2, <2>6, <2>7 DEF Finds
<1> QED BY <1>5, <1>6

\* A string is found where it stands.
LEMMA FindString ==
  ASSUME NEW b \in Blob, NEW name, NEW r, r = fdt_find_string_len_(b, name)
  PROVE  /\ r >= 0 => r \in 0 .. b.size_dt_strings - 1 /\ StringAt(b, r, name)
         /\ (\E p \in 0 .. b.size_dt_strings - 1 : StringAt(b, p, name)) => r >= 0
         /\ r \in Int
<1> DEFINE F == {p \in 0 .. b.size_dt_strings - 1 : StringAt(b, p, name)}
<1>1. r = IF F = {} THEN -1 ELSE Min(F)
  BY DEF fdt_find_string_len_
<1>2. F \subseteq Nat /\ b.size_dt_strings \in Nat
  BY DEF Blob
<1>3. F # {} => Min(F) \in F
  BY <1>2, MinOf
<1> QED BY <1>1, <1>2, <1>3

\* c is b with more strings.
StringsAdded(b, c, n) ==
    /\ LaidOut(c) /\ c.totalsize = b.totalsize
    /\ c.off_mem_rsvmap = b.off_mem_rsvmap
    /\ c.off_dt_struct = b.off_dt_struct
    /\ c.size_dt_struct = b.size_dt_struct
    /\ c.off_dt_strings = b.off_dt_strings
    /\ b.size_dt_strings <= c.size_dt_strings
    /\ c.size_dt_strings <= b.size_dt_strings + n
    /\ Kept(b, c, fdt_data_size_(b))

\* A string is added behind the others, if it is not among them.
LEMMA AddString ==
  ASSUME NEW b, LaidOut(b), NEW name, NameString(name),
         fdt_data_size_(b) + Len(name) + 1 <= b.totalsize,
         NEW r, r = fdt_find_add_string_(b, name)
  PROVE  /\ r.ret = Done /\ StringsAdded(b, r.b, Len(name) + 1)
         /\ \E p \in 0 .. r.b.size_dt_strings - 1 : StringAt(r.b, p, name)
<1> DEFINE n == Len(name)
           data == fdt_data_size_(b)
<1>1. n \in Nat /\ name \in Seq(Nat) /\ data \in Nat
      /\ b \in Blob /\ b.off_dt_strings \in Nat /\ b.size_dt_strings \in Nat
      /\ data = b.off_dt_strings + b.size_dt_strings /\ HeaderSize <= data
      /\ data <= End(b)
  <2>1. /\ b \in Blob /\ b.off_dt_strings \in Nat /\ b.size_dt_strings \in Nat
        /\ b.off_dt_struct \in Nat /\ b.size_dt_struct \in Nat
        /\ HeaderSize <= b.off_dt_struct
        /\ b.off_dt_struct + b.size_dt_struct <= data
        /\ data = b.off_dt_strings + b.size_dt_strings
        /\ data \in Nat /\ data <= End(b)
    BY LaidNumbers
  <2> HIDE DEF data
  <2>2. HeaderSize <= data
    BY <2>1 DEF HeaderSize
  <2>3. n \in Nat /\ name \in Seq(Nat)
    BY DEF NameString
  <2> QED BY <2>1, <2>2, <2>3
<1>2. CASE fdt_find_string_len_(b, name) >= 0
  <2>1. r.ret = Done /\ r.b = b
    BY <1>2 DEF fdt_find_add_string_, Result
  <2>2. StringsAdded(b, b, n + 1)
    BY <1>1 DEF StringsAdded, Kept
  <2>3. \E p \in 0 .. b.size_dt_strings - 1 : StringAt(b, p, name)
    BY <1>1, <1>2, FindString
  <2> QED BY <2>1, <2>2, <2>3
<1>3. CASE ~(fdt_find_string_len_(b, name) >= 0)
  <2> DEFINE s == fdt_splice_(b, data, 0, n + 1)
             e == [s.b EXCEPT !.size_dt_strings = @ + (n + 1)]
             bytes == Append(name, NUL)
             c == Store(e, fdt_data_size_(b), bytes)
  <2>1. s.ret = Done /\ Spliced(b, s.b, data, 0, n + 1)
    <3> DEFINE m == n + 1
    <3>1. m \in Nat /\ 0 \in Nat /\ data + 0 <= data
          /\ ~(data - 0 + m > b.totalsize)
      BY SMTT(60), <1>1, LaidNumbers
    <3>2. s = fdt_splice_(b, data, 0, m)
      OBVIOUS
    <3> HIDE DEF m, s, data
    <3>3. IF fdt_data_size_(b) - 0 + m > b.totalsize
          THEN s = Result(NoSpace, b)
          ELSE s.ret = Done /\ Spliced(b, s.b, data, 0, m)
      BY <1>1, <3>1, <3>2, Splice DEF data
    <3> QED BY <3>1, <3>3 DEF m, data
  <2>2. s.b \in Blob /\ s.b = [b EXCEPT !.mem = s.b.mem]
        /\ End(s.b) = data + (n + 1) - 0 /\ Kept(b, s.b, data)
    BY <2>1 DEF Spliced
  <2>3. r = Result(Done, c)
    <3>1. fdt_splice_string_(b, n + 1) = Result(Done, e)
      BY <2>1 DEF fdt_splice_string_, AndThen
    <3>2. AndThen(Result(Done, e), LAMBDA f : Result(Done, Store(f, data, bytes)))
            = Result(Done, Store(e, data, bytes))
      BY DEF AndThen, Result
    <3> QED BY <1>3, <3>1, <3>2 DEF fdt_find_add_string_
  <2>4. /\ e \in Blob /\ End(e) = data + (n + 1)
        /\ e.version = b.version /\ e.totalsize = b.totalsize
        /\ e.off_mem_rsvmap = b.off_mem_rsvmap
        /\ e.off_dt_struct = b.off_dt_struct
        /\ e.size_dt_struct = b.size_dt_struct
        /\ e.off_dt_strings = b.off_dt_strings
        /\ e.size_dt_strings = b.size_dt_strings + (n + 1)
        /\ e.mem = s.b.mem
    <3> DEFINE f == s.b
    <3>1. f \in Blob /\ f = [b EXCEPT !.mem = f.mem]
          /\ End(f) = data + (n + 1) - 0
      BY <2>2
    <3>2. e = [f EXCEPT !.size_dt_strings = @ + (n + 1)]
      OBVIOUS
    <3> HIDE DEF f, e, n, data
    <3>3. /\ f.version = b.version /\ f.totalsize = b.totalsize
          /\ f.off_mem_rsvmap = b.off_mem_rsvmap
          /\ f.off_dt_struct = b.off_dt_struct
          /\ f.size_dt_struct = b.size_dt_struct
          /\ f.off_dt_strings = b.off_dt_strings
          /\ f.size_dt_strings = b.size_dt_strings
      BY <1>1, <3>1 DEF Blob
    <3> DEFINE z == f.size_dt_strings + (n + 1)
    <3>9. e = [f EXCEPT !.size_dt_strings = z] /\ z \in Nat
      BY SMTT(60), <1>1, <3>1, <3>2, <3>3 DEF Blob
    <3> HIDE DEF z
    <3>4. e \in Blob
      BY <3>1, <3>9 DEF Blob
    <3>5. e.mem = f.mem /\ e.size_dt_strings = f.size_dt_strings + (n + 1)
      BY <3>1, <3>9 DEF Blob, z
    <3>6. /\ e.version = f.version /\ e.totalsize = f.totalsize
          /\ e.off_mem_rsvmap = f.off_mem_rsvmap
          /\ e.off_dt_struct = f.off_dt_struct
          /\ e.size_dt_struct = f.size_dt_struct
          /\ e.off_dt_strings = f.off_dt_strings
      BY <3>1, <3>9 DEF Blob
    <3>7. End(e) = End(f) /\ data + (n + 1) - 0 = data + (n + 1)
      BY <1>1, <3>5 DEF End
    <3>8. e.mem = s.b.mem
      BY <3>5 DEF f
    <3> QED BY <3>1, <3>3, <3>4, <3>5, <3>6, <3>7, <3>8
  <2> HIDE DEF e
  <2>5. bytes \in Seq(Cell) /\ Len(bytes) = n + 1
    <3>0. name \in Seq(Nat)
      BY DEF NameString
    <3>1. name \in Seq(Cell) /\ NUL \in Cell
      BY <3>0 DEF Cell, NUL
    <3> HIDE DEF data, s
    <3> QED BY <1>1, <3>1
  <2> HIDE DEF bytes
  <2>6. StoredAt(e, Store(e, data, bytes), data, bytes)
    <3>1. data \in Int /\ data + Len(bytes) <= End(e)
      BY <1>1, <2>4, <2>5
    <3> HIDE DEF data
    <3> QED BY <1>1, <2>4, <2>5, <3>1, StoreWrites
  <2> DEFINE g == Store(e, data, bytes)
  <2>7. /\ g \in Blob /\ g = [e EXCEPT !.mem = g.mem]
        /\ End(g) = data + (n + 1)
        /\ \A y \in HeaderSize .. End(e) - 1 :
              Byte(g, y) = IF data <= y /\ y < data + (n + 1)
                           THEN bytes[y - data + 1] ELSE Byte(e, y)
    BY <2>4, <2>5, <2>6 DEF StoredAt
  <2> HIDE DEF g
  <2>8. /\ g.version = b.version /\ g.totalsize = b.totalsize
        /\ g.off_mem_rsvmap = b.off_mem_rsvmap
        /\ g.off_dt_struct = b.off_dt_struct
        /\ g.size_dt_struct = b.size_dt_struct
        /\ g.off_dt_strings = b.off_dt_strings
        /\ g.size_dt_strings = b.size_dt_strings + (n + 1)
    <3>1. /\ g.version = e.version /\ g.totalsize = e.totalsize
          /\ g.off_mem_rsvmap = e.off_mem_rsvmap
          /\ g.off_dt_struct = e.off_dt_struct
          /\ g.size_dt_struct = e.size_dt_struct
          /\ g.off_dt_strings = e.off_dt_strings
          /\ g.size_dt_strings = e.size_dt_strings
      BY <2>4, <2>7 DEF Blob
    <3> QED BY <2>4, <3>1
  <2>9. fdt_data_size_(g) = data + (n + 1)
    <3> HIDE DEF n, data
    <3> QED BY <1>1, <2>8 DEF fdt_data_size_
  <2>10. Kept(b, g, data)
    <3> SUFFICES ASSUME NEW y \in HeaderSize .. data - 1 PROVE Byte(g, y) = Byte(b, y)
      BY DEF Kept
    <3>1. Byte(s.b, y) = Byte(b, y)
      BY <2>2 DEF Kept
    <3>2. Byte(e, y) = Byte(s.b, y)
      BY <2>4 DEF Byte
    <3>3. y \in HeaderSize .. End(e) - 1 /\ ~(data <= y)
      <4> HIDE DEF n, data
      <4> QED BY <1>1, <2>4
    <3> QED BY <2>7, <3>1, <3>2, <3>3
  <2>11. LaidOut(g)
    <3>1. data + (n + 1) <= b.totalsize
      <4> HIDE DEF n
      <4>1. fdt_data_size_(b) + n + 1 <= b.totalsize
        BY DEF n
      <4> HIDE DEF data
      <4>2. data + n + 1 <= b.totalsize /\ b.totalsize \in Nat
        BY <4>1, LaidNumbers DEF data
      <4> QED BY <1>1, <4>2
    <3>2. fdt_data_size_(g) <= g.totalsize /\ fdt_data_size_(g) <= End(g)
      BY <2>7, <2>8, <2>9, <3>1, <1>1
    <3> QED BY <2>7, <2>8, <3>2 DEF LaidOut
  <2>12. StringsAdded(b, g, n + 1)
    <3>1. b.size_dt_strings <= g.size_dt_strings
          /\ g.size_dt_strings <= b.size_dt_strings + (n + 1)
      BY <1>1, <2>8
    <3> QED BY <2>8, <2>10, <2>11, <3>1 DEF StringsAdded
  <2>13. StringAt(g, b.size_dt_strings, name)
    <3>1. Bytes(g, data, n + 1) = bytes
      <4>1. n + 1 \in Nat /\ data \in Int /\ data + (n + 1) <= End(g)
        BY <1>1, <2>7
      <4>2. /\ Bytes(g, data, n + 1) \in Seq(Cell)
            /\ Len(Bytes(g, data, n + 1)) = n + 1
            /\ \A i \in 1 .. n + 1 : Bytes(g, data, n + 1)[i] = Byte(g, data + i - 1)
        <5> DEFINE m == n + 1
        <5>1. m \in Nat /\ data + m <= End(g)
          BY <4>1
        <5> HIDE DEF m, data
        <5>2. /\ Bytes(g, data, m) \in Seq(Cell) /\ Len(Bytes(g, data, m)) = m
              /\ \A i \in 1 .. m : Bytes(g, data, m)[i] = Byte(g, data + i - 1)
          BY <1>1, <2>7, <4>1, <5>1, BytesOf
        <5> QED BY <5>2 DEF m
      <4>3. ASSUME NEW i \in 1 .. n + 1 PROVE Bytes(g, data, n + 1)[i] = bytes[i]
        <5> HIDE DEF n, data
        <5> DEFINE z == End(e)
        <5>0. /\ HeaderSize \in Nat /\ z = data + (n + 1)
              /\ data \in Nat /\ n \in Nat /\ HeaderSize <= data
          BY <1>1, <2>4 DEF HeaderSize
        <5> HIDE DEF z, s
        <5>1. (data + i) - 1 \in HeaderSize .. z - 1 /\ data <= (data + i) - 1
              /\ (data + i) - 1 < data + (n + 1)
              /\ ((data + i) - 1) - data + 1 = i
              /\ data + i - 1 = (data + i) - 1
          BY <5>0
        <5> QED BY <2>7, <4>2, <5>1 DEF z
      <4> QED BY <2>5, <4>2, <4>3
    <3>2. b.size_dt_strings + n < g.size_dt_strings
      BY <1>1, <2>8
    <3>3. g.off_dt_strings + b.size_dt_strings = data
      BY <1>1, <2>8
    <3> QED BY <3>1, <3>2, <3>3 DEF StringAt, bytes
  <2>14. b.size_dt_strings \in 0 .. g.size_dt_strings - 1
    BY <1>1, <2>8
  <2>15. r.ret = Done /\ r.b = g
    BY <2>3 DEF Result, g
  <2> QED BY <2>12, <2>13, <2>14, <2>15
<1> QED BY <1>2, <1>3

\* Properties whose bytes and strings stand in another blob are the same there.
LEMMA SameProps ==
  ASSUME NEW b, Standing(b), NEW T, Apart(T), WholeTags(b, T), NEW c,
         Standing(c),
         c.off_dt_struct = b.off_dt_struct, StringsKept(b, c),
         NEW x \in Nat, Kept(b, c, x), x <= End(c),
         \A t \in T : b.off_dt_struct + t.next <= x,
         NEW q \in T, q.tag = FDT_PROP, PropertyWhole(b, q)
  PROVE  PropKept(b, q, c, q)
<1> DEFINE S == b.off_dt_struct
           o == q.off
           m == TagSize(b, o)
<1>1. /\ o \in Nat /\ ValidTag(b, o) /\ m \in Nat /\ o + m <= q.next
      /\ q.next \in Int
      /\ Byte(b, S + o) = FDT_PROP
  BY DEF WholeTags, Apart
<1>2. S \in Nat /\ HeaderSize <= S /\ HeaderSize \in Nat
  BY ReadNumbers DEF Standing, HeaderSize
<1>3. S + o + m <= x
  <2>1. S + q.next <= x
    OBVIOUS
  <2> DEFINE z == q.next
  <2>2. S + z <= x /\ z \in Int /\ o + m <= z
    BY <1>1, <2>1
  <2> HIDE DEF S, o, m, z
  <2> QED BY <1>1, <1>2, <2>2
<1>4. Alike(b, S + o, c, S + o, m)
  <2> SUFFICES ASSUME NEW i \in 0 .. m - 1 PROVE Byte(c, (S + o) + i) = Byte(b, (S + o) + i)
    BY DEF Alike
  <2>1. (S + o) + i \in HeaderSize .. x - 1
    <3> HIDE DEF S, o, m
    <3> QED BY <1>1, <1>2, <1>3
  <2> QED BY <2>1 DEF Kept
<1>5. c.off_dt_struct + o + m <= End(c)
  <2> DEFINE e == End(c)
  <2>1. e \in Nat /\ x <= e /\ S = c.off_dt_struct
    BY StandNumbers
  <2> HIDE DEF S, o, m, e
  <2>2. S + o + m <= e
    BY <1>1, <1>2, <1>3, <2>1
  <2> QED BY <2>1, <2>2 DEF e
<1>6. Alike(b, S + o, c, c.off_dt_struct + o, m)
  BY <1>4
<1> QED BY <1>1, <1>5, <1>6, PropAlike

\* A string more changes nothing in the tree.
LEMMA AddedTree ==
  ASSUME NEW b, NEW ts, Sound(b, ts), NEW c, NEW n \in Nat,
         StringsAdded(b, c, n)
  PROVE  Sound(c, ts) /\ Tree(c, ts) = Tree(b, ts)
<1> DEFINE T == ToSet(ts)
           S == b.off_dt_struct
           z == b.size_dt_struct
           data == fdt_data_size_(b)
<1>1. /\ LaidOut(b) /\ Walk(b, ts) /\ ts[Len(ts)].next # -1
      /\ Shaped(ts) /\ NodesApart(ts) /\ PropertiesApart(b, ts)
      /\ Wholes(b, ts)
      /\ Apart(T)
  BY DEF Sound, Shaped
<1>2. /\ LaidOut(c) /\ c.off_dt_struct = S /\ c.size_dt_struct = z
      /\ c.off_dt_strings = b.off_dt_strings
      /\ b.size_dt_strings <= c.size_dt_strings /\ Kept(b, c, data)
  BY DEF StringsAdded
<1>3. /\ Readable(b) /\ Standing(b) /\ BlockEnd(b) = z /\ Readable(c)
      /\ Standing(c)
  BY <1>1, <1>2, LaidOutReadable, LaidOutStanding
<1>4. /\ S \in Nat /\ z \in Nat /\ S + z <= data /\ data \in Nat
      /\ b.off_dt_strings \in Nat /\ b.size_dt_strings \in Nat
      /\ data = b.off_dt_strings + b.size_dt_strings
      /\ HeaderSize <= b.off_dt_strings /\ HeaderSize \in Nat
  <2>1. HeaderSize <= b.off_dt_strings /\ HeaderSize \in Nat
    BY <1>3, StandNumbers DEF HeaderSize
  <2> QED BY <1>1, <2>1, LaidNumbers
<1>5. WholeTags(b, T)
  BY <1>1, <1>3, WalkWhole
<1>6. \A t \in T : t.next \in Int /\ t.next <= z
  BY <1>1, <1>3, <1>5 DEF WholeTags, Apart
<1>7. ts[Len(ts)] \in T
  BY <1>1 DEF Walk, WalkFrom, ToSet
<1>8. Kept(b, c, S + ts[Len(ts)].next)
  <2> DEFINE e == ts[Len(ts)].next
  <2>1. e \in Int /\ e <= z
    BY <1>6, <1>7
  <2> HIDE DEF e, S, z, data
  <2>2. Kept(b, c, S + e)
    <3> SUFFICES ASSUME NEW y \in HeaderSize .. (S + e) - 1 PROVE Byte(c, y) = Byte(b, y)
      BY DEF Kept
    <3>1. y \in HeaderSize .. data - 1
      BY <1>4, <2>1
    <3> QED BY <1>2, <3>1 DEF Kept
  <2> QED BY <2>2 DEF e, S
<1>9. Walk(c, ts)
  <2>1. Holds(b, ts, c)
    BY <1>1, <1>2, <1>3, <1>6, <1>7, <1>8 DEF Holds, LaidOut
  <2> QED BY <2>1, WalkKept
<1>10. StringsKept(b, c)
  <2> SUFFICES ASSUME NEW i \in 0 .. b.size_dt_strings - 1
               PROVE  Byte(c, b.off_dt_strings + i) = Byte(b, b.off_dt_strings + i)
    BY <1>2 DEF StringsKept
  <2>1. b.off_dt_strings + i \in HeaderSize .. data - 1
    <3> HIDE DEF data
    <3> QED BY <1>4
  <2> QED BY <1>2, <2>1 DEF Kept
<1>11. data <= End(c)
  <2> DEFINE e == End(c)
             cd == fdt_data_size_(c)
  <2>1. cd <= e /\ cd = c.off_dt_strings + c.size_dt_strings /\ e \in Nat
        /\ c.size_dt_strings \in Nat
    BY <1>2, LaidNumbers
  <2> HIDE DEF e, cd, data
  <2>2. data <= e
    BY <1>2, <1>4, <2>1
  <2> QED BY <2>2 DEF e
<1>12. \A t \in T : S + t.next <= data
  <2> HIDE DEF S, z, data
  <2> QED BY <1>4, <1>6
<1>13. \A q \in T : q.tag = FDT_PROP => PropKept(b, q, c, q)
  <2> HIDE DEF data, FDT_PROP
  <2> SUFFICES ASSUME NEW q \in T, q.tag = FDT_PROP PROVE PropKept(b, q, c, q)
    OBVIOUS
  <2>1. PropertyWhole(b, q)
    BY <1>1 DEF Wholes
  <2> QED BY <1>1, <1>2, <1>3, <1>4, <1>5, <1>10, <1>11, <1>12, <2>1, SameProps
<1>14. Says(Tree(b, ts), b, ts)
  BY <1>1, TreeSays
<1>15. PropertiesApart(c, ts) /\ Wholes(c, ts) /\ Says(Tree(b, ts), c, ts)
  BY <1>1, <1>13, <1>14, SameTree
<1>16. Tree(c, ts) = Tree(b, ts)
  BY <1>1, <1>15, TreeSays, SaysOnce
<1> QED BY <1>1, <1>2, <1>9, <1>15, <1>16 DEF Sound

\* A property's words stand at an offset.
Worded(c, lo, len, off) ==
    /\ Byte(c, c.off_dt_struct + lo) = FDT_PROP
    /\ Byte(c, c.off_dt_struct + lo + 4) = len
    /\ Byte(c, c.off_dt_struct + lo + 8) = off

\* A name of the strings block, at its offset.
Named(b, off, name) ==
    /\ NameString(name) /\ off \in 0 .. b.size_dt_strings - 1
    /\ StringAt(b, off, name)

\* The value is stored behind the words; that writes the property.
LEMMA ValueStored ==
  ASSUME NEW b, LaidOut(b), NEW lo \in Nat, NEW old \in Nat,
         NEW val \in Seq(Cell),
         NEW c, Edited(b, c, lo, old, PropSize(val)),
         lo + old <= b.size_dt_struct,
         NEW off, NEW name, Worded(c, lo, Len(val), off), Named(b, off, name),
         NEW d, d = SetData(c, lo, 0, val)
  PROVE  Edited(b, d, lo, old, PropSize(val)) /\ Written(d, lo, name, off, val)
<1> DEFINE S == b.off_dt_struct
           len == Len(val)
           new == PropSize(val)
           x == S + lo + 12
<1>1. len \in Nat /\ val \in Seq(Cell)
  BY DEF Cell
<1>2. new \in Nat /\ 12 + len <= new
  <2>1. FDT_TAGALIGN(len) \in Int /\ len <= FDT_TAGALIGN(len)
    BY <1>1, TagAlign
  <2>2. new = 12 + FDT_TAGALIGN(len)
    BY DEF PropSize, PropertySize
  <2> HIDE DEF len, new
  <2> QED BY <1>1, <2>1, <2>2
<1>3. S \in Nat /\ HeaderSize <= S /\ HeaderSize \in Nat
  BY LaidNumbers DEF HeaderSize
<1>4. c \in Blob /\ c.off_dt_struct = S
  BY DEF Edited
<1>5. d = Store(c, x, val)
  <2>1. S + lo + PropertySize + 0 = x
    BY <1>3 DEF PropertySize
  <2>2. d = Store(c, c.off_dt_struct + lo + PropertySize + 0, val)
    BY DEF SetData
  <2> QED BY <1>4, <2>1, <2>2
<1>6. x \in Int /\ S + lo <= x /\ x + len <= S + lo + new
  <2> HIDE DEF S, len, new
  <2> QED BY <1>1, <1>2, <1>3
<1>7. StoredAt(c, d, x, val) /\ Edited(b, d, lo, old, new)
  <2> HIDE DEF S, new, x
  <2>1. Edited(b, c, lo, old, new)
    BY DEF new
  <2>2. b.off_dt_struct + lo <= x /\ x + Len(val) <= b.off_dt_struct + lo + new
    BY <1>6 DEF S
  <2> QED BY <1>1, <1>2, <1>5, <1>6, <2>1, <2>2, EditedStore
<1>8. d.off_dt_struct = S /\ d \in Blob
      /\ d.size_dt_strings = b.size_dt_strings
  BY <1>7 DEF Edited
<1>9. /\ End(d) = End(c) /\ End(c) \in Nat
      /\ \A y \in HeaderSize .. End(c) - 1 :
            Byte(d, y) = IF x <= y /\ y < x + len THEN val[y - x + 1] ELSE Byte(c, y)
  BY <1>4, <1>7, EndOf DEF StoredAt
<1>10. S + lo + new <= End(c)
  <2> DEFINE e == End(c)
             data == fdt_data_size_(b)
             z == b.size_dt_struct
  <2>1. e = data + new - old /\ data \in Nat /\ z \in Nat /\ S + z <= data
        /\ lo + old <= z /\ e \in Nat
    BY <1>9, LaidNumbers DEF Edited
  <2> HIDE DEF e, data, z, S, new
  <2>2. S + lo + new <= e
    BY <1>2, <1>3, <2>1
  <2> QED BY <2>2 DEF e
<1>11. Worded(d, lo, len, off)
  <2> DEFINE e == End(c)
  <2>1. e \in Nat /\ S + lo + new <= e
    BY <1>9, <1>10
  <2>2. ASSUME NEW i \in {0, 4, 8} PROVE Byte(d, S + lo + i) = Byte(c, S + lo + i)
    <3>1. S + lo + i \in HeaderSize .. e - 1 /\ ~(x <= S + lo + i)
      <4> HIDE DEF S, new, e, len
      <4> QED BY <1>1, <1>2, <1>3, <2>1
    <3> QED BY <1>9, <3>1
  <2>3. /\ Byte(c, S + lo) = FDT_PROP /\ Byte(c, S + lo + 4) = len
        /\ Byte(c, S + lo + 8) = off
    BY <1>4 DEF Worded
  <2>4. Byte(d, S + lo + 0) = Byte(c, S + lo + 0)
        /\ Byte(d, S + lo + 4) = Byte(c, S + lo + 4)
        /\ Byte(d, S + lo + 8) = Byte(c, S + lo + 8)
    BY <2>2
  <2>5. S + lo + 0 = S + lo
    BY <1>3
  <2> HIDE DEF S
  <2> QED BY <1>8, <2>3, <2>4, <2>5 DEF Worded
<1>12. Bytes(d, x, len) = val
  <2> DEFINE e == End(d)
  <2>1. e \in Nat /\ S + lo + new <= e /\ e = End(c)
    BY <1>9, <1>10
  <2>2. x \in Int /\ HeaderSize <= x /\ x + len <= e
    <3> HIDE DEF S, new, e, len
    <3> QED BY <1>1, <1>2, <1>3, <2>1
  <2>3. /\ Bytes(d, x, len) \in Seq(Cell) /\ Len(Bytes(d, x, len)) = len
        /\ \A i \in 1 .. len : Bytes(d, x, len)[i] = Byte(d, x + i - 1)
    <3> HIDE DEF x, len
    <3> QED BY <1>1, <1>8, <2>2, BytesOf
  <2>4. ASSUME NEW i \in 1 .. len PROVE Bytes(d, x, len)[i] = val[i]
    <3>1. /\ (x + i) - 1 \in HeaderSize .. e - 1 /\ x <= (x + i) - 1
          /\ (x + i) - 1 < x + len /\ ((x + i) - 1) - x + 1 = i
          /\ x + i - 1 = (x + i) - 1
      <4> HIDE DEF x, len, e
      <4> QED BY <1>1, <1>3, <2>1, <2>2
    <3> HIDE DEF x
    <3> QED BY <1>9, <2>1, <2>3, <3>1
  <2> DEFINE B == Bytes(d, x, len)
  <2>5. /\ B \in Seq(Cell) /\ val \in Seq(Cell) /\ Len(B) = Len(val)
        /\ \A i \in 1 .. Len(val) : B[i] = val[i]
    BY <1>1, <2>3, <2>4
  <2> HIDE DEF B
  <2>6. B = val
    BY <2>5
  <2> QED BY <2>6 DEF B
<1>13. StringAt(d, off, name)
  <2>1. Standing(b) /\ LaidOut(d) /\ Standing(d)
    <3>1. LaidOut(d)
      <4> HIDE DEF new
      <4> QED BY <1>2, <1>7, EditedLaidOut
    <3> QED BY <3>1, LaidOutStanding
  <2>2. StringsKept(b, d)
    <3> HIDE DEF new
    <3> QED BY <1>2, <1>7, EditedStrings
  <2>3. /\ off \in 0 .. b.size_dt_strings - 1 /\ StringAt(b, off, name)
        /\ NameString(name)
    BY DEF Named
  <2>4. name = StringHere(b, off)
    BY <2>1, <2>3, NameHere
  <2> QED BY <2>1, <2>2, <2>3, <2>4, NameKept
<1>14. off \in 0 .. d.size_dt_strings - 1
  BY <1>8 DEF Named
<1>15. Written(d, lo, name, off, val)
  <2> HIDE DEF S, x
  <2>1. Bytes(d, d.off_dt_struct + lo + 12, len) = val
    BY <1>8, <1>12 DEF x
  <2> QED BY <1>11, <1>13, <1>14, <2>1 DEF Written, Worded
<1> QED BY <1>7, <1>15

\* A word is four bytes.
LEMMA WordIs ==
  ASSUME NEW w \in Nat
  PROVE  Word(w) \in Seq(Cell) /\ Len(Word(w)) = 4 /\ Word(w)[1] = w
<1>1. w \in Cell /\ Junk \in Cell
  BY DEF Cell
<1> QED BY <1>1 DEF Word

\* The words of a new property are stored.
StoresWords(c, d, lo, len, off) ==
    d = Store(c, c.off_dt_struct + lo, Word(FDT_PROP) \o Word(len) \o Word(off))

\* Storing them makes the property's words.
LEMMA WordsStored ==
  ASSUME NEW b, LaidOut(b), NEW lo \in Nat, NEW old \in Nat, NEW new \in Nat,
         NEW c, Edited(b, c, lo, old, new), 12 <= new,
         lo + old <= b.size_dt_struct,
         NEW len \in Nat, NEW off \in Nat,
         NEW d, StoresWords(c, d, lo, len, off)
  PROVE  Edited(b, d, lo, old, new) /\ Worded(d, lo, len, off)
<1> DEFINE S == b.off_dt_struct
           W == Word(FDT_PROP) \o Word(len) \o Word(off)
           e == End(c)
<1>1. S \in Nat /\ HeaderSize <= S /\ HeaderSize \in Nat
  BY LaidNumbers DEF HeaderSize
<1>2. c \in Blob /\ c.off_dt_struct = S /\ e \in Nat
  BY EndOf DEF Edited
<1>3. W \in Seq(Cell) /\ Len(W) = 12 /\ W[1] = FDT_PROP /\ W[5] = len
      /\ W[9] = off
  <2> DEFINE s == Word(FDT_PROP)
             t == Word(len)
             u == Word(off)
  <2>1. /\ s \in Seq(Cell) /\ Len(s) = 4 /\ s[1] = FDT_PROP
        /\ t \in Seq(Cell) /\ Len(t) = 4 /\ t[1] = len
        /\ u \in Seq(Cell) /\ Len(u) = 4 /\ u[1] = off
    BY WordIs DEF FDT_PROP
  <2> HIDE DEF s, t, u
  <2>2. Joined(s \o t \o u, Cell, s, t, u, 4, 8, 12)
    <3>1. 4 = Len(s) /\ 8 = 4 + Len(t) /\ 12 = 8 + Len(u)
      BY <2>1
    <3> QED BY <2>1, <3>1, Concat3
  <2>3. /\ s \o t \o u \in Seq(Cell) /\ Len(s \o t \o u) = 12
        /\ (s \o t \o u)[1] = s[1] /\ (s \o t \o u)[5] = t[5 - 4]
        /\ (s \o t \o u)[9] = u[9 - 8]
    <3> DEFINE m == s \o t \o u
    <3>1. Joined(m, Cell, s, t, u, 4, 8, 12)
      BY <2>2
    <3> HIDE DEF m
    <3>2. m \in Seq(Cell) /\ Len(m) = 12
      BY <3>1 DEF Joined
    <3>3. 1 \in 1 .. 4 /\ 5 \in 4 + 1 .. 8 /\ 9 \in 8 + 1 .. 12
      OBVIOUS
    <3>4. m[1] = s[1] /\ m[5] = t[5 - 4] /\ m[9] = u[9 - 8]
      BY <3>1, <3>3, Zenon DEF Joined
    <3> QED BY <3>2, <3>4 DEF m
  <2> QED BY <2>1, <2>3 DEF s, t, u
<1>4. S + lo + new <= e
  <2> DEFINE data == fdt_data_size_(b)
             z == b.size_dt_struct
  <2>1. e = data + new - old /\ data \in Nat /\ z \in Nat /\ S + z <= data
        /\ lo + old <= z
    BY LaidNumbers DEF Edited
  <2> HIDE DEF e, data, z, S
  <2> QED BY <1>1, <1>2, <2>1
<1> HIDE DEF W
<1>5. StoredAt(c, d, S + lo, W) /\ Edited(b, d, lo, old, new)
  <2>1. /\ S + lo \in Int /\ b.off_dt_struct + lo <= S + lo
        /\ (S + lo) + Len(W) <= b.off_dt_struct + lo + new
    <3>1. (S + lo) + 12 <= S + lo + new /\ S + lo \in Int /\ S + lo <= S + lo
      <4> HIDE DEF S
      <4> QED BY <1>1
    <3> QED BY <1>3, <3>1
  <2>2. d = Store(c, S + lo, W)
    BY <1>2 DEF W, StoresWords
  <2> DEFINE x == S + lo
  <2>3. /\ x \in Int /\ b.off_dt_struct + lo <= x
        /\ x + Len(W) <= b.off_dt_struct + lo + new /\ d = Store(c, x, W)
    BY <2>1, <2>2
  <2> HIDE DEF x, S, e
  <2>4. StoredAt(c, d, x, W) /\ Edited(b, d, lo, old, new)
    BY <1>3, <2>3, EditedStore
  <2> QED BY <2>4 DEF x
<1>6. \A y \in HeaderSize .. e - 1 :
         Byte(d, y) = IF S + lo <= y /\ y < (S + lo) + 12
                      THEN W[y - (S + lo) + 1] ELSE Byte(c, y)
  BY <1>3, <1>5 DEF StoredAt
<1>7. ASSUME NEW i \in {0, 4, 8} PROVE Byte(d, S + lo + i) = W[i + 1]
  <2>1. /\ S + lo + i \in HeaderSize .. e - 1 /\ S + lo <= S + lo + i
        /\ S + lo + i < (S + lo) + 12 /\ (S + lo + i) - (S + lo) + 1 = i + 1
    <3> HIDE DEF S, e
    <3> QED BY <1>1, <1>2, <1>4
  <2> QED BY <1>6, <2>1
<1>8. d.off_dt_struct = S
  BY <1>5 DEF Edited
<1>9. /\ Byte(d, S + lo) = W[1] /\ Byte(d, S + lo + 4) = W[5]
      /\ Byte(d, S + lo + 8) = W[9]
  <2>1. Byte(d, S + lo + 0) = W[0 + 1] /\ Byte(d, S + lo + 4) = W[4 + 1]
        /\ Byte(d, S + lo + 8) = W[8 + 1]
    BY <1>7
  <2>2. S + lo + 0 = S + lo
    BY <1>1
  <2> QED BY <2>1, <2>2
<1> HIDE DEF S
<1> QED BY <1>3, <1>5, <1>8, <1>9 DEF Worded

\* The length word of a property is stored.
LEMMA LenStored ==
  ASSUME NEW b, LaidOut(b), NEW lo \in Nat, NEW old \in Nat, NEW new \in Nat,
         NEW c, Edited(b, c, lo, old, new), 12 <= new,
         lo + old <= b.size_dt_struct,
         NEW len \in Nat, NEW off,
         Byte(c, c.off_dt_struct + lo) = FDT_PROP,
         Byte(c, c.off_dt_struct + lo + 8) = off,
         NEW d, d = SetLen(c, lo, len)
  PROVE  Edited(b, d, lo, old, new) /\ Worded(d, lo, len, off)
<1> DEFINE S == b.off_dt_struct
           W == Word(len)
           e == End(c)
           x == S + lo + 4
<1>1. S \in Nat /\ HeaderSize <= S /\ HeaderSize \in Nat
  BY LaidNumbers DEF HeaderSize
<1>2. c \in Blob /\ c.off_dt_struct = S /\ e \in Nat
  BY EndOf DEF Edited
<1>3. W \in Seq(Cell) /\ Len(W) = 4 /\ W[1] = len
  BY WordIs
<1>4. S + lo + new <= e
  <2> DEFINE data == fdt_data_size_(b)
             z == b.size_dt_struct
  <2>1. e = data + new - old /\ data \in Nat /\ z \in Nat /\ S + z <= data
        /\ lo + old <= z
    BY LaidNumbers DEF Edited
  <2> HIDE DEF e, data, z, S
  <2> QED BY <1>1, <1>2, <2>1
<1> HIDE DEF W
<1>5. StoredAt(c, d, x, W) /\ Edited(b, d, lo, old, new)
  <2>1. x \in Int /\ S + lo <= x /\ x + 4 <= S + lo + new
    <3> HIDE DEF S
    <3> QED BY <1>1
  <2>2. d = Store(c, x, W)
    BY <1>2 DEF W, SetLen
  <2>3. b.off_dt_struct + lo <= x /\ x + Len(W) <= b.off_dt_struct + lo + new
    BY <1>3, <2>1
  <2> HIDE DEF x, S
  <2> QED BY ZenonT(60), <1>3, <2>1, <2>2, <2>3, EditedStore
<1>6. \A y \in HeaderSize .. e - 1 :
         Byte(d, y) = IF x <= y /\ y < x + 4 THEN W[y - x + 1] ELSE Byte(c, y)
  BY <1>3, <1>5 DEF StoredAt
<1>7. d.off_dt_struct = S
  BY <1>5 DEF Edited
<1>8. /\ Byte(d, S + lo) = Byte(c, S + lo) /\ Byte(d, S + lo + 4) = W[1]
      /\ Byte(d, S + lo + 8) = Byte(c, S + lo + 8)
  <2> HIDE DEF S, e
  <2>1. S + lo \in HeaderSize .. e - 1 /\ ~(x <= S + lo)
    BY <1>1, <1>2, <1>4
  <2>2. S + lo + 8 \in HeaderSize .. e - 1 /\ ~(S + lo + 8 < x + 4)
    BY <1>1, <1>2, <1>4
  <2>3. x \in HeaderSize .. e - 1 /\ x <= x /\ x < x + 4 /\ x - x + 1 = 1
    BY <1>1, <1>2, <1>4
  <2>4. Byte(d, x) = W[1]
    <3> HIDE DEF x
    <3> QED BY <1>6, <2>3
  <2> QED BY <1>6, <2>1, <2>2, <2>4
<1> HIDE DEF S
<1> QED BY <1>2, <1>3, <1>5, <1>7, <1>8 DEF Worded

\* A property of N is set, and no other; the tree stays sound.
SetDone(b, ts, N, name, val, d) ==
    \E us : /\ Sound(d, us)
            /\ Tree(d, us) = With(Tree(b, ts), N.path, name, val)
            /\ IsChosen(ToSet(ts), N) => IsChosen(ToSet(us), N)

\* What stands before the structure block stays.
SameFront(b, d) ==
    /\ d.totalsize = b.totalsize /\ d.off_mem_rsvmap = b.off_mem_rsvmap
    /\ d.off_dt_struct = b.off_dt_struct /\ Kept(b, d, b.off_dt_struct)

\* No edit of the structure block changes it.
LEMMA EditedFront ==
  ASSUME NEW b, LaidOut(b), NEW c, NEW lo \in Nat, NEW old, NEW new,
         Edited(b, c, lo, old, new)
  PROVE  SameFront(b, c)
<1>1. b.off_dt_struct \in Nat
  BY LaidNumbers
<1>2. /\ c.totalsize = b.totalsize /\ c.off_mem_rsvmap = b.off_mem_rsvmap
      /\ c.off_dt_struct = b.off_dt_struct /\ Kept(b, c, b.off_dt_struct + lo)
  BY DEF Edited
<1>3. Kept(b, c, b.off_dt_struct)
  <2> DEFINE S == b.off_dt_struct
  <2>1. S \in Nat /\ Kept(b, c, S + lo)
    BY <1>1, <1>2
  <2> HIDE DEF S
  <2>2. \A y \in HeaderSize .. S - 1 : y \in HeaderSize .. (S + lo) - 1
    BY <2>1 DEF HeaderSize
  <2>3. Kept(b, c, S)
    BY <2>1, <2>2 DEF Kept
  <2> QED BY <2>3 DEF S
<1> QED BY <1>2, <1>3 DEF SameFront

\* A property's words take at least three words.
LEMMA PropSizeIs ==
  ASSUME NEW val \in Seq(Cell)
  PROVE  PropSize(val) \in Nat /\ 12 <= PropSize(val)
         /\ PropSize(val) <= Len(val) + 15
<1> DEFINE len == Len(val)
<1>1. len \in Nat /\ len \in Int
  OBVIOUS
<1>2. PropSize(val) = 12 + FDT_TAGALIGN(len)
  BY DEF PropSize, PropertySize
<1> HIDE DEF len
<1>3. FDT_TAGALIGN(len) \in Int /\ len <= FDT_TAGALIGN(len)
      /\ FDT_TAGALIGN(len) <= len + 3
  <2>1. len \in Int
    BY <1>1
  <2> QED BY <2>1, TagAlign, Zenon
<1>4. PropSize(val) \in Nat /\ 12 <= PropSize(val) /\ PropSize(val) <= len + 15
  BY <1>1, <1>2, <1>3
<1> QED BY <1>4 DEF len

\* The tag of a node is not the last.
LEMMA NodeIndex ==
  ASSUME NEW b, Readable(b), NEW ts, Walk(b, ts), NEW N \in ToSet(ts),
         N.tag \in {FDT_BEGIN_NODE, FDT_PROP}
  PROVE  \E k \in 1 .. Len(ts) - 1 : N = ts[k]
<1>1. ts \in Seq(TagSet) /\ Stops(ts[Len(ts)]) /\ Len(ts) \in Nat
  BY DEF Walk, WalkFrom
<1>2. PICK k \in 1 .. Len(ts) : N = ts[k]
  BY <1>1 DEF ToSet
<1>3. k # Len(ts)
  BY <1>1, <1>2 DEF Stops, FDT_BEGIN_NODE, FDT_PROP, FDT_END, FDT_END_NODE
<1> QED BY <1>1, <1>2, <1>3

\* A property its node lacks is put in front of the others.
LEMMA SetFresh ==
  ASSUME NEW b, NEW ts, Sound(b, ts), NEW N \in Nodes(ts),
         NEW name, NameString(name), Lacks(b, ts, N, name),
         NEW val \in Seq(Cell),
         NEW off, Named(b, off, name),
         fdt_data_size_(b) + PropSize(val) <= b.totalsize,
         NEW r, r = fdt_splice_struct_(b, N.next, 0, PropSize(val)),
         NEW w, StoresWords(r.b, w, N.next, Len(val), off),
         NEW d, d = SetData(w, N.next, 0, val)
  PROVE  /\ r.ret = Done /\ SetDone(b, ts, N, name, val, d) /\ SameFront(b, d)
         /\ fdt_data_size_(d) = fdt_data_size_(b) + PropSize(val)
<1> DEFINE T == ToSet(ts)
           lo == N.next
           new == PropSize(val)
<1>1. /\ LaidOut(b) /\ Readable(b) /\ Walk(b, ts) /\ ts[Len(ts)].next # -1
      /\ BlockEnd(b) = b.size_dt_struct /\ Apart(T)
  BY LaidOutReadable DEF Sound, Shaped
<1>2. N \in T /\ N.tag = FDT_BEGIN_NODE
  BY NodesAre
<1>3. PICK k \in 1 .. Len(ts) - 1 : N = ts[k]
  <2>1. N.tag \in {FDT_BEGIN_NODE, FDT_PROP}
    BY <1>2
  <2> QED BY <1>1, <1>2, <2>1, NodeIndex
<1>4. lo \in Nat /\ lo <= b.size_dt_struct
  <2>1. lo \in Nat
    BY <1>1, <1>3, WalkCut
  <2>2. lo <= BlockEnd(b)
    BY <1>1, <1>2, WalkWhole DEF WholeTags
  <2> QED BY <1>1, <2>1, <2>2
<1>5. new \in Nat /\ 12 <= new /\ Len(val) \in Nat
  BY PropSizeIs
<1>6. r.ret = Done /\ Edited(b, r.b, lo, 0, new)
  <2> DEFINE data == fdt_data_size_(b)
             tot == b.totalsize
             z == b.size_dt_struct
  <2>1. data \in Nat /\ tot \in Nat /\ data + new <= tot /\ z \in Nat
    BY <1>1, LaidNumbers
  <2>2. lo + 0 <= b.size_dt_struct /\ 0 \in Nat
    BY <1>4, <2>1
  <2>3. r = fdt_splice_struct_(b, lo, 0, new)
    OBVIOUS
  <2>4. ~(data - 0 + new > tot)
    <3> HIDE DEF data, new, tot
    <3> QED BY <1>5, <2>1
  <2> HIDE DEF lo, new
  <2>5. IF fdt_data_size_(b) - 0 + new > b.totalsize
         THEN r = Result(NoSpace, b)
         ELSE r.ret = Done /\ Edited(b, r.b, lo, 0, new)
    BY <1>1, <1>4, <1>5, <2>2, <2>3, SpliceStruct
  <2> QED BY <2>4, <2>5
<1>7. off \in Nat
  BY <1>1, LaidNumbers DEF Named
<1>8. Edited(b, w, lo, 0, new) /\ Worded(w, lo, Len(val), off)
  <2> DEFINE len == Len(val)
  <2>1. StoresWords(r.b, w, lo, len, off) /\ lo + 0 <= b.size_dt_struct
        /\ len \in Nat
    BY <1>4, <1>5
  <2> HIDE DEF lo, new, len
  <2>2. Edited(b, w, lo, 0, new) /\ Worded(w, lo, len, off)
    BY <1>1, <1>4, <1>5, <1>6, <1>7, <2>1, WordsStored
  <2> QED BY <2>2 DEF len
<1>9. Edited(b, d, lo, 0, new) /\ Written(d, lo, name, off, val)
  <2>1. lo + 0 <= b.size_dt_struct /\ d = SetData(w, lo, 0, val)
    BY <1>4
  <2>2. Edited(b, w, lo, 0, PropSize(val))
    BY <1>8
  <2> HIDE DEF lo, new
  <2>3. Edited(b, d, lo, 0, PropSize(val)) /\ Written(d, lo, name, off, val)
    BY <1>1, <1>4, <1>8, <2>1, <2>2, ValueStored
  <2> QED BY <2>3 DEF new
<1>10. PropPut(b, ts, k, k, d, name, off, val)
  <2>1. ts[k].next = lo /\ ts[k].next - ts[k].next = 0
    BY <1>3, <1>4
  <2>2. k \in k .. Len(ts) - 1
    BY <1>3
  <2>3. Edited(b, d, ts[k].next, ts[k].next - ts[k].next, PropSize(val))
    BY <1>9, <2>1
  <2>4. Written(d, ts[k].next, name, off, val)
    BY <1>9, <2>1
  <2> HIDE DEF lo, new
  <2> QED BY <1>3, <2>2, <2>3, <2>4 DEF PropPut
<1> DEFINE x == PropTagOf(lo, val, Inside(ts[k]))
           us == Put(ts, k, k, val)
<1>11. PutAt(ts, k, k, val, lo, 0, new, x, us)
  <2>1. 0 = ts[k].next - lo /\ lo = ts[k].next
    BY <1>3, <1>4
  <2> QED BY <2>1 DEF PutAt
<1> HIDE DEF lo, new, x, us
<1>12. /\ new > 0 /\ Cut(T, lo) /\ lo + 0 <= b.size_dt_struct
       /\ Walk(d, us) /\ us[Len(us)].next # -1
       /\ x.tag = FDT_PROP /\ x.off = lo
       /\ ExchangedFor(T, ToSet(us), lo, 0, new - 0, x)
       /\ PropertyWhole(d, x) /\ PropName(d, x) = name /\ PropData(d, x) = val
  BY <1>10, <1>11, PutWalk
<1>13. PropPlace(T, N, lo, 0)
  <2>1. PropPlace(T, ts[k], ts[k].next, 0)
    BY <1>1, <1>2, <1>3, FrontPlace
  <2> QED BY <1>3, <2>1 DEF lo
<1>14. \A q \in T : Stays(q, lo, 0)
  BY <1>1, <1>4 DEF Stays, Apart
<1>15. \A q \in Properties(ts, N.off) : q \in T /\ PropName(b, q) # name
  BY PropertiesAre DEF Lacks
<1>16. PropSet(b, ts, lo, 0, new, d, us, N, x, name, val)
  <2> HIDE DEF T
  <2>1. /\ \A q \in Properties(ts, N.off) : Stays(q, lo, 0) <=> PropName(b, q) # name
        /\ \A q \in T : ~Stays(q, lo, 0) => q \in Properties(ts, N.off)
    BY <1>14, <1>15
  <2> USE DEF T
  <2> QED BY <1>4, <1>5, <1>9, <1>12, <1>13, <2>1 DEF PropSet
<1>17. SetDone(b, ts, N, name, val, d)
  <2>1. /\ Sound(d, us) /\ Tree(d, us) = With(Tree(b, ts), N.path, name, val)
        /\ IsChosen(ToSet(ts), N) => IsChosen(ToSet(us), N)
    BY <1>16, PropTree
  <2> QED BY <2>1 DEF SetDone
<1>18. SameFront(b, d)
  BY <1>1, <1>4, <1>9, EditedFront
<1>19. fdt_data_size_(d) = fdt_data_size_(b) + new
  <2>1. fdt_data_size_(d) = fdt_data_size_(b) + new - 0
    BY <1>1, <1>4, <1>5, <1>9, <1>12, EditedLaidOut
  <2> QED BY <1>5, <2>1
<1> QED BY <1>6, <1>17, <1>18, <1>19 DEF new

\* The bytes a whole property's tag takes.
LEMMA PropSpan ==
  ASSUME NEW b, NEW ts, Sound(b, ts), NEW q \in ToSet(ts), q.tag = FDT_PROP
  PROVE  /\ q.off \in Nat /\ q.off % 4 = 0 /\ PropLen(b, q) \in Nat
         /\ FDT_TAGALIGN(PropLen(b, q)) \in Nat
         /\ PropLen(b, q) <= FDT_TAGALIGN(PropLen(b, q))
         /\ q.next = q.off + (12 + FDT_TAGALIGN(PropLen(b, q)))
         /\ q.next <= b.size_dt_struct
         /\ Byte(b, b.off_dt_struct + q.off) = FDT_PROP
         /\ PropertyWhole(b, q)
<1> DEFINE o == q.off
           len == PropLen(b, q)
           S == b.off_dt_struct
<1>1. /\ LaidOut(b) /\ Readable(b) /\ Walk(b, ts) /\ ts[Len(ts)].next # -1
      /\ BlockEnd(b) = b.size_dt_struct /\ Wholes(b, ts)
  BY LaidOutReadable DEF Sound
<1>2. PICK k \in 1 .. Len(ts) : q = ts[k]
  BY DEF ToSet
<1>3. o \in Nat /\ o % 4 = 0
  BY <1>1, <1>2, WalkTag
<1>4. /\ TagWhole(b, o) /\ q.tag = Byte(b, S + o)
      /\ q.next = FDT_TAGALIGN(o + TagSize(b, o)) /\ q.next <= BlockEnd(b)
  BY <1>1, <1>2, WholeTag
<1>5. PropertyWhole(b, q)
  BY <1>1 DEF Wholes
<1>6. S + o + FDT_TAGSIZE = S + o + 4
  BY DEF FDT_TAGSIZE
<1>7. len \in Cell /\ TagSize(b, o) = 12 + len
  BY <1>4, <1>6 DEF TagWhole, PropLen, PropertySize
<1>8. len \in Nat
  BY <1>5, <1>7 DEF PropertyWhole, Cell
<1>9. /\ FDT_TAGALIGN(len) \in Nat /\ len <= FDT_TAGALIGN(len)
      /\ q.next = o + (12 + FDT_TAGALIGN(len))
  <2>1. q.next = FDT_TAGALIGN(o + (12 + len))
    BY <1>4, <1>7
  <2> DEFINE e == 12 + o
  <2>2. len \in Int /\ e \in Int /\ e % 4 = 0 /\ o + (12 + len) = len + e
    BY <1>3, <1>8
  <2> DEFINE a == FDT_TAGALIGN(len)
  <2>3. a \in Int /\ len <= a /\ \A d \in Int : d % 4 = 0 => FDT_TAGALIGN(len + d) = a + d
    <3> HIDE DEF len
    <3>1. len \in Int
      BY <2>2
    <3> QED BY <3>1, TagAlign
  <2> HIDE DEF e, len, a
  <2>4. FDT_TAGALIGN(len + e) = a + e
    BY <2>2, <2>3
  <2>5. q.next = a + e /\ a \in Nat
    BY <1>8, <2>1, <2>2, <2>3, <2>4
  <2>6. a + e = o + (12 + a)
    BY SMTT(60), <1>3, <2>3 DEF e
  <2> QED BY <2>3, <2>5, <2>6 DEF a
<1> QED BY <1>1, <1>3, <1>4, <1>5, <1>8, <1>9

\* fdt_setprop on a property that is there.
Resizes(b, q, val, ao, an, r, w, d) ==
    /\ ao = FDT_TAGALIGN(PropLen(b, q)) /\ an = FDT_TAGALIGN(Len(val))
    /\ fdt_data_size_(b) - ao + an <= b.totalsize
    /\ r = fdt_splice_struct_(b, q.off + PropertySize, ao, an)
    /\ w = SetLen(r.b, q.off, Len(val)) /\ d = SetData(w, q.off, 0, val)

\* A property its node has is resized and set where it is.
LEMMA SetOver ==
  ASSUME NEW b, NEW ts, Sound(b, ts), NEW N \in Nodes(ts),
         NEW name, NameString(name), NEW q, Finds(b, ts, N, name, q),
         NEW val \in Seq(Cell),
         NEW ao, NEW an, NEW r, NEW w, NEW d,
         Resizes(b, q, val, ao, an, r, w, d)
  PROVE  /\ r.ret = Done /\ SetDone(b, ts, N, name, val, d) /\ SameFront(b, d)
         /\ fdt_data_size_(d) = fdt_data_size_(b) + an - ao
<1> DEFINE T == ToSet(ts)
           lo == q.off
           old == ao + 12
           new == an + 12
           len == Len(val)
           off == PropNameOff(b, q)
           S == b.off_dt_struct
<1>1. /\ LaidOut(b) /\ Readable(b) /\ Walk(b, ts) /\ ts[Len(ts)].next # -1
      /\ BlockEnd(b) = b.size_dt_struct /\ Apart(T) /\ PropertiesApart(b, ts)
  BY LaidOutReadable DEF Sound, Shaped
<1>2. q \in Properties(ts, N.off) /\ PropName(b, q) = name
  BY DEF Finds
<1>3. q \in T /\ q.tag = FDT_PROP /\ N.off < q.off
  BY <1>2, PropertiesAre
<1>0. /\ ao = FDT_TAGALIGN(PropLen(b, q)) /\ an = FDT_TAGALIGN(len)
      /\ fdt_data_size_(b) - ao + an <= b.totalsize
      /\ r = fdt_splice_struct_(b, lo + PropertySize, ao, an)
      /\ w = SetLen(r.b, lo, len) /\ d = SetData(w, lo, 0, val)
  BY DEF Resizes
<1>4. /\ lo \in Nat /\ lo % 4 = 0 /\ ao \in Nat /\ q.next = lo + (12 + ao)
      /\ q.next <= b.size_dt_struct /\ Byte(b, S + lo) = FDT_PROP
      /\ PropertyWhole(b, q)
  BY <1>0, <1>3, PropSpan
<1>5. an \in Nat /\ len \in Nat /\ len <= an /\ new = PropSize(val)
  <2>1. len \in Nat /\ len \in Int /\ an = FDT_TAGALIGN(len)
    BY <1>0
  <2> HIDE DEF len
  <2>2. FDT_TAGALIGN(len) \in Int /\ len <= FDT_TAGALIGN(len)
    BY <2>1, TagAlign, Zenon
  <2>3. an \in Nat
    BY <2>1, <2>2
  <2>4. PropSize(val) = 12 + an
    BY <2>1 DEF PropSize, PropertySize, len
  <2> QED BY <2>1, <2>2, <2>3, <2>4
<1>6. S \in Nat /\ HeaderSize <= S /\ b.size_dt_struct \in Nat
      /\ fdt_data_size_(b) \in Nat /\ b.totalsize \in Nat
      /\ S + b.size_dt_struct <= fdt_data_size_(b)
  BY <1>1, LaidNumbers
<1>7. lo + (12 + ao) <= b.size_dt_struct /\ lo + old <= b.size_dt_struct
  <2> HIDE DEF lo
  <2>1. lo + (12 + ao) <= b.size_dt_struct
    BY <1>4
  <2> QED BY <1>4, <1>6, <2>1
<1>8. r.ret = Done /\ Edited(b, r.b, lo + 12, ao, an)
  <2>1. lo + 12 \in Nat /\ (lo + 12) + ao <= b.size_dt_struct
    <3> HIDE DEF lo
    <3> QED BY <1>4, <1>6, <1>7
  <2>2. r = fdt_splice_struct_(b, lo + 12, ao, an)
    BY <1>0 DEF PropertySize
  <2>3. ~(fdt_data_size_(b) - ao + an > b.totalsize)
    BY SMTT(60), <1>0, <1>4, <1>5, <1>6
  <2> DEFINE at == lo + 12
  <2>4. at \in Nat /\ at + ao <= b.size_dt_struct
        /\ r = fdt_splice_struct_(b, at, ao, an)
    BY <2>1, <2>2
  <2> HIDE DEF at
  <2>5. IF fdt_data_size_(b) - ao + an > b.totalsize
        THEN r = Result(NoSpace, b)
        ELSE r.ret = Done /\ Edited(b, r.b, at, ao, an)
    BY SMTT(60), <1>1, <1>4, <1>5, <2>4, SpliceStruct
  <2> QED BY <2>3, <2>5 DEF at
<1>9. Edited(b, r.b, lo, old, new)
  <2> HIDE DEF lo
  <2> QED BY <1>1, <1>4, <1>5, <1>8, EditedWider
<1>10. /\ Byte(r.b, r.b.off_dt_struct + lo) = FDT_PROP
       /\ Byte(r.b, r.b.off_dt_struct + lo + 8) = off
  <2>1. r.b.off_dt_struct = S /\ Kept(b, r.b, S + (lo + 12))
    BY <1>8 DEF Edited
  <2>2. Byte(b, S + lo + 8) = off
    BY DEF PropNameOff
  <2>3. S + lo \in HeaderSize .. (S + (lo + 12)) - 1
        /\ S + lo + 8 \in HeaderSize .. (S + (lo + 12)) - 1
    <3>1. HeaderSize \in Nat
      BY DEF HeaderSize
    <3> HIDE DEF S, lo
    <3> QED BY <1>4, <1>6, <3>1
  <2>4. Byte(r.b, S + lo) = Byte(b, S + lo)
        /\ Byte(r.b, S + lo + 8) = Byte(b, S + lo + 8)
    BY <2>1, <2>3 DEF Kept
  <2> QED BY <1>4, <2>1, <2>2, <2>4
<1>11. Edited(b, w, lo, old, new) /\ Worded(w, lo, len, off)
  <2>1. w = SetLen(r.b, lo, len) /\ 12 <= new /\ new \in Nat /\ old \in Nat
    BY <1>0, <1>4, <1>5
  <2> HIDE DEF lo, old, new, len, off, S
  <2> QED BY <1>1, <1>4, <1>5, <1>7, <1>9, <1>10, <2>1, LenStored
<1>12. Named(b, off, name)
  BY <1>2, <1>4 DEF PropertyWhole, Named
<1>13. Edited(b, d, lo, old, new) /\ Written(d, lo, name, off, val)
  <2>1. d = SetData(w, lo, 0, val) /\ old \in Nat
    BY <1>0, <1>4
  <2>2. Edited(b, w, lo, old, PropSize(val))
    BY <1>5, <1>11
  <2> HIDE DEF lo, old, new, off, S
  <2>3. Edited(b, d, lo, old, PropSize(val)) /\ Written(d, lo, name, off, val)
    BY <1>1, <1>4, <1>7, <1>11, <1>12, <2>1, <2>2, ValueStored DEF len
  <2> QED BY <1>5, <2>3
<1>14. PICK j \in 1 .. Len(ts) - 1 : q = ts[j]
  <2>1. q.tag \in {FDT_BEGIN_NODE, FDT_PROP}
    BY <1>3
  <2> QED BY <1>1, <1>3, <2>1, NodeIndex
<1>15. Len(ts) \in Nat
  BY <1>1 DEF Walk, WalkFrom
<1>16. j # 1
  <2>1. ts[1].off = 0
    BY <1>1, <1>14, <1>15, WalkTag
  <2>2. N.off \in Nat
    BY <1>1, NodesAre DEF Apart
  <2> QED BY <1>3, <1>14, <2>1, <2>2
<1>17. PICK k \in 1 .. Len(ts) - 1 : k + 1 = j
  <2>1. j - 1 \in 1 .. Len(ts) - 1 /\ (j - 1) + 1 = j
    BY <1>14, <1>15, <1>16
  <2> QED BY <2>1
<1>18. q = ts[k + 1] /\ j \in k .. Len(ts) - 1
  BY <1>14, <1>15, <1>17
<1>19. /\ lo = ts[k].next /\ ts[j].next = lo + old
       /\ PropPlace(T, N, ts[k].next, ts[k + 1].next - ts[k].next)
       /\ \A t \in T : ~Stays(t, ts[k].next, ts[k + 1].next - ts[k].next)
              => t = ts[k + 1]
  <2>1. ts[k + 1] \in Properties(ts, N.off)
    BY <1>2, <1>18
  <2>2. /\ ts[k + 1].off = ts[k].next
        /\ PropPlace(T, N, ts[k].next, ts[k + 1].next - ts[k].next)
        /\ \A t \in T : ~Stays(t, ts[k].next, ts[k + 1].next - ts[k].next)
              => t = ts[k + 1]
    BY <1>1, <2>1, SamePlace
  <2>3. q.next = lo + old
    <3> HIDE DEF lo
    <3> QED BY <1>4
  <2> QED BY <1>14, <1>18, <2>2, <2>3
<1>20. old = ts[j].next - ts[k].next
  <2> HIDE DEF lo
  <2>1. (lo + old) - lo = old
    BY <1>4
  <2> QED BY <1>19, <2>1
<1>21. PropPlace(T, N, lo, old) /\ \A t \in T : ~Stays(t, lo, old) => t = q
  <2> HIDE DEF old, lo
  <2> QED BY <1>14, <1>17, <1>18, <1>19, <1>20
<1>22. Inside(ts[k]) = Inside(ts[j])
  <2>1. Before(ts, j) = Inside(ts[k]) /\ j \in 1 .. Len(ts)
    <3>1. j - 1 = k /\ j # 1
      BY <1>16, <1>17
    <3> QED BY <1>14, <1>15, <3>1 DEF Before
  <2>2. /\ ts[j] = Entry(b, ts[j].off, Before(ts, j)) /\ Before(ts, j) \in Path
        /\ ts[j].off \in Nat
    BY <1>1, <2>1, WalkTag
  <2>3. ts[j].tag = FDT_PROP
    BY <1>3, <1>14
  <2>4. ts[j].tag # FDT_BEGIN_NODE /\ ts[j].tag # FDT_END_NODE
    BY <2>3 DEF FDT_PROP, FDT_BEGIN_NODE, FDT_END_NODE
  <2>5. ts[j].path = Before(ts, j)
    BY <1>1, <2>2, <2>4, EntryTyped
  <2> QED BY <2>1, <2>4, <2>5 DEF Inside
<1>23. PropPut(b, ts, k, j, d, name, off, val)
  <2>1. Edited(b, d, ts[k].next, ts[j].next - ts[k].next, PropSize(val))
        /\ Written(d, ts[k].next, name, off, val)
    <3> HIDE DEF lo, old, new
    <3> QED BY <1>5, <1>13, <1>19, <1>20
  <2> QED BY <1>17, <1>18, <1>22, <2>1 DEF PropPut
<1> DEFINE x == PropTagOf(lo, val, Inside(ts[k]))
           us == Put(ts, k, j, val)
<1>24. PutAt(ts, k, j, val, lo, old, new, x, us)
  <2>1. old = ts[j].next - lo /\ lo = ts[k].next /\ new = PropSize(val)
    BY <1>5, <1>19, <1>20
  <2> HIDE DEF lo, old, new
  <2> QED BY <2>1 DEF PutAt
<1> HIDE DEF lo, new, old, x, us, off, S
<1>25. /\ lo \in Nat /\ old \in Nat /\ new \in Nat
       /\ new > 0 /\ Cut(T, lo) /\ lo + old <= b.size_dt_struct
       /\ Walk(d, us) /\ us[Len(us)].next # -1
       /\ x.tag = FDT_PROP /\ x.off = lo
       /\ ExchangedFor(T, ToSet(us), lo, old, new - old, x)
       /\ PropertyWhole(d, x) /\ PropName(d, x) = name /\ PropData(d, x) = val
  BY <1>23, <1>24, PutWalk
<1>26. /\ \A p \in Properties(ts, N.off) : Stays(p, lo, old) <=> PropName(b, p) # name
       /\ \A p \in T : ~Stays(p, lo, old) => p \in Properties(ts, N.off)
  <2>1. \A p \in Properties(ts, N.off) : p \in T
    BY PropertiesAre
  <2>2. \A p \in Properties(ts, N.off) : PropName(b, p) = name => p = q
    BY <1>1, <1>2 DEF PropertiesApart
  <2>3. ~Stays(q, lo, old)
    <3>1. q.off = lo /\ lo \in Nat /\ lo < lo + old /\ ~(lo + old <= lo)
      BY SMTT(60), <1>4, <1>25 DEF lo, old
    <3> QED BY <3>1 DEF Stays
  <2> HIDE DEF T
  <2> QED BY <1>2, <1>21, <2>1, <2>2, <2>3
<1>27. PropSet(b, ts, lo, old, new, d, us, N, x, name, val)
  BY <1>13, <1>21, <1>25, <1>26 DEF PropSet
<1>28. SetDone(b, ts, N, name, val, d)
  <2>1. /\ Sound(d, us) /\ Tree(d, us) = With(Tree(b, ts), N.path, name, val)
        /\ IsChosen(ToSet(ts), N) => IsChosen(ToSet(us), N)
    BY <1>27, PropTree
  <2> QED BY <2>1 DEF SetDone
<1>29. SameFront(b, d)
  BY <1>1, <1>13, <1>25, EditedFront
<1>30. fdt_data_size_(d) = fdt_data_size_(b) + an - ao
  <2>1. fdt_data_size_(d) = fdt_data_size_(b) + new - old
    BY <1>1, <1>13, <1>25, EditedLaidOut
  <2> QED BY <1>4, <1>5, <1>6, <2>1 DEF new, old
<1> QED BY <1>8, <1>28, <1>29, <1>30

\* What the tree says of a name, and what fdt_get_property finds.
LEMMA TreeGet ==
  ASSUME NEW b, NEW ts, Standing(b), Apart(ToSet(ts)), NodesApart(ts),
         PropertiesApart(b, ts), Wholes(b, ts), NEW N \in Nodes(ts),
         NEW name, NameString(name)
  PROVE  \/ /\ Lacks(b, ts, N, name)
            /\ name \notin DOMAIN Tree(b, ts)[N.path]
         \/ \E q : /\ Finds(b, ts, N, name, q)
                   /\ name \in DOMAIN Tree(b, ts)[N.path]
                   /\ Tree(b, ts)[N.path][name] = PropData(b, q)
<1> DEFINE f == Tree(b, ts)[N.path]
<1>1. /\ DOMAIN f = {PropName(b, p) : p \in Properties(ts, N.off)}
      /\ \A p \in Properties(ts, N.off) : f[PropName(b, p)] = PropData(b, p)
  <2> DEFINE W == Tree(b, ts)
  <2>1. Says(W, b, ts)
    BY TreeSays
  <2> HIDE DEF W
  <2>2. /\ DOMAIN W[N.path] = {PropName(b, p) : p \in Properties(ts, N.off)}
        /\ \A p \in Properties(ts, N.off) : W[N.path][PropName(b, p)] = PropData(b, p)
    BY <2>1, Zenon DEF Says
  <2> QED BY <2>2 DEF W
<1> HIDE DEF f
<1>2. CASE Lacks(b, ts, N, name)
  <2>1. name \notin DOMAIN f
    BY <1>1, <1>2 DEF Lacks
  <2> QED BY <1>2, <2>1 DEF f
<1>3. CASE \E q : Finds(b, ts, N, name, q)
  <2>1. PICK q : Finds(b, ts, N, name, q)
    BY <1>3
  <2>2. name \in DOMAIN f /\ f[name] = PropData(b, q)
    BY <1>1, <2>1 DEF Finds
  <2> QED BY <2>1, <2>2 DEF f
<1> QED BY <1>2, <1>3, GetProperty

\* In a sound tree properties can be found.
LEMMA SoundGet ==
  ASSUME NEW b, NEW ts, Sound(b, ts)
  PROVE  /\ Standing(b) /\ Apart(ToSet(ts)) /\ NodesApart(ts)
         /\ PropertiesApart(b, ts) /\ Wholes(b, ts)
BY LaidOutStanding DEF Sound, Shaped

\* An offset designates one node.
LEMMA NodeIs ==
  ASSUME NEW ts, Apart(ToSet(ts)), NEW N \in Nodes(ts)
  PROVE  IsNode(ts, N.off) /\ NodeAt(ts, N.off) = N
<1>1. \A n \in Nodes(ts) : n.off = N.off => n = N
  BY NodesAre DEF Apart
<1> QED BY <1>1 DEF IsNode, NodeAt

\* The front stays over two edits.
LEMMA FrontTwice ==
  ASSUME NEW b, NEW c, NEW d, SameFront(b, c), SameFront(c, d)
  PROVE  SameFront(b, d)
BY DEF SameFront, Kept

\* There is room for a property's new value, that grows the data by g at most.
Fits(b, ts, N, name, val, g) ==
    /\ g \in Nat /\ fdt_data_size_(b) + g <= b.totalsize
    /\ Lacks(b, ts, N, name) => Len(name) + 1 + PropSize(val) <= g
    /\ \A q : Finds(b, ts, N, name, q) =>
           FDT_TAGALIGN(Len(val)) <= FDT_TAGALIGN(PropLen(b, q)) + g

\* fdt_setprop sets the property, and does nothing else to the tree.
SetsProp(b, ts, N, name, val, g, r) ==
    /\ r.ret = Done /\ SetDone(b, ts, N, name, val, r.b) /\ SameFront(b, r.b)
    /\ fdt_data_size_(r.b) <= fdt_data_size_(b) + g

\* It does so for a property that is there (fdt_rw.c:190-300).
LEMMA SetFound ==
  ASSUME NEW b, NEW ts, Sound(b, ts), NEW N \in Nodes(ts), NEW name,
         NameString(name), NEW val \in Seq(Cell), NEW g,
         Fits(b, ts, N, name, val, g), NEW q, Finds(b, ts, N, name, q)
  PROVE  SetsProp(b, ts, N, name, val, g, fdt_setprop(b, ts, N.off, name, val))
<1> DEFINE o == N.off
           len == Len(val)
           ao == FDT_TAGALIGN(PropLen(b, q))
           an == FDT_TAGALIGN(len)
           s == fdt_splice_struct_(b, q.off + PropertySize, ao, an)
           w == SetLen(s.b, q.off, len)
           d == SetData(w, q.off, 0, val)
           r == fdt_setprop(b, ts, o, name, val)
<1>1. LaidOut(b) /\ Apart(ToSet(ts)) /\ IsNode(ts, o)
  BY SoundGet, NodeIs DEF Sound
<1>2. /\ fdt_get_property(b, ts, o, name) = q.off /\ TagAt(ts, q.off) = q
      /\ q.off \in Nat /\ q \in Properties(ts, o)
  BY DEF Finds
<1>3. ao \in Nat /\ an \in Int /\ an <= ao + g /\ g \in Nat
      /\ fdt_data_size_(b) + g <= b.totalsize
  <2>1. q \in ToSet(ts) /\ q.tag = FDT_PROP
    BY <1>2, PropertiesAre
  <2>2. ao \in Nat
    BY <2>1, PropSpan
  <2>3. an \in Int
    <3>1. len \in Int
      OBVIOUS
    <3> HIDE DEF len
    <3> QED BY <3>1, TagAlign, Zenon
  <2> QED BY <2>2, <2>3 DEF Fits
<1>4. fdt_data_size_(b) \in Nat /\ b.totalsize \in Nat
  BY <1>1, LaidNumbers
<1>5. Resizes(b, q, val, ao, an, s, w, d)
  <2>1. fdt_data_size_(b) - ao + an <= b.totalsize
    <3> HIDE DEF ao, an
    <3> QED BY <1>3, <1>4
  <2> QED BY <2>1 DEF Resizes
<1> HIDE DEF ao, an, s, w, d
<1>6. /\ s.ret = Done /\ SetDone(b, ts, N, name, val, d) /\ SameFront(b, d)
      /\ fdt_data_size_(d) = fdt_data_size_(b) + an - ao
  BY <1>5, SetOver
<1>7. fdt_setprop_placeholder(b, ts, o, name, len) = Result(Done, w)
  <2>1. ~(q.off < 0)
    BY <1>2
  <2>2. fdt_setprop_placeholder(b, ts, o, name, len)
          = Resized(b, q.off, PropLen(b, q), len)
    BY <1>1, <1>2, <2>1 DEF fdt_setprop_placeholder
  <2>3. Resized(b, q.off, PropLen(b, q), len)
          = AndThen(s, LAMBDA c : Result(Done, SetLen(c, q.off, len)))
    BY DEF Resized, s, ao, an
  <2> QED BY <1>6, <2>2, <2>3 DEF AndThen, w
<1>8. Placed(b, ts, o, name).off = q.off
  BY <1>2 DEF Placed
<1>9. r = Result(Done, d)
  <2>1. fdt_rw_probe_(b) = Result(Done, b)
    BY <1>1, Probe
  <2> DEFINE op(p) == AndThen(fdt_setprop_placeholder(p, ts, o, name, len),
                LAMBDA c : Result(Done, SetData(c, Placed(p, ts, o, name).off, 0, val)))
  <2>2. r = Probed(b, op)
    BY DEF fdt_setprop
  <2>3. Probed(b, op) = op(b)
    <3> HIDE DEF op
    <3> QED BY <2>1 DEF Probed, AndThen, Result
  <2>4. op(b) = Result(Done, SetData(w, q.off, 0, val))
    BY <1>7, <1>8 DEF AndThen, Result
  <2> QED BY <2>2, <2>3, <2>4 DEF d
<1>10. r.ret = Done /\ r.b = d
  BY <1>9 DEF Result
<1>11. fdt_data_size_(d) <= fdt_data_size_(b) + g
  BY <1>3, <1>4, <1>6
<1> HIDE DEF r
<1>12. SetsProp(b, ts, N, name, val, g, r)
  BY <1>6, <1>10, <1>11 DEF SetsProp
<1> QED BY <1>12 DEF r

\* A name is added to the strings, and the property to its node.
LEMMA SetAbsent ==
  ASSUME NEW b, NEW ts, Sound(b, ts), NEW N \in Nodes(ts), NEW name,
         NameString(name), NEW val \in Seq(Cell), NEW g,
         Fits(b, ts, N, name, val, g), Lacks(b, ts, N, name)
  PROVE  SetsProp(b, ts, N, name, val, g, fdt_setprop(b, ts, N.off, name, val))
<1> DEFINE o == N.off
           len == Len(val)
           n == Len(name) + 1
           new == PropSize(val)
           f == fdt_find_add_string_(b, name)
           c == f.b
           off == fdt_find_string_len_(c, name)
           s == fdt_splice_struct_(c, N.next, 0, new)
           w == Store(s.b, s.b.off_dt_struct + N.next,
                      Word(FDT_PROP) \o Word(len) \o Word(off))
           d == SetData(w, N.next, 0, val)
           r == fdt_setprop(b, ts, o, name, val)
<1>1. /\ LaidOut(b) /\ Apart(ToSet(ts)) /\ IsNode(ts, o) /\ NodeAt(ts, o) = N
  BY SoundGet, NodeIs DEF Sound
<1>2. fdt_get_property(b, ts, o, name) = -1
  BY DEF Lacks
<1>3. n \in Nat /\ new \in Nat /\ g \in Nat /\ n + new <= g
      /\ fdt_data_size_(b) + g <= b.totalsize
      /\ fdt_data_size_(b) \in Nat /\ b.totalsize \in Nat
  <2>1. n \in Nat
    BY DEF NameString
  <2>2. new \in Nat
    BY PropSizeIs
  <2>3. fdt_data_size_(b) \in Nat /\ b.totalsize \in Nat
    BY <1>1, LaidNumbers
  <2> QED BY <2>1, <2>2, <2>3 DEF Fits
<1>4. /\ f.ret = Done /\ StringsAdded(b, c, n)
      /\ \E p \in 0 .. c.size_dt_strings - 1 : StringAt(c, p, name)
  <2>1. fdt_data_size_(b) + Len(name) + 1 <= b.totalsize
    <3> DEFINE l == Len(name)
    <3>1. l \in Nat /\ n = l + 1
      BY DEF NameString
    <3> HIDE DEF l, n, new
    <3> QED BY <1>3, <3>1 DEF l
  <2> QED BY <1>1, <2>1, AddString
<1> HIDE DEF f, n
<1>5. LaidOut(c) /\ Sound(c, ts) /\ Tree(c, ts) = Tree(b, ts)
  <2>1. Sound(c, ts) /\ Tree(c, ts) = Tree(b, ts)
    BY <1>3, <1>4, AddedTree
  <2> QED BY <2>1 DEF Sound
<1>6. Lacks(c, ts, N, name)
  <2>1. name \notin DOMAIN Tree(b, ts)[N.path]
    <3>1. \A q : ~Finds(b, ts, N, name, q)
      BY DEF Lacks, Finds
    <3> QED BY <3>1, SoundGet, TreeGet
  <2>2. \/ Lacks(c, ts, N, name)
        \/ name \in DOMAIN Tree(c, ts)[N.path]
    BY <1>5, SoundGet, TreeGet
  <2> QED BY <1>5, <2>1, <2>2
<1>7. Named(c, off, name) /\ off \in Int /\ off >= 0
  <2>1. c \in Blob
    BY <1>5, LaidNumbers
  <2>2. off \in Int /\ off >= 0 /\ off \in 0 .. c.size_dt_strings - 1
        /\ StringAt(c, off, name)
    BY <1>4, <2>1, FindString
  <2> QED BY <2>2 DEF Named
<1>8. /\ fdt_data_size_(c) + new <= c.totalsize
      /\ fdt_data_size_(c) <= fdt_data_size_(b) + n
      /\ fdt_data_size_(c) \in Nat
  <2>1. /\ c.totalsize = b.totalsize /\ c.off_dt_strings = b.off_dt_strings
        /\ c.size_dt_strings <= b.size_dt_strings + n
    BY <1>4 DEF StringsAdded
  <2>2. /\ fdt_data_size_(c) = c.off_dt_strings + c.size_dt_strings
        /\ c.off_dt_strings \in Nat /\ c.size_dt_strings \in Nat
        /\ fdt_data_size_(c) \in Nat
    BY <1>5, LaidNumbers
  <2>3. /\ fdt_data_size_(b) = b.off_dt_strings + b.size_dt_strings
        /\ b.off_dt_strings \in Nat /\ b.size_dt_strings \in Nat
    BY <1>1, LaidNumbers
  <2> HIDE DEF c, new
  <2>4. fdt_data_size_(c) <= fdt_data_size_(b) + n
    BY SMTT(60), <1>3, <2>1, <2>2, <2>3
  <2>5. fdt_data_size_(c) + new <= c.totalsize
    BY <1>3, <2>1, <2>2, <2>4
  <2> QED BY <2>2, <2>4, <2>5
<1> HIDE DEF off, c
<1>9. StoresWords(s.b, w, N.next, len, off)
  BY DEF StoresWords
<1> HIDE DEF w
<1>10. /\ s.ret = Done /\ SetDone(c, ts, N, name, val, d) /\ SameFront(c, d)
       /\ fdt_data_size_(d) = fdt_data_size_(c) + new
  BY <1>5, <1>6, <1>7, <1>8, <1>9, SetFresh
<1> HIDE DEF s, d
<1>11. fdt_add_property_(b, ts, o, name, len) = Result(Done, w)
  <2>1. s = fdt_splice_struct_(c, N.next, 0, PropertySize + FDT_TAGALIGN(len))
    BY DEF s, PropSize
  <2> DEFINE after(e) ==
            LET t == fdt_splice_struct_(e, N.next, 0,
                                        PropertySize + FDT_TAGALIGN(len))
            IN  IF t.ret # Done
                THEN Result(t.ret, IF fdt_find_string_len_(b, name) < 0
                                   THEN fdt_del_last_string_(e, name)
                                   ELSE e)
                ELSE Result(Done, Store(t.b, t.b.off_dt_struct + N.next,
                        Word(FDT_PROP) \o Word(len)
                        \o Word(fdt_find_string_len_(e, name))))
  <2>2. fdt_add_property_(b, ts, o, name, len) = AndThen(f, after)
    BY <1>1 DEF fdt_add_property_, f
  <2>3. AndThen(f, after) = after(c)
    <3> HIDE DEF after
    <3> QED BY <1>4 DEF AndThen, c
  <2>4. after(c) = Result(Done, w)
    BY <1>10, <2>1 DEF w, off
  <2> QED BY <2>2, <2>3, <2>4
<1>12. fdt_setprop_placeholder(b, ts, o, name, len) = Result(Done, w)
  BY <1>1, <1>2, <1>11 DEF fdt_setprop_placeholder
<1>13. Placed(b, ts, o, name).off = N.next
  BY <1>1, <1>2 DEF Placed
<1>14. r = Result(Done, d)
  <2>1. fdt_rw_probe_(b) = Result(Done, b)
    BY <1>1, Probe
  <2> DEFINE op(p) == AndThen(fdt_setprop_placeholder(p, ts, o, name, len),
                LAMBDA e : Result(Done, SetData(e, Placed(p, ts, o, name).off, 0, val)))
  <2>2. r = Probed(b, op)
    BY DEF fdt_setprop
  <2>3. Probed(b, op) = op(b)
    <3> HIDE DEF op
    <3> QED BY <2>1 DEF Probed, AndThen, Result
  <2>4. op(b) = Result(Done, SetData(w, N.next, 0, val))
    BY <1>12, <1>13 DEF AndThen, Result
  <2> QED BY <2>2, <2>3, <2>4 DEF d
<1>15. r.ret = Done /\ r.b = d
  BY <1>14 DEF Result
<1>16. SetDone(b, ts, N, name, val, d)
  BY <1>5, <1>10 DEF SetDone
<1>17. SameFront(b, d)
  <2>1. SameFront(b, c)
    <3>1. Kept(b, c, b.off_dt_struct)
      <4> DEFINE S == b.off_dt_struct
                 data == fdt_data_size_(b)
      <4>1. Kept(b, c, data) /\ S \in Nat /\ data \in Nat /\ S <= data
        <5>1. /\ S \in Nat /\ data \in Nat /\ b.size_dt_struct \in Nat
              /\ S + b.size_dt_struct <= data
          BY <1>1, LaidNumbers
        <5> HIDE DEF S, data
        <5>2. S <= data
          BY <5>1
        <5>3. Kept(b, c, data)
          BY <1>4 DEF StringsAdded, data
        <5> QED BY <5>1, <5>2, <5>3
      <4> HIDE DEF S, data
      <4>2. \A y \in HeaderSize .. S - 1 : y \in HeaderSize .. data - 1
        BY <4>1 DEF HeaderSize
      <4>3. Kept(b, c, S)
        BY <4>1, <4>2 DEF Kept
      <4> QED BY <4>3 DEF S
    <3> QED BY <1>4, <3>1 DEF StringsAdded, SameFront
  <2> QED BY <1>10, <2>1, FrontTwice
<1>18. fdt_data_size_(d) <= fdt_data_size_(b) + g
  <2> HIDE DEF new
  <2> QED BY <1>3, <1>8, <1>10
<1> HIDE DEF r
<1>19. SetsProp(b, ts, N, name, val, g, r)
  BY <1>15, <1>16, <1>17, <1>18 DEF SetsProp
<1> QED BY <1>19 DEF r

\* fdt_setprop with room to set it.
LEMMA SetProp ==
  ASSUME NEW b, NEW ts, Sound(b, ts), NEW N \in Nodes(ts), NEW name,
         NameString(name), NEW val \in Seq(Cell), NEW g,
         Fits(b, ts, N, name, val, g)
  PROVE  SetsProp(b, ts, N, name, val, g, fdt_setprop(b, ts, N.off, name, val))
<1>1. Lacks(b, ts, N, name) \/ \E q : Finds(b, ts, N, name, q)
  BY SoundGet, GetProperty
<1> QED BY <1>1, SetAbsent, SetFound

\* The k-th tag is the last before the place of a new child of the root.
RootEnds(ts, lo, k) ==
    /\ k \in 1 .. Len(ts) - 1 /\ ts[k].next = lo /\ lo \in Nat
    /\ NodePlace(ToSet(ts), lo)
    /\ \A i \in 2 .. k : ts[i].tag \in {FDT_PROP, FDT_NOP}

\* A new child of the root goes where the root's properties end.
LEMMA NewPlace ==
  ASSUME NEW b, NEW ts, Sound(b, ts)
  PROVE  \E k : RootEnds(ts, NewNode(ts, 0), k)
<1> DEFINE T == ToSet(ts)
           S == {t.off : t \in {u \in T : u.off > 0
                                  /\ u.tag \notin {FDT_PROP, FDT_NOP}}}
           n == Len(ts)
<1>1. /\ Readable(b) /\ Walk(b, ts) /\ Apart(T) /\ OneRoot(ts)
      /\ ts \in Seq(TagSet) /\ n \in Nat
      /\ \A t \in T : t.off \in Nat
  <2>1. Readable(b) /\ Walk(b, ts) /\ Apart(T) /\ OneRoot(ts)
    BY LaidOutReadable DEF Sound, Shaped
  <2>2. ts \in Seq(TagSet) /\ n \in Nat
    BY <2>1 DEF Walk, WalkFrom
  <2> HIDE DEF T
  <2>3. \A t \in T : t.off \in Nat
    BY <2>1 DEF Apart
  <2> QED BY <2>1, <2>2, <2>3
<1>2. S \subseteq Nat
  BY <1>1
<1>3. S # {}
  <2>1. PICK c \in T : c.tag = FDT_END_NODE /\ Len(c.path) = 1
    BY <1>1 DEF OneRoot
  <2>2. PICK r \in T : r.tag = FDT_BEGIN_NODE /\ r.off = 0
    BY DEF Sound, Shaped
  <2>3. c.off # 0
    BY <1>1, <2>1, <2>2 DEF Apart, FDT_BEGIN_NODE, FDT_END_NODE
  <2>4. c.off > 0 /\ c.tag \notin {FDT_PROP, FDT_NOP}
    BY <1>1, <2>1, <2>3 DEF FDT_END_NODE, FDT_PROP, FDT_NOP
  <2> QED BY <2>4
<1> DEFINE lo == Min(S)
<1>4. NewNode(ts, 0) = lo
  BY DEF NewNode
<1>5. lo \in S /\ \A k \in S : lo <= k
  <2> HIDE DEF S
  <2> QED BY <1>2, <1>3, MinOf
<1>6. PICK v \in T : v.off = lo /\ v.off > 0
      /\ v.tag \notin {FDT_PROP, FDT_NOP}
  BY <1>5
<1>7. lo \in Nat /\ lo > 0
  BY <1>1, <1>6
<1>8. \A u \in T : 0 < u.off /\ u.off < lo => u.tag \in {FDT_PROP, FDT_NOP}
  <2> SUFFICES ASSUME NEW u \in T, 0 < u.off, u.off < lo,
                      u.tag \notin {FDT_PROP, FDT_NOP}
               PROVE  FALSE
    OBVIOUS
  <2>1. u.off \in S
    OBVIOUS
  <2>2. lo <= u.off /\ u.off \in Nat
    BY <1>1, <1>5, <2>1
  <2> HIDE DEF lo
  <2> QED BY <1>7, <2>2
<1> HIDE DEF lo
<1>9. NodePlace(T, lo)
  BY <1>6, <1>7, <1>8 DEF NodePlace, InRun
<1>10. PICK j \in 1 .. n : v = ts[j]
  BY DEF ToSet
<1>11. ts[1].off = 0 /\ 1 \in 1 .. n
  BY <1>1, <1>10, WalkTag
<1>12. j # 1 /\ j - 1 \in 1 .. n - 1 /\ j - 1 \in 1 .. n /\ j - 1 # n
  BY <1>1, <1>6, <1>10, <1>11
<1> DEFINE k == j - 1
<1>13. ts[k].next = lo
  <2>1. k + 1 = j
    BY <1>10
  <2>2. ts[k + 1].off = ts[k].next
    BY <1>1, <1>12, WalkTag
  <2> QED BY <1>6, <1>10, <2>1, <2>2
<1>14. ASSUME NEW i \in 2 .. k PROVE ts[i].tag \in {FDT_PROP, FDT_NOP}
  <2>1. i \in 1 .. n /\ i # n /\ 1 < i /\ i < j /\ 1 # n
    BY <1>1, <1>10, <1>12
  <2>2. ts[1].next <= ts[i].off /\ ts[i].next <= ts[j].off
    BY <1>1, <1>10, <1>11, <2>1, WalkOrder
  <2>3. ts[1].off + 4 <= ts[1].next /\ ts[1].next \in Int
    BY <1>1, <1>11, <2>1, WalkTag
  <2>4. /\ ts[i].off + 4 <= ts[i].next /\ ts[i].next \in Int
        /\ ts[i].off \in Nat
    BY <1>1, <2>1, WalkTag
  <2>5. 0 < ts[i].off /\ ts[i].off < lo
    <3> DEFINE a == ts[1].next
               c == ts[i].off
               e == ts[i].next
               f == ts[j].off
    <3>1. 4 <= a /\ a \in Int /\ c \in Nat /\ e \in Int /\ a <= c /\ c + 4 <= e
          /\ e <= f /\ f = lo /\ lo \in Nat
      BY <1>6, <1>7, <1>10, <1>11, <2>2, <2>3, <2>4
    <3> HIDE DEF a, c, e, f
    <3>2. 0 < c /\ c < lo
      BY <3>1
    <3> QED BY <3>2 DEF c
  <2>6. ts[i] \in T
    BY <2>1 DEF ToSet
  <2> QED BY <1>8, <2>5, <2>6
<1>15. RootEnds(ts, lo, k)
  BY <1>7, <1>9, <1>12, <1>13, <1>14 DEF RootEnds
<1> QED BY <1>4, <1>15

\* The walk is in the root up to there.
LEMMA RootInside ==
  ASSUME NEW b, NEW ts, Sound(b, ts), NEW lo, NEW k, RootEnds(ts, lo, k)
  PROVE  Inside(ts[k]) = ts[1].path /\ Len(ts[1].path) = 1
         /\ ts[1].path \in Path
<1> DEFINE n == Len(ts)
<1>1. /\ Readable(b) /\ Walk(b, ts) /\ Apart(ToSet(ts)) /\ n \in Nat
      /\ k \in 1 .. n - 1
  BY LaidOutReadable DEF Sound, Shaped, Walk, WalkFrom, RootEnds
<1>2. ts[1].tag = FDT_BEGIN_NODE /\ Len(ts[1].path) = 1
  <2>1. PICK r \in ToSet(ts) : r.tag = FDT_BEGIN_NODE /\ r.off = 0
                               /\ Len(r.path) = 1
    BY DEF Sound, Shaped
  <2>2. ts[1].off = 0 /\ ts[1] \in ToSet(ts)
    BY <1>1, WalkTag DEF ToSet
  <2>3. ts[1] = r
    BY <1>1, <2>1, <2>2 DEF Apart
  <2> QED BY <2>1, <2>3
<1>3. ts[1].path \in Path
  BY <1>1, WalkTag
<1> DEFINE S == {i \in 1 .. k : Inside(ts[i]) # ts[1].path}
<1>4. S = {}
  <2> SUFFICES ASSUME S # {} PROVE FALSE
    OBVIOUS
  <2>1. S \subseteq Nat
    BY <1>1
  <2>2. PICK m \in S : \A i \in S : m <= i
    <3> HIDE DEF S
    <3> QED BY <2>1, LeastNat
  <2>3. m # 1
    BY <1>2 DEF Inside, FDT_BEGIN_NODE, FDT_END_NODE
  <2>4. m \in 2 .. k /\ m - 1 \in 1 .. k /\ m \in 1 .. n /\ m \in Nat
    BY <1>1, <2>3
  <2>5. Inside(ts[m - 1]) = ts[1].path
    <3>1. m - 1 \notin S
      <4> HIDE DEF S
      <4> QED BY <2>2, <2>4
    <3> QED BY <2>4, <3>1
  <2>6. ts[m].tag \in {FDT_PROP, FDT_NOP}
    BY <2>4 DEF RootEnds
  <2>7. ts[m] = Entry(b, ts[m].off, Before(ts, m)) /\ Before(ts, m) \in Path
        /\ ts[m].off \in Nat
    BY <1>1, <2>4, WalkTag
  <2>8. ts[m].path = Before(ts, m)
    <3> DEFINE o == ts[m].off
               p == Before(ts, m)
               t == ts[m]
    <3>1. o \in Int /\ p \in Path /\ t = Entry(b, o, p)
          /\ t.tag # FDT_BEGIN_NODE
      BY <2>6, <2>7 DEF FDT_BEGIN_NODE, FDT_PROP, FDT_NOP
    <3> HIDE DEF o, p, t
    <3>2. t.path = p
      BY <1>1, <3>1, EntryTyped
    <3> QED BY <3>2 DEF t, p
  <2>9. Inside(ts[m]) = ts[1].path
    BY <2>3, <2>5, <2>6, <2>8 DEF Inside, Before, FDT_PROP, FDT_NOP, FDT_END_NODE
  <2> QED BY <2>9
<1>5. k \in 1 .. k
  BY <1>1
<1> QED BY <1>2, <1>3, <1>4, <1>5

\* The words of the node /chosen: its tag, its name, the name's NULs, its end.
NodeWords == Word(FDT_BEGIN_NODE) \o ChosenName \o Zeros(8 - Len(ChosenName))
             \o Word(FDT_END_NODE)

\* They are four words.
LEMMA NodeWordsAre ==
  /\ NodeWords \in Seq(Cell) /\ Len(NodeWords) = 16
  /\ NodeWords[1] = FDT_BEGIN_NODE /\ NodeWords[13] = FDT_END_NODE
  /\ \A i \in 1 .. 6 : NodeWords[i + 4] = ChosenName[i]
  /\ NodeWords[11] = NUL
<1> DEFINE s == Word(FDT_BEGIN_NODE)
           t == ChosenName
           u == Zeros(2)
           v == Word(FDT_END_NODE)
<1>1. /\ s \in Seq(Cell) /\ Len(s) = 4 /\ s[1] = FDT_BEGIN_NODE
      /\ v \in Seq(Cell) /\ Len(v) = 4 /\ v[1] = FDT_END_NODE
  BY WordIs DEF FDT_BEGIN_NODE, FDT_END_NODE
<1>2. t \in Seq(Cell) /\ Len(t) = 6
  BY DEF ChosenName, Cell
<1>3. u \in Seq(Cell) /\ Len(u) = 2 /\ u[1] = NUL
  BY DEF Zeros, Cell, NUL
<1>4. NodeWords = s \o t \o u \o v
  <2>1. 8 - Len(ChosenName) = 2
    BY <1>2
  <2> QED BY <2>1, Zenon DEF NodeWords
<1> HIDE DEF s, t, u, v
<1> DEFINE m == s \o t \o u
<1>5. Joined(m, Cell, s, t, u, 4, 10, 12)
  <2>1. 4 = Len(s) /\ 10 = 4 + Len(t) /\ 12 = 10 + Len(u)
    BY <1>1, <1>2, <1>3
  <2> QED BY <1>1, <1>2, <1>3, <2>1, Concat3
<1> HIDE DEF m
<1>6. /\ m \in Seq(Cell) /\ Len(m) = 12
      /\ \A i \in 1 .. 4 : m[i] = s[i]
      /\ \A i \in 4 + 1 .. 10 : m[i] = t[i - 4]
      /\ \A i \in 10 + 1 .. 12 : m[i] = u[i - 10]
  BY <1>5, Zenon DEF Joined
<1>7. NodeWords = m \o v
  BY <1>4 DEF m
<1>8. /\ m \o v \in Seq(Cell) /\ Len(m \o v) = 16
      /\ \A i \in 1 .. 12 : (m \o v)[i] = m[i]
      /\ (m \o v)[13] = v[1]
  <2> DEFINE z == m \o v
  <2>1. /\ z \in Seq(Cell) /\ Len(z) = Len(m) + Len(v)
        /\ \A i \in 1 .. Len(m) + Len(v) :
              z[i] = IF i <= Len(m) THEN m[i] ELSE v[i - Len(m)]
    BY ZenonT(60), <1>1, <1>6, ConcatProperties
  <2> HIDE DEF z
  <2>2. 13 - 12 = 1 /\ 13 \in 1 .. 16 /\ \A i \in 1 .. 12 : i \in 1 .. 16
    OBVIOUS
  <2>3. /\ z \in Seq(Cell) /\ Len(z) = 16
        /\ \A i \in 1 .. 16 : z[i] = IF i <= 12 THEN m[i] ELSE v[i - 12]
    BY <1>1, <1>6, <2>1
  <2>4. \A i \in 1 .. 12 : z[i] = m[i]
    BY <2>2, <2>3
  <2>5. z[13] = v[1]
    BY <2>2, <2>3
  <2> QED BY <2>3, <2>4, <2>5 DEF z
<1> DEFINE w == m \o v
<1> HIDE DEF w
<1>9. /\ w \in Seq(Cell) /\ Len(w) = 16
      /\ \A i \in 1 .. 12 : w[i] = m[i]
      /\ w[13] = v[1]
  BY <1>8 DEF w
<1>10. ASSUME NEW i \in 1 .. 6 PROVE w[i + 4] = t[i]
  <2>1. i + 4 \in 4 + 1 .. 10 /\ (i + 4) - 4 = i /\ i + 4 \in 1 .. 12
    OBVIOUS
  <2>2. m[i + 4] = t[(i + 4) - 4]
    BY <1>6, <2>1, Zenon
  <2> QED BY <1>9, <2>1, <2>2
<1>11. w[1] = s[1] /\ w[11] = u[1]
  <2>1. m[1] = s[1] /\ m[11] = u[11 - 10]
    BY <1>6
  <2> QED BY <1>9, <2>1
<1> QED BY <1>1, <1>3, <1>7, <1>9, <1>10, <1>11 DEF w, t

StoresNode(c, d, lo) == d = Store(c, c.off_dt_struct + lo, NodeWords)
NodeWorded(d, lo) ==
    /\ Byte(d, d.off_dt_struct + lo) = FDT_BEGIN_NODE
    /\ StringOf(d, d.off_dt_struct + (lo + 4), 6)
    /\ Bytes(d, d.off_dt_struct + (lo + 4), 6) = ChosenName
    /\ Byte(d, d.off_dt_struct + (lo + 12)) = FDT_END_NODE
\* They are stored in the room made for them.
LEMMA NodeStored ==
  ASSUME NEW b, LaidOut(b), NEW lo \in Nat, lo <= b.size_dt_struct,
         NEW c, Edited(b, c, lo, 0, 16), NEW d, StoresNode(c, d, lo)
  PROVE  Edited(b, d, lo, 0, 16) /\ NodeWorded(d, lo)
<1> DEFINE S == b.off_dt_struct
           W == NodeWords
           e == End(c)
<1>1. S \in Nat /\ HeaderSize <= S /\ HeaderSize \in Nat
  BY LaidNumbers DEF HeaderSize
<1>2. c \in Blob /\ c.off_dt_struct = S /\ e \in Nat
  BY EndOf DEF Edited
<1>3. /\ W \in Seq(Cell) /\ Len(W) = 16
      /\ W[1] = FDT_BEGIN_NODE /\ W[13] = FDT_END_NODE
      /\ \A i \in 1 .. 6 : W[i + 4] = ChosenName[i]
      /\ W[11] = NUL
  BY NodeWordsAre
<1>4. S + lo + 16 <= e /\ lo + 0 <= b.size_dt_struct
  <2> DEFINE data == fdt_data_size_(b)
             z == b.size_dt_struct
  <2>1. e = data + 16 - 0 /\ data \in Nat /\ z \in Nat /\ S + z <= data
        /\ lo <= z
    BY LaidNumbers DEF Edited
  <2> HIDE DEF e, data, z, S
  <2> QED BY <1>1, <1>2, <2>1 DEF z
<1> HIDE DEF W
<1>5. StoredAt(c, d, S + lo, W) /\ Edited(b, d, lo, 0, 16)
  <2>1. /\ S + lo \in Int /\ b.off_dt_struct + lo <= S + lo
        /\ (S + lo) + Len(W) <= b.off_dt_struct + lo + 16
    <3>1. (S + lo) + 16 <= S + lo + 16 /\ S + lo \in Int /\ S + lo <= S + lo
      <4> HIDE DEF S
      <4> QED BY <1>1
    <3> QED BY <1>3, <3>1
  <2>2. d = Store(c, S + lo, W)
    BY <1>2 DEF W, StoresNode
  <2> DEFINE x == S + lo
  <2>3. /\ x \in Int /\ b.off_dt_struct + lo <= x
        /\ x + Len(W) <= b.off_dt_struct + lo + 16 /\ d = Store(c, x, W)
        /\ lo + 0 <= b.size_dt_struct /\ 0 \in Nat /\ 16 \in Nat
    BY <1>4, <2>1, <2>2
  <2> HIDE DEF x, S, e
  <2>4. StoredAt(c, d, x, W) /\ Edited(b, d, lo, 0, 16)
    BY <1>3, <2>3, EditedStore
  <2> QED BY <2>4 DEF x
<1>6. \A y \in HeaderSize .. e - 1 :
         S + lo <= y /\ y < (S + lo) + 16 => Byte(d, y) = W[y - (S + lo) + 1]
  BY <1>3, <1>5 DEF StoredAt
<1>7. ASSUME NEW i \in 0 .. 15 PROVE Byte(d, (S + lo) + i) = W[i + 1]
  <2>1. /\ (S + lo) + i \in HeaderSize .. e - 1 /\ S + lo <= (S + lo) + i
        /\ (S + lo) + i < (S + lo) + 16
        /\ ((S + lo) + i) - (S + lo) + 1 = i + 1
    <3> HIDE DEF S, e
    <3> QED BY <1>1, <1>2, <1>4
  <2> QED BY <1>6, <2>1
<1>8. d.off_dt_struct = S /\ d \in Blob /\ End(d) = e
  BY <1>5 DEF Edited, StoredAt
<1> DEFINE x == S + (lo + 4)
<1>9. /\ x \in Nat /\ HeaderSize <= x /\ x + 6 <= e /\ x + 6 = (S + lo) + 10
      /\ \A i \in 1 .. 6 : x + i - 1 = (S + lo) + (i + 3)
      /\ S + lo = (S + lo) + 0 /\ S + (lo + 12) = (S + lo) + 12
      /\ \A i \in 0 .. 5 : x + i = (S + lo) + (i + 4)
  <2> HIDE DEF S, e
  <2> QED BY <1>1, <1>2, <1>4 DEF x
<1>10. /\ Byte(d, S + lo) = W[1] /\ Byte(d, S + (lo + 12)) = W[13]
       /\ Byte(d, x + 6) = W[11]
  <2>1. /\ Byte(d, (S + lo) + 0) = W[0 + 1]
        /\ Byte(d, (S + lo) + 12) = W[12 + 1]
        /\ Byte(d, (S + lo) + 10) = W[10 + 1]
    BY <1>7
  <2> QED BY <1>9, <2>1
<1>11. ASSUME NEW i \in 0 .. 5 PROVE Byte(d, x + i) = ChosenName[i + 1]
  <2>1. i + 4 \in 0 .. 15 /\ (i + 4) + 1 = (i + 1) + 4 /\ i + 1 \in 1 .. 6
    OBVIOUS
  <2>2. Byte(d, (S + lo) + (i + 4)) = W[(i + 4) + 1]
    BY <1>7, <2>1
  <2>3. W[(i + 1) + 4] = ChosenName[i + 1]
    BY <1>3, <2>1
  <2> QED BY <1>9, <2>1, <2>2, <2>3
<1>12. \A i \in 1 .. 6 : ChosenName[i] # NUL
  <2>1. ChosenName = <<99, 104, 111, 115, 101, 110>>
    BY DEF ChosenName
  <2>2. \A i \in 1 .. 6 : i \in {1, 2, 3, 4, 5, 6}
    OBVIOUS
  <2> QED BY <2>1, <2>2 DEF NUL
<1> HIDE DEF x
<1>13. StringOf(d, x, 6)
  <2>1. \A i \in 0 .. 5 : Byte(d, x + i) # NUL
    <3> SUFFICES ASSUME NEW i \in 0 .. 5 PROVE Byte(d, x + i) # NUL
      OBVIOUS
    <3>1. i + 1 \in 1 .. 6
      OBVIOUS
    <3> QED BY <1>11, <1>12, <3>1
  <2>2. 6 - 1 = 5 /\ 6 \in Nat
    OBVIOUS
  <2> QED BY <1>3, <1>10, <2>1, <2>2 DEF StringOf
<1>14. Bytes(d, x, 6) = ChosenName
  <2> DEFINE z == Bytes(d, x, 6)
  <2>1. /\ z \in Seq(Cell) /\ Len(z) = 6
        /\ \A i \in 1 .. 6 : z[i] = Byte(d, x + i - 1)
    <3> HIDE DEF x
    <3>1. x \in Int /\ 6 \in Nat /\ x + 6 <= End(d) /\ d \in Blob
          /\ HeaderSize <= x
      BY <1>8, <1>9
    <3> QED BY <3>1, BytesOf
  <2>2. ChosenName \in Seq(Cell) /\ Len(ChosenName) = 6
    BY DEF ChosenName, Cell
  <2>3. ASSUME NEW i \in 1 .. 6 PROVE z[i] = ChosenName[i]
    <3>1. i - 1 \in 0 .. 5 /\ (i - 1) + 1 = i /\ x + i - 1 = x + (i - 1)
      BY <1>9
    <3>2. Byte(d, x + (i - 1)) = ChosenName[(i - 1) + 1]
      BY <1>11, <3>1
    <3> QED BY <2>1, <3>1, <3>2
  <2> HIDE DEF z
  <2>4. z = ChosenName
    BY <2>1, <2>2, <2>3
  <2> QED BY <2>4 DEF z
<1> QED BY <1>3, <1>5, <1>8, <1>10, <1>13, <1>14 DEF NodeWorded, x

\* Behind a node's end the walk is where it was before the node.
LEMMA FrontAppend ==
  ASSUME NEW S, NEW p \in Seq(S), NEW x \in S
  PROVE  Front(Append(p, x)) = p
<1> DEFINE q == Append(p, x)
           f == SubSeq(q, 1, Len(q) - 1)
           n == Len(p)
<1>1. q \in Seq(S) /\ Len(q) = n + 1 /\ n \in Nat
      /\ \A i \in 1 .. n : q[i] = p[i]
  OBVIOUS
<1> HIDE DEF q
<1>2. f \in Seq(S) /\ Len(f) = n /\ \A i \in 1 .. n : f[i] = q[i]
  BY <1>1
<1>3. f = p
  <2> HIDE DEF f
  <2> QED BY <1>1, <1>2
<1> QED BY <1>3 DEF q, Front

\* A second item.
LEMMA AppendSecond ==
  ASSUME NEW S, NEW p \in Seq(S), Len(p) = 1, NEW x \in S
  PROVE  /\ Append(p, x) \in Seq(S) /\ Len(Append(p, x)) = 2
         /\ Append(p, x)[2] = x
<1>1. /\ Append(p, x) \in Seq(S) /\ Len(Append(p, x)) = Len(p) + 1
      /\ Append(p, x)[Len(p) + 1] = x
  BY AppendProperties, ZenonT(60)
<1> QED BY <1>1

\* The tags of the node /chosen at lo, in a root of path p.
BeginTag(lo, p) == [tag |-> FDT_BEGIN_NODE, off |-> lo, next |-> lo + 12,
                    path |-> Append(p, ChosenName)]
EndTag(lo, p) == [tag |-> FDT_END_NODE, off |-> lo + 12, next |-> lo + 16,
                  path |-> Append(p, ChosenName)]
\* Its words read as its tags.
LEMMA ChosenTags ==
  ASSUME NEW d, LaidOut(d), NEW lo \in Nat, lo % 4 = 0, NodeWorded(d, lo),
         lo + 16 <= d.size_dt_struct, NEW p \in Path, Len(p) = 1
  PROVE  /\ NewTags(d, lo, lo + 16, p, p, <<BeginTag(lo, p), EndTag(lo, p)>>)
         /\ IsNewNode(BeginTag(lo, p), EndTag(lo, p), lo, 16)
         /\ Last(Append(p, ChosenName)) = ChosenName
<1> DEFINE B == BeginTag(lo, p)
           E == EndTag(lo, p)
           S == d.off_dt_struct
           hi == lo + 12
           q == Append(p, ChosenName)
<1>1. Len(ChosenName) = 6 /\ ChosenName \in Seq(Int)
  BY DEF ChosenName
<1>2. q \in Path /\ Len(q) = 2 /\ Front(q) = p /\ Last(q) = ChosenName
  <2>1. p \in Seq(Seq(Int)) /\ ChosenName \in Seq(Int)
    BY <1>1 DEF Path
  <2> DEFINE c == ChosenName
  <2> HIDE DEF c
  <2>2. c \in Seq(Int) /\ p \in Seq(Seq(Int)) /\ Len(p) = 1
    BY <2>1 DEF c
  <2>3. /\ Append(p, c) \in Seq(Seq(Int)) /\ Len(Append(p, c)) = 2
        /\ Append(p, c)[2] = c
    <3> DEFINE T == Seq(Int)
    <3>1. c \in T /\ p \in Seq(T) /\ Len(p) = 1
      BY <2>2
    <3> HIDE DEF T
    <3>2. /\ Append(p, c) \in Seq(T) /\ Len(Append(p, c)) = 2
          /\ Append(p, c)[2] = c
      BY <3>1, AppendSecond
    <3> QED BY <3>2 DEF T
  <2>4. Front(Append(p, c)) = p
    BY <2>2, FrontAppend
  <2>5. Last(Append(p, c)) = c
    BY <2>3 DEF Last
  <2> QED BY <2>3, <2>4, <2>5 DEF c, Path
<1>3. hi = lo + (4 + FDT_TAGALIGN(Len(ChosenName) + 1)) /\ hi + 4 = lo + 16
      /\ hi \in Nat
  <2>1. FDT_TAGALIGN(Len(ChosenName) + 1) = 8
    <3>1. FDT_TAGALIGN(7) = 8
      BY DEF FDT_TAGALIGN, FDT_ALIGN, FDT_TAGSIZE
    <3>2. Len(ChosenName) + 1 = 7
      BY <1>1
    <3> QED BY <3>1, <3>2
  <2> QED BY <2>1
<1>4. /\ Byte(d, S + lo) = FDT_BEGIN_NODE
      /\ StringOf(d, S + (lo + 4), Len(ChosenName))
      /\ Bytes(d, S + (lo + 4), Len(ChosenName)) = ChosenName
      /\ Byte(d, S + hi) = FDT_END_NODE
  BY <1>1 DEF NodeWorded
<1>5. hi + 4 <= d.size_dt_struct
  BY <1>3
<1> HIDE DEF hi, q
<1> DEFINE nm == ChosenName
<1> HIDE DEF nm
<1>6. /\ hi = lo + (4 + FDT_TAGALIGN(Len(nm) + 1))
      /\ Byte(d, S + lo) = FDT_BEGIN_NODE
      /\ StringOf(d, S + (lo + 4), Len(nm))
      /\ Bytes(d, S + (lo + 4), Len(nm)) = nm
      /\ Byte(d, S + hi) = FDT_END_NODE
      /\ hi + 4 <= d.size_dt_struct
  BY <1>3, <1>4, <1>5 DEF nm
<1>7. /\ Entry(d, lo, p) = [tag |-> FDT_BEGIN_NODE, off |-> lo,
                            next |-> hi, path |-> Append(p, nm)]
      /\ \A z : Entry(d, hi, z) = [tag |-> FDT_END_NODE, off |-> hi,
                                   next |-> hi + 4, path |-> z]
  <2>1. NodeReads(d, lo, nm, hi)
    BY <1>6 DEF NodeReads
  <2>2. NodeGives(d, lo, nm, hi, p)
    <3> HIDE DEF S, hi, B, E
    <3> QED BY <2>1, NodeTags
  <2> QED BY <2>2, Zenon DEF NodeGives
<1>8. Entry(d, lo, p) = B /\ Entry(d, hi, q) = E
  BY <1>3, <1>7 DEF BeginTag, EndTag, hi, q, nm
<1>9. /\ B.tag = FDT_BEGIN_NODE /\ B.off = lo /\ B.next = hi /\ B.path = q
      /\ E.tag = FDT_END_NODE /\ E.off = hi /\ E.next = lo + 16 /\ E.path = q
  BY DEF BeginTag, EndTag, hi, q
<1>10. B \in TagSet /\ E \in TagSet
  <2>1. lo + 12 \in Int /\ lo + 16 \in Int /\ lo \in Int
    OBVIOUS
  <2>2. Append(p, ChosenName) \in Path
    BY <1>2 DEF q
  <2> QED BY <2>1, <2>2 DEF BeginTag, EndTag, TagSet, FDT_BEGIN_NODE, FDT_END_NODE
<1> HIDE DEF B, E
<1>11. /\ Inside(B) = q /\ Inside(E) = p /\ ~Stops(B) /\ ~Stops(E)
  <2>1. q # <<>>
    BY <1>2
  <2> QED BY <1>2, <1>9, <2>1
       DEF Inside, Stops, FDT_BEGIN_NODE, FDT_END_NODE, FDT_END
<1>12. NewTags(d, lo, lo + 16, p, p, <<B, E>>)
  <2> DEFINE ns == <<B, E>>
  <2>1. ns \in Seq(TagSet) /\ Len(ns) = 2 /\ ns[1] = B /\ ns[2] = E
    BY <1>10
  <2> HIDE DEF ns
  <2>2. \A i \in 1 .. Len(ns) : i = 1 \/ i = 2
    BY <2>1
  <2>3. \A i \in 1 .. Len(ns) - 1 : i = 1
    BY <2>1
  <2>4. ns[1 + 1] = Entry(d, ns[1].next, Inside(ns[1]))
    BY <1>8, <1>9, <1>11, <2>1
  <2>5. \A i \in 1 .. Len(ns) - 1 : ns[i + 1] = Entry(d, ns[i].next, Inside(ns[i]))
    BY <2>3, <2>4
  <2>6. \A i \in 1 .. Len(ns) : ~Stops(ns[i])
    BY <1>11, <2>1, <2>2
  <2>7. ns[Len(ns)].next = lo + 16 /\ Inside(ns[Len(ns)]) = p
    BY <1>9, <1>11, <2>1
  <2>8. NewTags(d, lo, lo + 16, p, p, ns)
    BY <1>8, <2>1, <2>5, <2>6, <2>7 DEF NewTags
  <2> QED BY <2>8 DEF ns
<1>13. IsNewNode(B, E, lo, 16)
  <2>1. hi \in Nat /\ lo < hi /\ hi < lo + 16
    BY <1>3 DEF hi
  <2> QED BY <1>2, <1>9, <2>1 DEF IsNewNode
<1> QED BY <1>2, <1>12, <1>13 DEF B, E, q

\* What stands behind a tag that is not the last.
LEMMA TagPlace ==
  ASSUME NEW b, NEW ts, Sound(b, ts), NEW k, k \in 1 .. Len(ts) - 1,
         NEW lo, ts[k].next = lo
  PROVE  /\ lo \in Nat /\ lo % 4 = 0 /\ lo <= b.size_dt_struct
         /\ Cut(ToSet(ts), lo)
         /\ ts[Len(ts)].next \in Nat /\ lo <= ts[Len(ts)].next
<1> DEFINE n == Len(ts)
<1>1. /\ LaidOut(b) /\ Readable(b) /\ Walk(b, ts) /\ ts[n].next # -1
      /\ BlockEnd(b) = b.size_dt_struct
  BY LaidOutReadable DEF Sound
<1>2. n \in Nat /\ ts \in Seq(TagSet)
  BY <1>1 DEF Walk, WalkFrom
<1>3. Cut(ToSet(ts), lo) /\ lo \in Nat
  BY <1>1, WalkCut
<1>4. k \in 1 .. n /\ n \in 1 .. n /\ k < n
  BY <1>2
<1>5. ASSUME NEW i \in 1 .. n
      PROVE  /\ ts[i].next % 4 = 0 /\ ts[i].next <= b.size_dt_struct
             /\ ts[i].off \in Nat /\ ts[i].next \in Nat
             /\ ts[i].off < ts[i].next
  <2>1. /\ ts[i].next % 4 = 0 /\ ts[i].next <= BlockEnd(b)
        /\ ts[i].off + 4 <= ts[i].next
    BY <1>1, WholeTag
  <2>2. ts[i].off \in Nat /\ ts[i].next \in Int
    BY <1>1, WalkTag
  <2> QED BY <1>1, <2>1, <2>2
<1>6. lo <= ts[n].off
  BY <1>1, <1>4, WalkOrder
<1>7. ts[n].next \in Nat /\ lo <= ts[n].next
  <2> DEFINE f == ts[n].next
             g == ts[n].off
  <2>1. f \in Nat /\ g \in Nat /\ g < f /\ lo <= g
    BY <1>4, <1>5, <1>6
  <2> HIDE DEF f, g
  <2>2. f \in Nat /\ lo <= f
    BY <1>3, <2>1
  <2> QED BY <2>2 DEF f
<1>8. ts[k].next % 4 = 0 /\ ts[k].next <= b.size_dt_struct
  BY <1>4, <1>5
<1> HIDE DEF n
<1> QED BY <1>3, <1>7, <1>8 DEF n

\* The words of /chosen behind the k-th tag, in the root.
ChosenPut(b, ts, k, lo, p, d) ==
    /\ Sound(b, ts) /\ RootEnds(ts, lo, k)
    /\ Inside(ts[k]) = p /\ p \in Path /\ Len(p) = 1
    /\ Edited(b, d, lo, 0, 16) /\ NodeWorded(d, lo)
    /\ \A t \in ToSet(ts) : ~Called(ToSet(ts), t)
\* They make the node.
LEMMA ChosenMade ==
  ASSUME NEW b, NEW ts, NEW k, NEW lo, NEW p, NEW d,
         ChosenPut(b, ts, k, lo, p, d)
  PROVE  /\ \E us : NodeMade(b, ts, lo, 16, d, us, BeginTag(lo, p), EndTag(lo, p))
         /\ Last(BeginTag(lo, p).path) = ChosenName
         /\ LaidOut(d) /\ fdt_data_size_(d) = fdt_data_size_(b) + 16
<1> DEFINE B == BeginTag(lo, p)
           E == EndTag(lo, p)
           ns == <<B, E>>
           us == Replaced(ts, k, k, ns, 16)
           T == ToSet(ts)
<1>1. /\ Sound(b, ts) /\ RootEnds(ts, lo, k) /\ Inside(ts[k]) = p
      /\ p \in Path /\ Len(p) = 1
      /\ Edited(b, d, lo, 0, 16) /\ NodeWorded(d, lo)
      /\ \A t \in T : ~Called(T, t)
  BY DEF ChosenPut
<1>2. /\ k \in 1 .. Len(ts) - 1 /\ ts[k].next = lo /\ lo \in Nat
      /\ NodePlace(T, lo)
  BY <1>1 DEF RootEnds
<1>3. /\ LaidOut(b) /\ Readable(b) /\ Walk(b, ts) /\ ts[Len(ts)].next # -1
  BY <1>1, LaidOutReadable DEF Sound
<1>4. /\ lo % 4 = 0 /\ lo <= b.size_dt_struct /\ Cut(T, lo)
      /\ ts[Len(ts)].next \in Nat
  BY <1>1, <1>2, TagPlace
<1>5. LaidOut(d) /\ fdt_data_size_(d) = fdt_data_size_(b) + 16
      /\ lo + 16 <= d.size_dt_struct
  <2>1. b.size_dt_struct \in Nat /\ fdt_data_size_(b) \in Nat
    BY <1>3, LaidNumbers
  <2>2. lo + 0 <= b.size_dt_struct /\ 0 \in Nat /\ 16 \in Nat
    BY <1>2, <1>4
  <2>3. LaidOut(d) /\ fdt_data_size_(d) = fdt_data_size_(b) + 16 - 0
    BY <1>1, <1>2, <1>3, <2>2, EditedLaidOut
  <2>4. d.size_dt_struct = b.size_dt_struct + 16 - 0
    BY <1>1 DEF Edited
  <2> DEFINE y == b.size_dt_struct
             z == d.size_dt_struct
  <2>5. z = y + 16 - 0 /\ y \in Nat /\ lo <= y
    BY <1>4, <2>1, <2>4
  <2> HIDE DEF y, z
  <2>6. lo + 16 <= z
    BY <1>2, <2>5
  <2>7. fdt_data_size_(d) = fdt_data_size_(b) + 16
    BY <2>1, <2>3
  <2> QED BY <2>3, <2>6, <2>7 DEF z
<1>6. /\ NewTags(d, lo, lo + 16, p, p, ns)
      /\ IsNewNode(B, E, lo, 16)
      /\ Last(Append(p, ChosenName)) = ChosenName
  BY <1>1, <1>2, <1>4, <1>5, ChosenTags
<1>7. B.path = Append(p, ChosenName) /\ B.tag = FDT_BEGIN_NODE
  BY DEF BeginTag
<1> HIDE DEF B, E
<1>8. Changed(b, ts, k, k, lo, 0, 16, d, ns)
  <2>1. ts[k].next = lo + 0 /\ (16 - 0) % 4 = 0 /\ k \in k .. Len(ts) - 1
    BY <1>2
  <2> HIDE DEF ns
  <2>2. NewTags(d, lo, lo + 16, Inside(ts[k]), Inside(ts[k]), ns)
    BY <1>1, <1>6
  <2> QED BY <1>1, <1>2, <1>3, <2>1, <2>2 DEF Changed
<1>9. us = Replaced(ts, k, k, ns, 16 - 0) /\ 16 - 0 = 16 /\ 0 \in Nat
      /\ 16 \in Nat
  OBVIOUS
<1>10. ToSet(ns) = {B, E}
  <2>1. Len(ns) = 2 /\ ns[1] = B /\ ns[2] = E /\ DOMAIN ns = {1, 2}
    OBVIOUS
  <2> HIDE DEF ns
  <2> QED BY <2>1 DEF ToSet
<1> HIDE DEF ns, us
<1>11. /\ Walk(d, us)
       /\ Exchanged(T, ToSet(us), lo, 0, 16, ToSet(ns))
       /\ us[Len(us)].next = ts[Len(ts)].next + 16
  <2>1. Walk(d, Replaced(ts, k, k, ns, 16 - 0))
    BY <1>2, <1>8, <1>9, ReplaceWalk
  <2>2. /\ Exchanged(T, ToSet(us), lo, 0, 16 - 0, ToSet(ns))
        /\ us[Len(us)].next = ts[Len(ts)].next + (16 - 0)
    BY <1>2, <1>8, <1>9, ReplacedSet
  <2> QED BY <1>9, <2>1, <2>2
<1>12. us[Len(us)].next # -1
  BY <1>4, <1>11
<1>13. ExchangedPair(T, ToSet(us), lo, 16, B, E)
  BY <1>10, <1>11 DEF ExchangedPair
<1>14. ASSUME NEW t \in Nodes(ts), t.path = B.path PROVE FALSE
  <2>1. t \in T /\ t.tag = FDT_BEGIN_NODE
    BY NodesAre
  <2>2. Len(t.path) = 2 /\ Last(t.path) = ChosenName
    BY <1>6, <1>7, <1>14 DEF IsNewNode
  <2>3. fdt_nodename_eq_(ChosenName, ChosenName)
    <3>1. ChosenName \in Seq(Nat)
      BY DEF ChosenName
    <3>2. IsPrefix(ChosenName, ChosenName)
      BY <3>1 DEF IsPrefix
    <3> QED BY <3>2 DEF fdt_nodename_eq_
  <2>4. Called(T, t)
    BY <2>1, <2>2, <2>3 DEF Called
  <2> QED BY <1>1, <2>1, <2>4
<1>15. NodeMade(b, ts, lo, 16, d, us, B, E)
  <2>1. 16 > 0 /\ 16 \in Nat
    OBVIOUS
  <2> QED BY <1>1, <1>2, <1>4, <1>6, <1>11, <1>12, <1>13, <1>14, <2>1 DEF NodeMade
<1> QED BY <1>5, <1>6, <1>7, <1>15 DEF B, E

\* fdt_add_subnode makes the node /chosen, without properties.
AddsChosen(b, ts, r) ==
    /\ r.ret = Done /\ SameFront(b, r.b)
    /\ fdt_data_size_(r.b) = fdt_data_size_(b) + 16
    /\ \E us, B : /\ Sound(r.b, us) /\ IsChosen(ToSet(us), B)
                  /\ B.off = NewNode(ts, 0)
                  /\ Added(Tree(r.b, us), Tree(b, ts), B.path)

\* It does so where no node goes by that name (fdt_rw.c:346-392).
LEMMA AddChosen ==
  ASSUME NEW b, NEW ts, Sound(b, ts),
         \A t \in ToSet(ts) : ~Called(ToSet(ts), t),
         fdt_data_size_(b) + 16 <= b.totalsize
  PROVE  AddsChosen(b, ts, fdt_add_subnode(b, ts, 0, ChosenName))
<1> DEFINE lo == NewNode(ts, 0)
           T == ToSet(ts)
           p == ts[1].path
           s == fdt_splice_struct_(b, lo, 0, 16)
           d == Store(s.b, s.b.off_dt_struct + lo, NodeWords)
           r == fdt_add_subnode(b, ts, 0, ChosenName)
<1>1. LaidOut(b) /\ Apart(T) /\ Shaped(ts)
  BY DEF Sound, Shaped
<1>2. PICK k : RootEnds(ts, lo, k)
  BY NewPlace
<1>3. Inside(ts[k]) = p /\ Len(p) = 1 /\ p \in Path
  BY <1>2, RootInside
<1>4. lo \in Nat /\ lo <= b.size_dt_struct
  <2>1. k \in 1 .. Len(ts) - 1 /\ ts[k].next = lo
    BY <1>2 DEF RootEnds
  <2> HIDE DEF lo
  <2> QED BY <2>1, TagPlace
<1> HIDE DEF lo, p
<1>5. s.ret = Done /\ Edited(b, s.b, lo, 0, 16)
  <2> DEFINE data == fdt_data_size_(b)
             tot == b.totalsize
             z == b.size_dt_struct
  <2>1. data \in Nat /\ tot \in Nat /\ data + 16 <= tot /\ z \in Nat
    BY <1>1, LaidNumbers
  <2>2. lo + 0 <= b.size_dt_struct /\ 0 \in Nat /\ 16 \in Nat
    BY <1>4, <2>1
  <2>3. s = fdt_splice_struct_(b, lo, 0, 16)
    OBVIOUS
  <2>4. ~(data - 0 + 16 > tot)
    <3> HIDE DEF data, tot
    <3> QED BY <2>1
  <2> HIDE DEF s
  <2>5. IF fdt_data_size_(b) - 0 + 16 > b.totalsize
         THEN s = Result(NoSpace, b)
         ELSE s.ret = Done /\ Edited(b, s.b, lo, 0, 16)
    BY <1>1, <1>4, <2>2, <2>3, SpliceStruct
  <2> QED BY <2>4, <2>5
<1>6. StoresNode(s.b, d, lo)
  BY DEF StoresNode
<1> HIDE DEF d
<1>7. Edited(b, d, lo, 0, 16) /\ NodeWorded(d, lo)
  BY <1>1, <1>4, <1>5, <1>6, NodeStored
<1>8. ChosenPut(b, ts, k, lo, p, d)
  BY <1>2, <1>3, <1>7 DEF ChosenPut
<1> DEFINE B == BeginTag(lo, p)
           E == EndTag(lo, p)
<1>9. PICK us : NodeMade(b, ts, lo, 16, d, us, B, E)
  BY <1>8, ChosenMade
<1>10. /\ Last(B.path) = ChosenName /\ B.off = lo
       /\ fdt_data_size_(d) = fdt_data_size_(b) + 16
  <2>1. /\ Last(B.path) = ChosenName
        /\ fdt_data_size_(d) = fdt_data_size_(b) + 16
    BY <1>8, ChosenMade
  <2> QED BY <2>1 DEF BeginTag
<1> HIDE DEF B, E
<1>11. Sound(d, us) /\ Added(Tree(d, us), Tree(b, ts), B.path)
  BY <1>9, NodeTree
<1>12. IsChosen(ToSet(us), B)
  <2>1. /\ IsNewNode(B, E, lo, 16)
        /\ ExchangedPair(T, ToSet(us), lo, 16, B, E) /\ 16 \in Nat
    BY <1>9 DEF NodeMade
  <2> QED BY <1>1, <1>4, <1>10, <2>1, NodeChosen
<1>13. SameFront(b, d)
  BY <1>1, <1>4, <1>7, EditedFront
<1>14. IsNode(ts, 0)
  <2>1. PICK a \in T : a.tag = FDT_BEGIN_NODE /\ a.off = 0
    BY <1>1 DEF Shaped
  <2>2. a \in Nodes(ts)
    BY <2>1, NodesAre
  <2> QED BY <2>1, <2>2 DEF IsNode
<1>15. fdt_subnode_offset(ts, 0, ChosenName) = -1
  <2> DEFINE found == {t \in Subnodes(ts, 0) :
                         fdt_nodename_eq_(Last(t.path), ChosenName)}
  <2>1. found = {}
    <3> SUFFICES ASSUME NEW t \in found PROVE FALSE
      OBVIOUS
    <3>1. t \in T /\ t.tag = FDT_BEGIN_NODE /\ Len(t.path) = 2
      BY <1>1, RootChildren
    <3>2. Called(T, t)
      BY <3>1 DEF Called
    <3> QED BY <3>1, <3>2
  <2> HIDE DEF found
  <2>2. fdt_subnode_offset(ts, 0, ChosenName) = IF found = {} THEN -1 ELSE Min({t.off : t \in found})
    BY DEF fdt_subnode_offset, found
  <2> QED BY <2>1, <2>2
<1>16. FDT_TAGALIGN(Len(ChosenName) + 1) = 8
  <2>1. FDT_TAGALIGN(7) = 8
    BY DEF FDT_TAGALIGN, FDT_ALIGN, FDT_TAGSIZE
  <2>2. Len(ChosenName) + 1 = 7
    BY DEF ChosenName
  <2> QED BY <2>1, <2>2
<1>17. r = Result(Done, d)
  <2>1. fdt_rw_probe_(b) = Result(Done, b)
    BY <1>1, Probe
  <2> DEFINE nl == FDT_TAGALIGN(Len(ChosenName) + 1)
             op(q) == IF ~IsNode(ts, 0) THEN Result(BadOffset, q)
            ELSE IF fdt_subnode_offset(ts, 0, ChosenName) >= 0
            THEN Result(Exists, q)
            ELSE AndThen(fdt_splice_struct_(q, lo, 0,
                             FDT_TAGSIZE + nl + FDT_TAGSIZE),
                    LAMBDA c : Result(Done, Store(c, c.off_dt_struct + lo,
                        Word(FDT_BEGIN_NODE) \o ChosenName
                        \o Zeros(nl - Len(ChosenName)) \o Word(FDT_END_NODE))))
  <2>2. r = Probed(b, op)
    BY DEF fdt_add_subnode, lo
  <2>3. Probed(b, op) = op(b)
    <3> HIDE DEF op
    <3> QED BY <2>1 DEF Probed, AndThen, Result
  <2>4. nl = 8
    BY <1>16
  <2>5. FDT_TAGSIZE + 8 + FDT_TAGSIZE = 16
    BY DEF FDT_TAGSIZE
  <2>6. ~(fdt_subnode_offset(ts, 0, ChosenName) >= 0)
    BY <1>15
  <2> DEFINE after(c) == Result(Done, Store(c, c.off_dt_struct + lo,
                        Word(FDT_BEGIN_NODE) \o ChosenName
                        \o Zeros(nl - Len(ChosenName)) \o Word(FDT_END_NODE)))
  <2>7. op(b) = AndThen(fdt_splice_struct_(b, lo, 0, FDT_TAGSIZE + nl + FDT_TAGSIZE),
                        after)
    BY <1>14, <2>6
  <2>8. op(b) = AndThen(s, after)
    <3> HIDE DEF after, op
    <3>1. FDT_TAGSIZE + nl + FDT_TAGSIZE = 16
      BY <2>4, <2>5
    <3> QED BY <2>7, <3>1
  <2>9. AndThen(s, after) = after(s.b)
    <3> HIDE DEF after, s
    <3> QED BY <1>5 DEF AndThen
  <2>10. after(s.b) = Result(Done, d)
    <3>1. NodeWords = Word(FDT_BEGIN_NODE) \o ChosenName
                        \o Zeros(nl - Len(ChosenName)) \o Word(FDT_END_NODE)
      BY <2>4, Zenon DEF NodeWords
    <3> HIDE DEF nl, s
    <3> QED BY <3>1, Zenon DEF d
  <2> QED BY <2>2, <2>3, <2>8, <2>9, <2>10
<1>18. r.ret = Done /\ r.b = d
  BY <1>17 DEF Result
<1> HIDE DEF r
<1>19. AddsChosen(b, ts, r)
  BY <1>10, <1>11, <1>12, <1>13, <1>18 DEF AddsChosen, lo
<1> QED BY <1>19 DEF r

\* An entry of the reservation map that ends it.
EndsAt(b, n) ==
    /\ b.off_mem_rsvmap + (n + 1) * ReserveSize <= End(b)
    /\ Byte(b, b.off_mem_rsvmap + n * ReserveSize + 8) = 0
\* The first one is found, when there is one.
LEMMA ReserveEnd ==
  ASSUME NEW b \in Blob, NEW n \in Nat, EndsAt(b, n),
         b.off_mem_rsvmap + (n + 1) * ReserveSize <= b.totalsize
  PROVE  /\ fdt_num_mem_rsv(b) \in 0 .. n /\ EndsAt(b, fdt_num_mem_rsv(b))
         /\ \A i \in 0 .. fdt_num_mem_rsv(b) - 1 : ~EndsAt(b, i)
<1> DEFINE S == {i \in 0 .. b.totalsize \div ReserveSize : EndsAt(b, i)}
           x == b.totalsize \div ReserveSize
<1>1. fdt_num_mem_rsv(b) = Min(S)
  BY DEF fdt_num_mem_rsv, EndsAt
<1>2. x \in Int /\ \A i \in Nat : i <= n => i <= x
  <2> DEFINE m == b.off_mem_rsvmap
             t == b.totalsize
  <2>1. m \in Nat /\ t \in Nat
    BY DEF Blob
  <2>2. m + (n + 1) * 16 <= t
    BY DEF ReserveSize
  <2>3. x = t \div 16
    BY DEF ReserveSize
  <2> HIDE DEF m, t, x
  <2>4. x \in Int /\ n <= x
    BY <2>1, <2>2, <2>3
  <2> QED BY <2>4
<1> HIDE DEF x
<1>3. n \in S
  <2>1. n \in 0 .. x
    BY <1>2
  <2> QED BY <2>1 DEF x
<1>4. S \subseteq Nat
  OBVIOUS
<1>5. Min(S) \in S /\ \A i \in S : Min(S) <= i
  <2> HIDE DEF S
  <2> QED BY <1>3, <1>4, MinOf
<1> DEFINE k == Min(S)
<1>6. k \in S /\ k \in Nat /\ k <= n
  BY <1>3, <1>4, <1>5
<1>7. EndsAt(b, k)
  BY <1>6
<1>8. ASSUME NEW i \in 0 .. k - 1, EndsAt(b, i) PROVE FALSE
  <2>1. i \in Nat /\ i < k
    BY <1>6
  <2>2. i \in S
    <3>1. i \in 0 .. x
      <4> HIDE DEF k
      <4> QED BY <1>2, <1>6, <2>1
    <3> QED BY <1>8, <3>1 DEF x
  <2>3. k <= i
    BY <1>5, <2>2
  <2> HIDE DEF k
  <2> QED BY <1>6, <2>1, <2>3
<1>9. k \in 0 .. n
  <2> HIDE DEF k
  <2> QED BY <1>6
<1> QED BY <1>1, <1>7, <1>8, <1>9

\* The size of the structure block, that a header of version 16 lacks.
StrcSize(d) == IF d.version >= 17 THEN d.size_dt_struct ELSE Last(Tags(d)).next
\* The numbers of a tree as dtc writes it.
LEMMA WellNumbers ==
  ASSUME NEW d, WellFormed(d)
  PROVE  /\ d \in Blob /\ End(d) = d.totalsize /\ fdt_check_header(d)
         /\ d.off_mem_rsvmap % 8 = 0 /\ d.off_dt_struct % 4 = 0
         /\ HeaderSize <= d.off_mem_rsvmap
         /\ d.off_mem_rsvmap + ReserveSize <= d.off_dt_struct
         /\ d.version >= 17 => d.off_dt_struct + d.size_dt_struct <= d.totalsize
         /\ d.off_dt_struct <= d.totalsize
         /\ ~fdt_blocks_misordered_(d, ReserveMapSize(d), StrcSize(d))
         /\ \E n \in Nat : EndsAt(d, n) /\ d.off_mem_rsvmap + (n + 1) * ReserveSize
                                             <= d.off_dt_struct
<1>1. d \in Blob /\ End(d) = d.totalsize /\ fdt_check_header(d)
      /\ BlocksInOrder(d)
  BY DEF WellFormed
<1> DEFINE m == d.off_mem_rsvmap
           S == d.off_dt_struct
           t == d.totalsize
           room == (S - m) \div 16
<1>2. m \in Nat /\ S \in Nat /\ t \in Nat /\ d.version \in {16, 17}
      /\ d.off_dt_strings \in Nat /\ d.size_dt_strings \in Nat
      /\ d.size_dt_struct \in Nat
  BY <1>1 DEF Blob
<1>3. /\ m % 8 = 0 /\ S % 4 = 0 /\ S <= t
      /\ d.version >= 17 => S + d.size_dt_struct <= t
  BY <1>1 DEF fdt_check_header, check_off_, check_block_, FDT_TAGSIZE
<1>4. /\ \E n \in 0 .. room - 1 : Byte(d, m + n * ReserveSize + 8) = 0
      /\ ~fdt_blocks_misordered_(d, ReserveMapSize(d), StrcSize(d))
  BY <1>1 DEF BlocksInOrder, StrcSize, ReserveSize
<1>5. PICK n \in 0 .. room - 1 : Byte(d, m + n * ReserveSize + 8) = 0
  BY <1>4
<1>6. n \in Nat /\ m + (n + 1) * 16 <= S
  <2>1. n \in 0 .. ((S - m) \div 16) - 1
    BY <1>5
  <2> HIDE DEF S, m
  <2> QED BY <1>2, <2>1
<1>7. EndsAt(d, n)
  <2>1. m + (n + 1) * 16 <= t
    <3> HIDE DEF m, S, t
    <3> QED BY <1>2, <1>3, <1>6
  <2> QED BY <1>1, <1>5, <2>1 DEF EndsAt, ReserveSize
<1>8. fdt_num_mem_rsv(d) \in Nat
  <2>1. d.off_mem_rsvmap + (n + 1) * ReserveSize <= d.totalsize
    <3> HIDE DEF m, S, t
    <3>1. m + (n + 1) * 16 <= t
      BY <1>2, <1>3, <1>6
    <3> QED BY <3>1 DEF m, t, ReserveSize
  <2>2. fdt_num_mem_rsv(d) \in 0 .. n
    BY <1>1, <1>6, <1>7, <2>1, ReserveEnd
  <2> QED BY <2>2
<1>9. HeaderSize <= m /\ m + ReserveSize <= S
  <2> DEFINE z == StrcSize(d)
             rs == ReserveMapSize(d)
  <2>1. ~fdt_blocks_misordered_(d, rs, z)
    BY <1>4
  <2>2. rs \in Nat /\ 16 <= rs
    BY <1>8 DEF ReserveMapSize, ReserveSize
  <2> HIDE DEF z, rs
  <2>3. ~(m < FDT_ALIGN(HeaderSize, 8)) /\ ~(S < m + rs)
    BY <2>1 DEF fdt_blocks_misordered_
  <2>4. FDT_ALIGN(HeaderSize, 8) = 40
    BY DEF FDT_ALIGN, HeaderSize
  <2> HIDE DEF m, S
  <2> QED BY <1>2, <2>2, <2>3, <2>4 DEF HeaderSize, ReserveSize
<1>10. m + (n + 1) * ReserveSize <= S
  BY <1>6 DEF ReserveSize
<1> QED BY <1>1, <1>3, <1>4, <1>6, <1>7, <1>9, <1>10

\* Its tags.
LEMMA WellTags ==
  ASSUME NEW d, WellFormed(d), NEW ts, ts = Tags(d)
  PROVE  /\ Readable(d) /\ Walk(d, ts) /\ ts[Len(ts)].next # -1 /\ Shaped(ts)
         /\ NodesApart(ts) /\ PropertiesApart(d, ts) /\ Wholes(d, ts)
         /\ WholeTags(d, ToSet(ts))
         /\ StrcSize(d) \in Nat /\ ts[Len(ts)].next <= StrcSize(d)
<1> DEFINE n == Len(ts)
           T == ToSet(ts)
<1>1. /\ OneRoot(ts) /\ NodesApart(ts) /\ PropertiesApart(d, ts)
      /\ Wholes(d, ts) /\ ts[1].tag = FDT_BEGIN_NODE
      /\ \A t \in T : t.next # -1
  BY DEF WellFormed, Wholes
<1>2. Readable(d)
  <2> DEFINE m == d.off_mem_rsvmap
             S == d.off_dt_struct
             t == d.totalsize
             e == End(d)
  <2>1. /\ d \in Blob /\ HeaderSize <= m /\ m + ReserveSize <= S /\ S <= t
        /\ e = t
        /\ d.version >= 17 => S + d.size_dt_struct <= t
    BY WellNumbers
  <2>2. m \in Nat /\ S \in Nat /\ t \in Nat
    BY <2>1 DEF Blob
  <2>3. HeaderSize <= S
    <3> HIDE DEF m, S
    <3> QED BY <2>1, <2>2 DEF HeaderSize, ReserveSize
  <2> DEFINE y == S + d.size_dt_struct
  <2> DEFINE v == d.version
  <2>4. v \in {16, 17}
    BY <2>1 DEF Blob
  <2>5. v >= 17 => y <= t
    BY <2>1, Zenon
  <2>6. e = t /\ S <= t /\ t \in Nat
    BY <2>1, <2>2, Zenon
  <2> HIDE DEF m, e, t, S, y, v
  <2>7. S <= e /\ IF v >= 17 THEN y <= e /\ y <= t ELSE t <= e
    BY <2>4, <2>5, <2>6
  <2>8. d \in Blob /\ HeaderSize <= S
    BY <2>1, <2>3
  <2> QED BY <2>7, <2>8 DEF Readable, S, e, y, t, v
<1>3. Walk(d, ts)
  BY <1>2, TagsWalk
<1>4. n \in Nat /\ ts \in Seq(TagSet) /\ n # 0 /\ n \in 1 .. n /\ 1 \in 1 .. n
  BY <1>3 DEF Walk, WalkFrom
<1>5. ts[n] \in T /\ ts[1] \in T
  BY <1>4 DEF ToSet
<1>6. ts[n].next # -1
  BY <1>1, <1>5
<1>7. WholeTags(d, T) /\ Apart(T)
  BY <1>2, <1>3, <1>6, WalkWhole, WalkSet
<1>8. ts[1].off = 0 /\ Len(ts[1].path) = 1
  <2>1. ts[1].off = 0 /\ ts[1] = Entry(d, ts[1].off, Before(ts, 1))
    BY <1>2, <1>3, <1>4, WalkTag
  <2>2. Before(ts, 1) = <<>>
    BY DEF Before
  <2> DEFINE t == ts[1]
             p == <<>>
  <2>3. t = Entry(d, 0, p) /\ p \in Path /\ t.tag = FDT_BEGIN_NODE
    BY <1>1, <2>1, <2>2 DEF Path
  <2> HIDE DEF t, p
  <2>4. t.path = Append(p, NameAt(d, 0 + FDT_TAGSIZE))
    BY <1>2, <2>3, EntryTyped
  <2>5. t.path = Append(<<>>, NameAt(d, 0 + FDT_TAGSIZE))
    BY <2>4 DEF p
  <2>6. Len(t.path) = 1
    <3> DEFINE x == NameAt(d, 0 + FDT_TAGSIZE)
    <3> HIDE DEF x
    <3>1. Append(<<>>, x) = <<x>> /\ Len(<<x>>) = 1
      OBVIOUS
    <3> QED BY <2>5, <3>1 DEF x
  <2> QED BY <2>1, <2>6 DEF t
<1>9. Shaped(ts)
  <2>1. \A t \in T : t.off + 4 <= t.next
    BY <1>7 DEF WholeTags
  <2> QED BY <1>1, <1>5, <1>7, <1>8, <2>1 DEF Shaped
<1>10. StrcSize(d) \in Nat /\ ts[n].next <= StrcSize(d)
  <2>1. d \in Blob /\ d.version \in {16, 17} /\ d.size_dt_struct \in Nat
    BY WellNumbers DEF Blob
  <2>2. ts[n].next <= BlockEnd(d) /\ ts[n].off + 4 <= ts[n].next
        /\ ts[n].off \in Nat
        /\ ts[n].next \in Int
    BY <1>2, <1>3, <1>4, <1>6, WholeTag, WalkTag
  <2>3. ts[n].next \in Nat
    BY <2>2
  <2>4. Last(ts) = ts[n]
    BY DEF Last
  <2>5. CASE d.version >= 17
    BY <2>1, <2>2, <2>5 DEF StrcSize, BlockEnd
  <2>6. CASE ~(d.version >= 17)
    <3>1. StrcSize(d) = ts[n].next
      BY <2>4, <2>6 DEF StrcSize
    <3> QED BY <2>3, <3>1
  <2> QED BY <2>5, <2>6
<1> HIDE DEF n, T
<1> QED BY <1>1, <1>2, <1>3, <1>6, <1>7, <1>9, <1>10 DEF n, T

\* The tree opened where it is.
Opens(d, c) == c = [d EXCEPT !.version = 17, !.size_dt_struct = StrcSize(d),
                             !.totalsize = d.totalsize + FdtSlack]
OpenNumbers(d, c) ==
    /\ c.version = 17 /\ c.size_dt_struct = StrcSize(d)
    /\ c.totalsize = d.totalsize + FdtSlack
    /\ c.off_mem_rsvmap = d.off_mem_rsvmap
    /\ c.off_dt_struct = d.off_dt_struct /\ c.off_dt_strings = d.off_dt_strings
    /\ c.size_dt_strings = d.size_dt_strings /\ c.mem = d.mem
    /\ c \in Blob

\* Its fields.
LEMMA OpenFields ==
  ASSUME NEW d, WellFormed(d), NEW c, Opens(d, c)
  PROVE  OpenNumbers(d, c)
<1> DEFINE z == StrcSize(d)
           t == d.totalsize + FdtSlack
<1>1. z \in Nat
  BY WellTags
<1>2. d \in Blob
  BY WellNumbers
<1>3. t \in Nat
  BY <1>2 DEF Blob, FdtSlack
<1>4. c = [d EXCEPT !.version = 17, !.size_dt_struct = z, !.totalsize = t]
  BY DEF Opens
<1> HIDE DEF z, t
<1>5. /\ c.version = 17 /\ c.size_dt_struct = z /\ c.totalsize = t
      /\ c.off_mem_rsvmap = d.off_mem_rsvmap
      /\ c.off_dt_struct = d.off_dt_struct
      /\ c.off_dt_strings = d.off_dt_strings
      /\ c.size_dt_strings = d.size_dt_strings /\ c.mem = d.mem
  BY <1>2, <1>4 DEF Blob
<1>6. c \in Blob
  BY <1>1, <1>2, <1>3, <1>4 DEF Blob
<1> QED BY <1>5, <1>6 DEF OpenNumbers, z, t

\* It can be edited.
LEMMA OpenLaid ==
  ASSUME NEW d, WellFormed(d), NEW c, Opens(d, c)
  PROVE  /\ LaidOut(c) /\ End(c) = End(d)
         /\ fdt_data_size_(c) + FdtSlack <= c.totalsize
         /\ Standing(d)
<1> DEFINE m == d.off_mem_rsvmap
           S == d.off_dt_struct
           z == StrcSize(d)
           so == d.off_dt_strings
           ss == d.size_dt_strings
           t == d.totalsize
           rs == ReserveMapSize(d)
<1>1. /\ c.version = 17 /\ c.size_dt_struct = z /\ c.totalsize = t + FdtSlack
      /\ c.off_mem_rsvmap = m /\ c.off_dt_struct = S /\ c.off_dt_strings = so
      /\ c.size_dt_strings = ss /\ c.mem = d.mem /\ c \in Blob
  BY OpenFields DEF OpenNumbers
<1>2. /\ d \in Blob /\ End(d) = t /\ m % 8 = 0 /\ S % 4 = 0
      /\ HeaderSize <= m /\ m + ReserveSize <= S
      /\ ~fdt_blocks_misordered_(d, rs, z)
  BY WellNumbers
<1>3. m \in Nat /\ S \in Nat /\ so \in Nat /\ ss \in Nat /\ t \in Nat
      /\ z \in Nat
  BY <1>2, WellTags DEF Blob
<1>4. ~(so < S + z) /\ ~(t < so + ss)
  <2> HIDE DEF rs, z
  <2> QED BY <1>2 DEF fdt_blocks_misordered_
<1>5. End(c) = End(d)
  BY <1>1 DEF End
<1>6. fdt_data_size_(c) = so + ss
  BY <1>1 DEF fdt_data_size_
<1>7. /\ S + z <= so /\ so + ss <= t + FdtSlack /\ so + ss <= t
      /\ so + ss + FdtSlack <= t + FdtSlack /\ HeaderSize <= so
  <2>1. FdtSlack \in Nat /\ HeaderSize \in Nat /\ ReserveSize \in Nat
    BY DEF FdtSlack, HeaderSize, ReserveSize
  <2> HIDE DEF m, S, z, so, ss, t
  <2> QED BY <1>2, <1>3, <1>4, <2>1
<1>8. LaidOut(c)
  <2> HIDE DEF m, S, z, so, ss, t
  <2> QED BY <1>1, <1>2, <1>5, <1>6, <1>7 DEF LaidOut
<1>9. fdt_data_size_(c) + FdtSlack <= c.totalsize
  <2> HIDE DEF m, S, z, so, ss, t
  <2> QED BY <1>1, <1>6, <1>7
<1>10. Standing(d)
  <2>1. Readable(d)
    BY WellTags
  <2>2. HeaderSize <= so /\ so + ss <= End(d)
    BY <1>2, <1>7, Zenon
  <2> QED BY <2>1, <2>2 DEF Standing
<1> QED BY <1>5, <1>8, <1>9, <1>10

\* It is the same tree.
LEMMA OpenSound ==
  ASSUME NEW d, WellFormed(d), NEW c, Opens(d, c), NEW ts, ts = Tags(d)
  PROVE  /\ Sound(c, ts) /\ Tree(c, ts) = Tree(d, ts)
         /\ Standing(d) /\ Shaped(ts) /\ NodesApart(ts)
         /\ PropertiesApart(d, ts) /\ Wholes(d, ts)
         /\ fdt_data_size_(c) + FdtSlack <= c.totalsize
         /\ c.off_mem_rsvmap = d.off_mem_rsvmap /\ c.mem = d.mem
         /\ c.off_dt_struct = d.off_dt_struct
         /\ c.totalsize = d.totalsize + FdtSlack
<1> DEFINE T == ToSet(ts)
           z == StrcSize(d)
           lim == ts[Len(ts)].next
<1>1. /\ Readable(d) /\ Walk(d, ts) /\ lim # -1 /\ Shaped(ts)
      /\ NodesApart(ts) /\ PropertiesApart(d, ts) /\ Wholes(d, ts)
      /\ WholeTags(d, T) /\ z \in Nat /\ lim <= z
  BY WellTags
<1>2. /\ LaidOut(c) /\ End(c) = End(d) /\ Standing(d)
      /\ fdt_data_size_(c) + FdtSlack <= c.totalsize
  BY OpenLaid
<1>3. /\ c.version = 17 /\ c.size_dt_struct = z
      /\ c.off_mem_rsvmap = d.off_mem_rsvmap
      /\ c.off_dt_struct = d.off_dt_struct
      /\ c.off_dt_strings = d.off_dt_strings
      /\ c.size_dt_strings = d.size_dt_strings /\ c.mem = d.mem
      /\ c.totalsize = d.totalsize + FdtSlack
  BY OpenFields DEF OpenNumbers
<1>4. \A y : Byte(c, y) = Byte(d, y)
  BY <1>3 DEF Byte
<1>5. Walk(c, ts)
  <2>1. Readable(c)
    BY <1>2, LaidOutReadable
  <2>2. Kept(d, c, d.off_dt_struct + lim)
    BY <1>4 DEF Kept
  <2>3. lim <= c.size_dt_struct
    BY <1>1, <1>3
  <2>4. Holds(d, ts, c)
    BY <1>1, <1>3, <2>1, <2>2, <2>3 DEF Holds
  <2> QED BY <2>4, WalkKept
<1>6. ASSUME NEW q \in T, q.tag = FDT_PROP PROVE PropKept(d, q, c, q)
  <2> DEFINE x == End(d)
  <2>1. x \in Nat /\ x <= End(c)
    <3>1. d \in Blob
      BY <1>1 DEF Readable
    <3>2. x \in Nat
      BY <3>1, EndOf
    <3> QED BY <1>2, <3>2
  <2>2. \A t \in T : d.off_dt_struct + t.next <= x
    <3> DEFINE S == d.off_dt_struct
               e == BlockEnd(d)
    <3>1. /\ S \in Nat /\ e \in Nat /\ S + e <= x
      BY <1>1, ReadNumbers
    <3>2. \A t \in T : t.next <= e /\ t.next \in Int
      BY <1>1 DEF WholeTags, Shaped, Apart
    <3> HIDE DEF S, e, x, T
    <3>3. \A t \in T : S + t.next <= x
      <4> SUFFICES ASSUME NEW t \in T PROVE S + t.next <= x
        OBVIOUS
      <4> DEFINE g == t.next
      <4>1. g <= e /\ g \in Int
        BY <3>2
      <4>2. x \in Nat
        BY <2>1
      <4> HIDE DEF g
      <4>3. S + g <= x
        BY <3>1, <4>1, <4>2
      <4> QED BY <4>3 DEF g
    <3> QED BY <3>3 DEF S
  <2>3. Apart(T) /\ PropertyWhole(d, q)
    BY <1>1, <1>6 DEF Shaped, Wholes
  <2>4. Standing(c)
    BY <1>2, LaidOutStanding
  <2>5. StringsKept(d, c)
    <3>1. d.size_dt_strings \in Nat
      BY <1>2, StandNumbers
    <3> QED BY <1>3, <1>4, <3>1 DEF StringsKept
  <2>6. Kept(d, c, x)
    BY <1>4 DEF Kept
  <2> HIDE DEF x, T
  <2> QED BY <1>1, <1>2, <1>3, <1>6, <2>1, <2>2, <2>3, <2>4, <2>5, <2>6, SameProps
<1>7. Says(Tree(d, ts), d, ts)
  BY <1>1, TreeSays
<1>8. PropertiesApart(c, ts) /\ Wholes(c, ts) /\ Says(Tree(d, ts), c, ts)
  <2> DEFINE W == Tree(d, ts)
  <2>1. Says(W, d, ts)
    BY <1>7
  <2> HIDE DEF W
  <2>2. PropertiesApart(c, ts) /\ Wholes(c, ts) /\ Says(W, c, ts)
    BY <1>1, <1>6, <2>1, SameTree
  <2> QED BY <2>2 DEF W
<1>9. Tree(c, ts) = Tree(d, ts)
  <2>1. Says(Tree(c, ts), c, ts)
    BY <1>1, <1>8, TreeSays
  <2> QED BY <1>8, <2>1, SaysOnce
<1>10. Sound(c, ts)
  BY <1>1, <1>2, <1>5, <1>8 DEF Sound
<1> QED BY <1>1, <1>2, <1>3, <1>9, <1>10

\* fdt_open_into opens it.
LEMMA OpenDone ==
  ASSUME NEW d, WellFormed(d), NEW ts, ts = Tags(d), NEW r,
         r = fdt_open_into(d, ts, TRUE, d.totalsize + FdtSlack)
  PROVE  r.ret = Done /\ Opens(d, r.b)
<1> DEFINE z == StrcSize(d)
           rs == ReserveMapSize(d)
           t == d.totalsize
           u == t + FdtSlack
<1>1. ~fdt_blocks_misordered_(d, rs, z)
  BY WellNumbers
<1>2. ~(t > u)
  <2>1. t \in Nat /\ FdtSlack \in Nat
    BY WellNumbers DEF Blob, FdtSlack
  <2> HIDE DEF t
  <2> QED BY <2>1
<1>3. z = IF d.version >= 17 THEN d.size_dt_struct ELSE Last(ts).next
  BY DEF StrcSize
<1>4. r = Result(Done, [d EXCEPT !.version = 17, !.size_dt_struct = z,
                                 !.totalsize = u])
  <2> HIDE DEF z, rs, u
  <2> QED BY <1>1, <1>2, <1>3 DEF fdt_open_into, rs, u
<1> DEFINE e == [d EXCEPT !.version = 17, !.size_dt_struct = z,
                          !.totalsize = u]
<1>5. r = Result(Done, e)
  BY <1>4
<1> HIDE DEF e
<1>6. r.ret = Done /\ r.b = e
  <2>1. \A x : Result(Done, x).ret = Done /\ Result(Done, x).b = x
    BY DEF Result
  <2>2. Result(Done, e).ret = Done /\ Result(Done, e).b = e
    BY <2>1, Zenon
  <2> QED BY <1>5, <2>2, Zenon
<1> QED BY <1>6 DEF Opens, e

\* What stands before the structure block is the same in two trees.
FrontKept(b, c) ==
    /\ c.off_mem_rsvmap = b.off_mem_rsvmap /\ c.off_dt_struct = b.off_dt_struct
    /\ Kept(b, c, b.off_dt_struct)
\* The reservation map and its end lie there.
MapThere(b) ==
    /\ b \in Blob /\ HeaderSize <= b.off_mem_rsvmap
    /\ b.off_dt_struct <= b.totalsize /\ b.off_dt_struct <= End(b)
    /\ \E n \in Nat :
          /\ Byte(b, b.off_mem_rsvmap + n * ReserveSize + 8) = 0
          /\ b.off_mem_rsvmap + (n + 1) * ReserveSize <= b.off_dt_struct
EntryBytes(b, c, S, m) ==
    /\ m \in Nat /\ S \in Nat /\ HeaderSize <= m
    /\ b.off_mem_rsvmap = m /\ c.off_mem_rsvmap = m
    /\ S <= End(b) /\ S <= End(c) /\ End(b) \in Nat /\ End(c) \in Nat
    /\ Kept(b, c, S)
\* An entry before the structure block is the same in both.
LEMMA SameEntry ==
  ASSUME NEW b, NEW c, NEW S, NEW m, EntryBytes(b, c, S, m), NEW i \in Nat,
         m + (i + 1) * ReserveSize <= S
  PROVE  /\ EndsAt(b, i) <=> EndsAt(c, i)
         /\ Byte(c, m + i * ReserveSize) = Byte(b, m + i * ReserveSize)
         /\ Byte(c, m + i * ReserveSize + 8) = Byte(b, m + i * ReserveSize + 8)
<1> DEFINE e == End(b)
           f == End(c)
<1>1. /\ m \in Nat /\ S \in Nat /\ HeaderSize <= m /\ S <= e /\ S <= f
      /\ e \in Nat /\ f \in Nat /\ b.off_mem_rsvmap = m /\ c.off_mem_rsvmap = m
  BY DEF EntryBytes
<1> HIDE DEF e, f
<1>2. /\ m + i * ReserveSize \in HeaderSize .. S - 1
      /\ m + i * ReserveSize + 8 \in HeaderSize .. S - 1
      /\ m + (i + 1) * ReserveSize <= e /\ m + (i + 1) * ReserveSize <= f
  BY <1>1 DEF HeaderSize, ReserveSize
<1>3. /\ Byte(c, m + i * ReserveSize) = Byte(b, m + i * ReserveSize)
      /\ Byte(c, m + i * ReserveSize + 8) = Byte(b, m + i * ReserveSize + 8)
  BY <1>2 DEF EntryBytes, Kept
<1>4. EndsAt(b, i) <=> EndsAt(c, i)
  BY <1>1, <1>2, <1>3 DEF EndsAt, e, f
<1> QED BY <1>3, <1>4

\* So are their reservation maps.
LEMMA SameMap ==
  ASSUME NEW b, MapThere(b), NEW c \in Blob, FrontKept(b, c),
         c.off_dt_struct <= c.totalsize, c.off_dt_struct <= End(c)
  PROVE  ReserveMap(c) = ReserveMap(b)
<1> DEFINE S == b.off_dt_struct
           m == b.off_mem_rsvmap
           k == fdt_num_mem_rsv(b)
           l == fdt_num_mem_rsv(c)
<1>1. PICK n \in Nat : /\ Byte(b, m + n * ReserveSize + 8) = 0
                       /\ m + (n + 1) * ReserveSize <= S
  BY DEF MapThere
<1>2. /\ b \in Blob /\ S \in Nat /\ m \in Nat /\ HeaderSize <= m
      /\ End(b) \in Nat /\ End(c) \in Nat /\ S <= b.totalsize
      /\ S <= c.totalsize
      /\ S <= End(b) /\ S <= End(c) /\ b.totalsize \in Nat
      /\ c.totalsize \in Nat
      /\ c.off_mem_rsvmap = m
  BY EndOf DEF MapThere, Blob, FrontKept
<1>3. EntryBytes(b, c, S, m)
  BY <1>2 DEF EntryBytes, FrontKept
<1>4. /\ m + (n + 1) * ReserveSize <= b.totalsize
      /\ m + (n + 1) * ReserveSize <= c.totalsize
      /\ m + (n + 1) * ReserveSize <= End(b)
  <2> DEFINE x == m + (n + 1) * ReserveSize
             t == b.totalsize
             u == c.totalsize
             e == End(b)
  <2>1. x \in Int /\ x <= S /\ S <= t /\ S <= u /\ S <= e /\ S \in Nat
        /\ t \in Nat /\ u \in Nat /\ e \in Nat
    BY <1>1, <1>2 DEF ReserveSize
  <2> HIDE DEF x, S, t, u, e
  <2>2. x <= t /\ x <= u /\ x <= e
    BY <2>1
  <2> QED BY <2>2 DEF x, t, u, e
<1>5. EndsAt(b, n)
  BY <1>1, <1>4 DEF EndsAt
<1>6. EndsAt(c, n)
  BY <1>1, <1>3, <1>5, SameEntry
<1>7. /\ k \in 0 .. n /\ EndsAt(b, k) /\ \A i \in 0 .. k - 1 : ~EndsAt(b, i)
  BY <1>2, <1>4, <1>5, ReserveEnd
<1>8. /\ l \in 0 .. n /\ EndsAt(c, l) /\ \A i \in 0 .. l - 1 : ~EndsAt(c, i)
  <2>1. c.off_mem_rsvmap + (n + 1) * ReserveSize <= c.totalsize
    BY <1>2, <1>4
  <2> QED BY <1>6, <2>1, ReserveEnd
<1> HIDE DEF k, l
<1>9. ASSUME NEW i \in 0 .. n
      PROVE  i \in Nat /\ m + (i + 1) * ReserveSize <= S
  <2> HIDE DEF m, S
  <2> QED BY <1>1, <1>2 DEF ReserveSize
<1> HIDE DEF m, S
<1>10. ASSUME NEW i \in 0 .. n PROVE EndsAt(b, i) <=> EndsAt(c, i)
  BY <1>3, <1>9, SameEntry
<1>11. k = l
  <2>1. EndsAt(c, k) /\ EndsAt(b, l)
    BY <1>7, <1>8, <1>10
  <2>2. ~(k < l) /\ ~(l < k)
    <3>1. k < l => k \in 0 .. l - 1
      BY <1>7, <1>8
    <3>2. l < k => l \in 0 .. k - 1
      BY <1>7, <1>8
    <3> QED BY <1>7, <1>8, <2>1, <3>1, <3>2
  <2> QED BY <1>7, <1>8, <2>2
<1> DEFINE h(z, j) == LET entry == z.off_mem_rsvmap + (j - 1) * ReserveSize
                      IN  <<Byte(z, entry), Byte(z, entry + 8)>>
<1>12. ReserveMap(b) = [j \in 1 .. k |-> h(b, j)]
  BY DEF ReserveMap, k
<1>13. ReserveMap(c) = [j \in 1 .. l |-> h(c, j)]
  BY DEF ReserveMap, l
<1>14. ASSUME NEW j \in 1 .. k PROVE h(c, j) = h(b, j)
  <2> DEFINE i == j - 1
  <2>1. i \in 0 .. n
    BY <1>7
  <2>2. i \in Nat /\ m + (i + 1) * ReserveSize <= S
    BY <1>9, <2>1
  <2> HIDE DEF i
  <2>3. /\ Byte(c, m + i * ReserveSize) = Byte(b, m + i * ReserveSize)
        /\ Byte(c, m + i * ReserveSize + 8) = Byte(b, m + i * ReserveSize + 8)
    BY <1>3, <2>2, SameEntry
  <2> QED BY <1>2, <2>3 DEF i, m
<1> HIDE DEF h
<1>15. [j \in 1 .. k |-> h(b, j)] = [j \in 1 .. k |-> h(c, j)]
  BY <1>14
<1> QED BY <1>11, <1>12, <1>13, <1>15

\* Fronts that are kept twice are kept.
LEMMA KeptFront ==
  ASSUME NEW b, NEW c, NEW d, FrontKept(b, c), SameFront(c, d)
  PROVE  FrontKept(b, d)
BY DEF FrontKept, SameFront, Kept
------------------------------------------------------------------------------
\* A string's characters, up to its NUL.
UpTo(data) == SubSeq(data, 1, SelectInSeq(Append(data, NUL),
                                          LAMBDA c : c = NUL) - 1)
TreeString(W, path, name) ==
    IF name \in DOMAIN W[path] THEN UpTo(W[path][name]) ELSE <<>>

\* They are some of the first of its bytes.
LEMMA UpToIs ==
  ASSUME NEW data \in Seq(Cell)
  PROVE  UpTo(data) \in Seq(Cell) /\ Len(UpTo(data)) <= Len(data)
<1> DEFINE s == Append(data, NUL)
           n == Len(data)
           I == {i \in 1 .. Len(s) : s[i] = NUL}
           k == IF I # {} THEN Min(I) ELSE 0
<1>1. UpTo(data) = SubSeq(data, 1, k - 1)
  BY DEF UpTo, SelectInSeq
<1>2. n \in Nat /\ Len(s) = n + 1 /\ s[n + 1] = NUL
  OBVIOUS
<1> HIDE DEF s
<1>3. I # {} /\ I \subseteq Nat /\ \A i \in I : i \in 1 .. n + 1
  <2>1. n + 1 \in I
    BY <1>2
  <2> QED BY <1>2, <2>1
<1> HIDE DEF I
<1>4. Min(I) \in I
  BY <1>3, MinOf
<1>5. k \in 1 .. n + 1
  BY <1>3, <1>4
<1> HIDE DEF k
<1>6. k - 1 \in 0 .. n
  BY <1>2, <1>5
<1>7. SubSeq(data, 1, k - 1) \in Seq(Cell)
      /\ Len(SubSeq(data, 1, k - 1)) = k - 1
  <2> DEFINE j == k - 1
  <2>1. j \in 0 .. Len(data)
    BY <1>6
  <2> HIDE DEF j
  <2>2. SubSeq(data, 1, j) \in Seq(Cell) /\ Len(SubSeq(data, 1, j)) = j
    BY <2>1
  <2> QED BY <2>2 DEF j
<1> QED BY <1>1, <1>6, <1>7

\* fdt_get_property's string is the one the tree says.
LEMMA StringGet ==
  ASSUME NEW b, NEW ts, Standing(b), Apart(ToSet(ts)), NodesApart(ts),
         PropertiesApart(b, ts), Wholes(b, ts), NEW N \in Nodes(ts),
         NEW name, NameString(name)
  PROVE  StringProp(b, ts, N.off, name) = TreeString(Tree(b, ts), N.path, name)
<1> DEFINE o == N.off
           f == Tree(b, ts)[N.path]
<1>1. IsNode(ts, o)
  BY NodeIs
<1>2. CASE Lacks(b, ts, N, name) /\ name \notin DOMAIN f
  <2>1. fdt_get_property(b, ts, o, name) < 0
    BY <1>2 DEF Lacks
  <2>2. StringProp(b, ts, o, name) = <<>>
    BY <2>1 DEF StringProp
  <2> HIDE DEF f
  <2>3. TreeString(Tree(b, ts), N.path, name) = <<>>
    BY <1>2 DEF TreeString, f
  <2> QED BY <2>2, <2>3
<1>3. CASE \E q : /\ Finds(b, ts, N, name, q) /\ name \in DOMAIN f
                  /\ f[name] = PropData(b, q)
  <2>1. PICK q : /\ Finds(b, ts, N, name, q) /\ name \in DOMAIN f
                 /\ f[name] = PropData(b, q)
    BY <1>3
  <2>2. /\ fdt_get_property(b, ts, o, name) = q.off /\ TagAt(ts, q.off) = q
        /\ ~(q.off < 0)
    BY <2>1 DEF Finds
  <2>3. StringProp(b, ts, o, name) = UpTo(PropData(b, q))
    BY <1>1, <2>2 DEF StringProp, UpTo
  <2>4. TreeString(Tree(b, ts), N.path, name) = UpTo(PropData(b, q))
    BY <2>1 DEF TreeString
  <2> QED BY <2>3, <2>4
<1>4. \/ Lacks(b, ts, N, name) /\ name \notin DOMAIN f
      \/ \E q : /\ Finds(b, ts, N, name, q) /\ name \in DOMAIN f
                /\ f[name] = PropData(b, q)
  BY TreeGet
<1> QED BY <1>2, <1>3, <1>4

\* No node, no string.
LEMMA NoString ==
  ASSUME NEW b, NEW ts, NEW name, Apart(ToSet(ts))
  PROVE  StringProp(b, ts, -1, name) = <<>>
<1>1. ~IsNode(ts, -1)
  BY NodesAre DEF IsNode, Apart
<1> QED BY <1>1 DEF StringProp

------------------------------------------------------------------------------
\* Where /chosen is in the image's tree, and its properties there.
OldOffset(d)    == fdt_path_offset(Tags(d), <<ChosenName>>)
KeptProps(d, P) == IF OldOffset(d) < 0 THEN <<>> ELSE Tree(d, Tags(d))[P]
\* What the properties are set to.
OldArgs(d)    == StringProp(d, Tags(d), OldOffset(d), Bootargs)
Fitted(d, c)  == SnprintfArgs(OldArgs(d), c)
Value(d, c, x) ==
    IF x = Bootargs THEN Append(Fitted(d, c), NUL)
    ELSE IF x = InitrdStart THEN U32(RamdiskStart)
    ELSE U32(RamdiskEnd)
\* W is what the image's tree d means, with the properties X of node P set.
Related(W, d, c, P, X) ==
    /\ IsFunction(W) /\ DOMAIN W = DOMAIN Tree(d, Tags(d)) \cup {P}
    /\ \A p \in DOMAIN W : p # P => W[p] = Tree(d, Tags(d))[p]
    /\ IsFunction(W[P]) /\ DOMAIN W[P] = DOMAIN KeptProps(d, P) \cup X
    /\ \A x \in DOMAIN W[P] : W[P][x] = IF x \in X THEN Value(d, c, x)
                                       ELSE KeptProps(d, P)[x]
\* There is room for n bytes.
Spare(b, n) == fdt_data_size_(b) + n <= b.totalsize
\* The tree before anything has been set.
Opened(b, ts, d) ==
    /\ Sound(b, ts) /\ ts = Tags(d) /\ Tree(b, ts) = Tree(d, ts)
    /\ FrontKept(d, b) /\ Spare(b, FdtSlack)
\* The properties X of /chosen are set, and room for n bytes is left.
Edits(b, ts, ch, d, c, X, n) ==
    /\ Sound(b, ts) /\ FrontKept(d, b) /\ Spare(b, n)
    /\ \E N \in Nodes(ts) :
          /\ IsChosen(ToSet(ts), N) /\ ch = N.off
          /\ Related(Tree(b, ts), d, c, N.path, X)
          /\ X = {} =>
                TreeString(Tree(b, ts), N.path, Bootargs) = OldArgs(d)

\* What has been set before each call.
ArgsSet  == {Bootargs}
StartSet == {Bootargs, InitrdStart}
AllSet   == {Bootargs, InitrdStart, InitrdEnd}

\* The tree at each call, and the offset held.
Stage(here, b, ts, ch, d, c) ==
    /\ here = "open" => b = d /\ ch = -1
    /\ here \in {"find", "add"} => Opened(b, ts, d) /\ ch = -1
    /\ here = "add" => OldOffset(d) < 0
    /\ here = "bootargs" => Edits(b, ts, ch, d, c, {}, 1008)
    /\ here = "start" => Edits(b, ts, ch, d, c, ArgsSet, 471)
    /\ here = "end" => Edits(b, ts, ch, d, c, StartSet, 436)
    /\ here = "kernel" => Edits(b, ts, ch, d, c, AllSet, 403)

\* The inductive invariant.
IInv ==
    /\ dtb \in Dtbs /\ cmdline \in Cmdlines
    /\ failed = {}
    /\ tags = Tags(blob)
    /\ args \in Seq(Cell) /\ Len(args) <= 1023
    /\ pc \in {"open", "find", "add", "bootargs", "start", "end", "kernel"}
    /\ Stage(pc, blob, tags, chosen, dtb, cmdline)

\* The names are strings, and differ.
NamesOf ==
  /\ NameString(Bootargs) /\ NameString(InitrdStart) /\ NameString(InitrdEnd)
  /\ Len(Bootargs) = 8 /\ Len(InitrdStart) = 18 /\ Len(InitrdEnd) = 16
  /\ Bootargs # InitrdStart /\ Bootargs # InitrdEnd /\ InitrdStart # InitrdEnd

\* The names of the properties set are strings, and differ.
LEMMA NamesAre == NamesOf
<1>1. NameString(Bootargs) /\ Len(Bootargs) = 8
  BY DEF NameString, Bootargs, NUL
<1>2. NameString(InitrdStart) /\ Len(InitrdStart) = 18
  BY DEF NameString, InitrdStart, NUL
<1>3. NameString(InitrdEnd) /\ Len(InitrdEnd) = 16
  BY DEF NameString, InitrdEnd, NUL
<1>4. InitrdStart # InitrdEnd /\ Bootargs # InitrdStart /\ Bootargs # InitrdEnd
  BY <1>1, <1>2, <1>3
<1> QED
  BY <1>1, <1>2, <1>3, <1>4 DEF NamesOf

\* What dtc has written can be read where it is.
LEMMA DtbSound ==
  ASSUME NEW d, WellFormed(d), NEW ts, ts = Tags(d)
  PROVE  /\ Standing(d) /\ Shaped(ts) /\ NodesApart(ts)
         /\ PropertiesApart(d, ts) /\ Wholes(d, ts) /\ Apart(ToSet(ts))
<1> DEFINE c == [d EXCEPT !.version = 17, !.size_dt_struct = StrcSize(d),
                          !.totalsize = d.totalsize + FdtSlack]
<1>1. Opens(d, c)
  BY Zenon DEF Opens
<1> HIDE DEF c
<1>2. /\ Standing(d) /\ Shaped(ts) /\ NodesApart(ts)
      /\ PropertiesApart(d, ts) /\ Wholes(d, ts)
  BY <1>1, OpenSound, Zenon
<1> QED
  BY <1>2, Zenon DEF Shaped

\* A node found is one of the tree's paths, and its properties are a function.
LEMMA NodeSays ==
  ASSUME NEW b, NEW ts, NodesApart(ts), PropertiesApart(b, ts)
  PROVE  /\ IsFunction(Tree(b, ts))
         /\ \A N \in Nodes(ts) : /\ N.path \in DOMAIN Tree(b, ts)
                                 /\ IsFunction(Tree(b, ts)[N.path])
<1>1. Says(Tree(b, ts), b, ts)
  BY TreeSays, Zenon
<1> QED
  BY <1>1 DEF Says

\* The ramdisk's addresses are words.
LEMMA U32Is ==
  /\ U32(RamdiskStart) \in Seq(Cell) /\ Len(U32(RamdiskStart)) = 4
  /\ U32(RamdiskEnd) \in Seq(Cell) /\ Len(U32(RamdiskEnd)) = 4
  BY RamdiskAssumption DEF U32, NUL, Cell

\* The joined command lines fit the buffer with their NUL.
LEMMA FittedIs ==
  ASSUME NEW old \in Seq(Cell), NEW c \in Cmdlines, NEW s,
         s = SnprintfArgs(old, c)
  PROVE  /\ s \in Seq(Cell) /\ Append(s, NUL) \in Seq(Cell)
         /\ Len(s) \in Nat /\ Len(Append(s, NUL)) = Len(s) + 1
         /\ Len(s) <= 1023
         /\ Len(s) <= Len(old) + 512
<1> DEFINE all == old \o <<Blank>> \o c
           m == Min({Len(all), FinalCmdlineSize - 1})
<1>1. c \in Seq(Cell) /\ Len(c) < 512 /\ Len(c) \in Nat
  BY CmdlineAssumption DEF CmdlineField, Cell
<1>2. <<Blank>> \in Seq(Cell) /\ Len(<<Blank>>) = 1
  BY DEF Blank, Cell
<1>3. all \in Seq(Cell) /\ Len(all) = Len(old) + 1 + Len(c) /\ Len(old) \in Nat
  BY <1>1, <1>2
<1>4. s = SubSeq(all, 1, m)
  BY Zenon DEF SnprintfArgs
<1>5. m = IF Len(all) <= 1023 THEN Len(all) ELSE 1023
  BY <1>3, <1>1, MinOf2 DEF FinalCmdlineSize
<1> HIDE DEF all, m
<1>6. m \in Nat /\ m <= Len(all) /\ m <= 1023
  BY <1>1, <1>3, <1>5
<1>7. s \in Seq(Cell) /\ Len(s) = m
  BY <1>3, <1>4, <1>6
<1>8. NUL \in Cell
  BY DEF NUL, Cell
<1>9. Append(s, NUL) \in Seq(Cell) /\ Len(Append(s, NUL)) = Len(s) + 1
  BY <1>7, <1>8
<1> QED
  BY <1>1, <1>3, <1>6, <1>7, <1>9

\* Setting a property more, the tree is still what the image's says of it.
LEMMA RelatedWith ==
  ASSUME NEW W, NEW d, NEW c, NEW P, NEW X, Related(W, d, c, P, X),
         NEW x, NEW V, V = With(W, P, x, Value(d, c, x))
  PROVE  Related(V, d, c, P, X \cup {x})
<1> DEFINE S == DOMAIN Tree(d, Tags(d)) \cup {P}
           v == Value(d, c, x)
           G == [y \in DOMAIN W[P] \cup {x} |-> IF y = x THEN v ELSE W[P][y]]
           h(p) == IF p # P THEN W[p] ELSE G
<1>1. /\ DOMAIN W = S
      /\ \A p \in DOMAIN W : p # P => W[p] = Tree(d, Tags(d))[p]
      /\ DOMAIN W[P] = DOMAIN KeptProps(d, P) \cup X
      /\ \A y \in DOMAIN W[P] : W[P][y] = IF y \in X THEN Value(d, c, y)
                                          ELSE KeptProps(d, P)[y]
  BY Zenon DEF Related
<1>2. V = [p \in S |-> h(p)]
  <2>1. V = [p \in DOMAIN W |-> IF p # P THEN W[p]
                ELSE [y \in DOMAIN W[p] \cup {x} |->
                        IF y = x THEN v ELSE W[p][y]]]
    BY Zenon DEF With
  <2> QED BY <2>1, <1>1
<1>3. IsFunction(G) /\ DOMAIN G = DOMAIN W[P] \cup {x}
      /\ \A y \in DOMAIN W[P] \cup {x} : G[y] = IF y = x THEN v ELSE W[P][y]
  BY DEF IsFunction
<1>4. h(P) = G /\ \A p : p # P => h(p) = W[p]
  OBVIOUS
<1> HIDE DEF h, G
<1>5. IsFunction(V) /\ DOMAIN V = S /\ \A p \in S : V[p] = h(p)
  BY <1>2, Zenon DEF IsFunction
<1>6. V[P] = G /\ \A p \in S : p # P => V[p] = Tree(d, Tags(d))[p]
  BY <1>1, <1>4, <1>5
<1>7. DOMAIN G = DOMAIN KeptProps(d, P) \cup (X \cup {x})
  BY <1>1, <1>3
<1>8. \A y \in DOMAIN G : G[y] = IF y \in X \cup {x} THEN Value(d, c, y)
                                 ELSE KeptProps(d, P)[y]
  BY <1>1, <1>3
<1> QED
  BY <1>3, <1>5, <1>6, <1>7, <1>8 DEF Related

\* What is said of the tree is said of the tags Tags reads from it.
LEMMA SoundTags ==
  ASSUME NEW b, NEW ts, Sound(b, ts)
  PROVE  Tags(b) = ts
<1>1. Readable(b) /\ Walk(b, ts)
  BY LaidOutReadable, Zenon DEF Sound
<1> QED BY <1>1, TagsAre, Zenon

\* There is room for a property of the node at an offset.
RoomAt(b, ts, ch, name, val, g) ==
    \A N \in Nodes(ts) : ch = N.off => Fits(b, ts, N, name, val, g)

\* The call that sets a property of /chosen, for g bytes at most of n.
EditCall(b, ts, ch, d, c, X, n, name, val, g, r) ==
    /\ n \in Nat /\ g \in 0 .. n /\ Edits(b, ts, ch, d, c, X, n)
    /\ NameString(name) /\ val \in Seq(Cell) /\ val = Value(d, c, name)
    /\ RoomAt(b, ts, ch, name, val, g)
    /\ r = fdt_setprop(b, ts, ch, name, val)

\* It does, and leaves the others what they were.
LEMMA EditStep ==
  ASSUME NEW b, NEW ts, NEW ch, NEW d, NEW c, NEW X, NEW n, NEW name, NEW val,
         NEW g, NEW r, EditCall(b, ts, ch, d, c, X, n, name, val, g, r)
  PROVE  /\ r.ret = Done
         /\ Edits(r.b, Tags(r.b), ch, d, c, X \cup {name}, n - g)
<1>0. /\ n \in Nat /\ g \in 0 .. n /\ Edits(b, ts, ch, d, c, X, n)
      /\ NameString(name) /\ val \in Seq(Cell) /\ val = Value(d, c, name)
      /\ RoomAt(b, ts, ch, name, val, g)
      /\ r = fdt_setprop(b, ts, ch, name, val)
  BY Zenon DEF EditCall
<1>1. PICK N \in Nodes(ts) : /\ IsChosen(ToSet(ts), N) /\ ch = N.off
                             /\ Related(Tree(b, ts), d, c, N.path, X)
  BY <1>0, Zenon DEF Edits
<1>2. Sound(b, ts) /\ FrontKept(d, b) /\ Spare(b, n)
  BY <1>0, Zenon DEF Edits
<1>3. Fits(b, ts, N, name, val, g)
  BY <1>0, <1>1, Zenon DEF RoomAt
<1>4. SetsProp(b, ts, N, name, val, g, fdt_setprop(b, ts, N.off, name, val))
  BY <1>0, <1>2, <1>3, SetProp, Zenon
<1>5. SetsProp(b, ts, N, name, val, g, r)
  BY <1>0, <1>1, <1>4, Zenon
<1>6. /\ r.ret = Done /\ SetDone(b, ts, N, name, val, r.b)
      /\ SameFront(b, r.b)
      /\ fdt_data_size_(r.b) <= fdt_data_size_(b) + g
  BY <1>5, Zenon DEF SetsProp
<1>7. PICK us : /\ Sound(r.b, us)
                /\ Tree(r.b, us) = With(Tree(b, ts), N.path, name, val)
                /\ IsChosen(ToSet(ts), N) => IsChosen(ToSet(us), N)
  BY <1>6, Zenon DEF SetDone
<1>8. Tags(r.b) = us
  BY <1>7, SoundTags, Zenon
<1>9. FrontKept(d, r.b)
  BY <1>2, <1>6, KeptFront, Zenon
<1>10. Spare(r.b, n - g)
  <2>1. r.b.totalsize = b.totalsize /\ r.b.totalsize \in Nat
        /\ fdt_data_size_(r.b) \in Nat /\ fdt_data_size_(b) \in Nat
    <3>1. LaidOut(r.b) /\ LaidOut(b)
      BY <1>2, <1>7, Zenon DEF Sound
    <3> QED BY <3>1, <1>6, LaidNumbers DEF SameFront
  <2>2. fdt_data_size_(b) + n <= b.totalsize
    BY <1>2, Zenon DEF Spare
  <2> QED
    <3> DEFINE x == fdt_data_size_(r.b)
               y == fdt_data_size_(b)
               s == b.totalsize
               z == r.b.totalsize
    <3>1. x \in Nat /\ y \in Nat /\ z \in Nat /\ s = z /\ y + n <= s
          /\ x <= y + g /\ n \in Nat /\ g \in 0 .. n
      BY <1>0, <2>1, <2>2, <1>6
    <3> HIDE DEF x, y, s, z
    <3>2. x + (n - g) <= z
      BY <3>1
    <3> QED BY <3>2 DEF x, z, Spare
<1>11. IsChosen(ToSet(us), N) /\ N \in Nodes(us)
  <2>1. IsChosen(ToSet(us), N)
    BY <1>1, <1>7, Zenon
  <2> QED BY <2>1, NodesAre, Zenon DEF IsChosen, Called
<1>12. Related(Tree(r.b, us), d, c, N.path, X \cup {name})
  BY <1>0, <1>1, <1>7, RelatedWith, Zenon
<1>13. X \cup {name} # {}
  OBVIOUS
<1>14. Edits(r.b, us, ch, d, c, X \cup {name}, n - g)
  <2> DEFINE Y == X \cup {name}
             m == n - g
  <2>1. Y # {} /\ Related(Tree(r.b, us), d, c, N.path, Y) /\ Spare(r.b, m)
    BY <1>10, <1>12, <1>13
  <2> HIDE DEF Y, m
  <2>2. Edits(r.b, us, ch, d, c, Y, m)
    BY <1>1, <1>7, <1>9, <1>11, <2>1, Zenon DEF Edits
  <2> QED BY <2>2 DEF Y, m
<1> QED
  BY <1>6, <1>8, <1>14, Zenon

\* A property's value is as long as it says.
LEMMA DataIs ==
  ASSUME NEW b, NEW ts, Sound(b, ts), NEW q \in ToSet(ts), q.tag = FDT_PROP
  PROVE  PropData(b, q) \in Seq(Cell) /\ Len(PropData(b, q)) = PropLen(b, q)
<1> DEFINE l == PropLen(b, q)
           a == FDT_TAGALIGN(l)
           x == b.off_dt_struct + q.off + PropertySize
<1>1. /\ q.off \in Nat /\ l \in Nat /\ a \in Nat /\ l <= a
      /\ q.next = q.off + (12 + a) /\ q.next <= b.size_dt_struct
  BY PropSpan
<1>2. /\ b \in Blob /\ b.off_dt_struct \in Nat /\ b.size_dt_struct \in Nat
      /\ HeaderSize <= b.off_dt_struct /\ End(b) \in Nat
      /\ b.off_dt_struct + b.size_dt_struct <= End(b)
      /\ PropertySize = 12 /\ HeaderSize \in Nat
  <2>1. LaidOut(b)
    BY Zenon DEF Sound
  <2> QED BY <2>1, LaidNumbers DEF PropertySize, HeaderSize
<1> DEFINE S == b.off_dt_struct
           Z == b.size_dt_struct
           e == End(b)
           o == q.off
           n == q.next
<1>3. /\ S \in Nat /\ Z \in Nat /\ e \in Nat /\ S + Z <= e /\ HeaderSize <= S
      /\ o \in Nat /\ l \in Nat /\ a \in Nat /\ l <= a /\ n = o + (12 + a)
      /\ n <= Z /\ HeaderSize \in Nat /\ PropertySize = 12
  BY <1>1, <1>2
<1>4. x \in Int /\ HeaderSize <= x /\ x + l <= e
  <2> HIDE DEF l, a, e, Z, n, x
  <2>1. S + o + 12 \in Int /\ HeaderSize <= S + o + 12 /\ S + o + 12 + l <= e
    <3> HIDE DEF S, o
    <3> QED BY <1>3
  <2> QED BY <2>1, <1>3 DEF x
<1>5. PropData(b, q) = Bytes(b, x, l)
  BY DEF PropData
<1> HIDE DEF x, l
<1>6. Bytes(b, x, l) \in Seq(Cell) /\ Len(Bytes(b, x, l)) = l
  BY <1>1, <1>2, <1>4, BytesOf
<1> QED BY <1>5, <1>6 DEF l

\* The string of a property found, or not.
LEMMA StringFound ==
  ASSUME NEW b, NEW ts, Sound(b, ts), NEW N \in Nodes(ts), NEW name
  PROVE  /\ Lacks(b, ts, N, name) => StringProp(b, ts, N.off, name) = <<>>
         /\ \A q : Finds(b, ts, N, name, q) =>
              StringProp(b, ts, N.off, name) = UpTo(PropData(b, q))
<1>1. IsNode(ts, N.off)
  BY DEF IsNode
<1>2. ASSUME Lacks(b, ts, N, name)
      PROVE  StringProp(b, ts, N.off, name) = <<>>
  BY <1>2 DEF Lacks, StringProp
<1>3. ASSUME NEW q, Finds(b, ts, N, name, q)
      PROVE  StringProp(b, ts, N.off, name) = UpTo(PropData(b, q))
  <2> DEFINE o == N.off
  <2>1. IsNode(ts, o)
    BY <1>1
  <2>2. /\ fdt_get_property(b, ts, o, name) = q.off /\ TagAt(ts, q.off) = q
        /\ ~(q.off < 0)
    BY <1>3 DEF Finds
  <2> HIDE DEF o
  <2>3. StringProp(b, ts, o, name) = UpTo(PropData(b, q))
    BY <2>1, <2>2 DEF StringProp, UpTo
  <2> QED BY <2>3 DEF o
<1> QED BY <1>2, <1>3

\* There is room for the command lines, joined.
LEMMA ArgsFit ==
  ASSUME NEW b, NEW ts, Sound(b, ts), Spare(b, 1008), NEW N \in Nodes(ts),
         NEW old, old = StringProp(b, ts, N.off, Bootargs),
         NEW c \in Cmdlines, old \in Seq(Cell),
         NEW val, val = Append(SnprintfArgs(old, c), NUL)
  PROVE  Fits(b, ts, N, Bootargs, val, 537)
<1> DEFINE m == Len(val)
           s == SnprintfArgs(old, c)
<1>1. val \in Seq(Cell) /\ Len(val) <= Len(old) + 513 /\ Len(val) \in Nat
      /\ Len(old) \in Nat
  <2>1. /\ s \in Seq(Cell) /\ Append(s, NUL) \in Seq(Cell)
        /\ Len(s) \in Nat /\ Len(Append(s, NUL)) = Len(s) + 1
        /\ Len(s) <= 1023
        /\ Len(s) <= Len(old) + 512
    BY FittedIs
  <2> HIDE DEF s
  <2>2. val = Append(s, NUL)
    BY DEF s
  <2>3. Len(old) \in Nat
    OBVIOUS
  <2> QED BY <2>1, <2>2, <2>3
<1>2. fdt_data_size_(b) + 537 <= b.totalsize
  <2>1. fdt_data_size_(b) \in Nat /\ b.totalsize \in Nat
    <3>1. LaidOut(b)
      BY ZenonT(60) DEF Sound
    <3> QED BY <3>1, LaidNumbers
  <2>2. fdt_data_size_(b) + 1008 <= b.totalsize
    BY ZenonT(60) DEF Spare
  <2> HIDE DEF m, s
  <2> QED BY <2>1, <2>2
<1>3. ASSUME Lacks(b, ts, N, Bootargs)
      PROVE  Len(Bootargs) + 1 + PropSize(val) <= 537
  <2>1. old = <<>>
    BY <1>3, StringFound, ZenonT(60)
  <2>2. Len(old) = 0
    BY <2>1
  <2>3. PropSize(val) \in Nat /\ PropSize(val) <= Len(val) + 15
    BY <1>1, PropSizeIs, ZenonT(60)
  <2>4. Len(Bootargs) = 8
    BY NamesAre, ZenonT(60) DEF NamesOf
  <2> QED BY <1>1, <2>2, <2>3, <2>4
<1>4. ASSUME NEW q, Finds(b, ts, N, Bootargs, q)
      PROVE  FDT_TAGALIGN(Len(val)) <= FDT_TAGALIGN(PropLen(b, q)) + 537
  <2>1. q \in ToSet(ts) /\ q.tag = FDT_PROP
    BY <1>4 DEF Finds, Properties
  <2>2. PropData(b, q) \in Seq(Cell) /\ Len(PropData(b, q)) = PropLen(b, q)
    BY <2>1, DataIs, ZenonT(60)
  <2>3. old = UpTo(PropData(b, q))
    BY <1>4, StringFound, ZenonT(60)
  <2>4. Len(old) <= PropLen(b, q)
    BY <2>2, <2>3, UpToIs
  <2>5. PropLen(b, q) \in Nat /\ FDT_TAGALIGN(PropLen(b, q)) \in Nat
        /\ PropLen(b, q) <= FDT_TAGALIGN(PropLen(b, q))
    BY <2>1, PropSpan, ZenonT(60)
  <2>6. m \in Int
    BY <1>1
  <2>7. FDT_TAGALIGN(m) \in Int /\ FDT_TAGALIGN(m) <= m + 3
    BY <2>6, TagAlign, ZenonT(60)
  <2> DEFINE A == FDT_TAGALIGN(m)
             l == PropLen(b, q)
             B == FDT_TAGALIGN(l)
             k == Len(old)
  <2>8. A \in Int /\ A <= m + 3 /\ m <= k + 513 /\ k <= l /\ l <= B
        /\ m \in Nat
        /\ l \in Nat /\ B \in Nat /\ k \in Nat
    BY <1>1, <2>4, <2>5, <2>7
  <2> HIDE DEF A, B, k, l, m
  <2>9. A <= B + 537
    BY <2>8
  <2> QED BY <2>9 DEF A, B, l, m
<1>5. 537 \in Nat
  OBVIOUS
<1> QED BY <1>2, <1>3, <1>4, <1>5, ZenonT(60) DEF Fits

\* There is room for an address of the ramdisk.
LEMMA WordFits ==
  ASSUME NEW b, NEW ts, Sound(b, ts), NEW n \in Nat, Spare(b, n),
         NEW N \in Nodes(ts),
         NEW name, NEW val \in Seq(Cell), Len(val) = 4, Len(name) \in Nat,
         NEW g \in 0 .. n, Len(name) + 17 <= g
  PROVE  Fits(b, ts, N, name, val, g)
<1>1. FDT_TAGALIGN(4) = 4 /\ PropSize(val) = 16
  <2>1. 4 \in Int /\ 4 % 4 = 0
    OBVIOUS
  <2>2. FDT_TAGALIGN(4) = 4
    BY <2>1, TagAlign, Zenon
  <2> QED BY <2>2 DEF PropSize, PropertySize
<1>2. fdt_data_size_(b) + g <= b.totalsize
  <2>1. fdt_data_size_(b) \in Nat /\ b.totalsize \in Nat
    <3>1. LaidOut(b)
      BY Zenon DEF Sound
    <3> QED BY <3>1, LaidNumbers
  <2>2. fdt_data_size_(b) + n <= b.totalsize
    BY Zenon DEF Spare
  <2> QED BY <2>1, <2>2
<1>3. ASSUME NEW q, Finds(b, ts, N, name, q)
      PROVE  FDT_TAGALIGN(Len(val)) <= FDT_TAGALIGN(PropLen(b, q)) + g
  <2>1. q \in ToSet(ts) /\ q.tag = FDT_PROP
    BY <1>3 DEF Finds, Properties
  <2>2. FDT_TAGALIGN(PropLen(b, q)) \in Nat
    BY <2>1, PropSpan, Zenon
  <2>3. FDT_TAGALIGN(Len(val)) = 4
    BY <1>1
  <2> HIDE DEF FDT_TAGALIGN
  <2> QED BY <2>2, <2>3
<1>4. Len(name) + 1 + PropSize(val) <= g
  BY <1>1
<1>5. g \in Nat
  OBVIOUS
<1> QED BY <1>2, <1>3, <1>4, <1>5, Zenon DEF Fits

\* A string property is a string.
LEMMA StringTyped ==
  ASSUME NEW b, NEW ts, Sound(b, ts), NEW N \in Nodes(ts), NEW name,
         NameString(name)
  PROVE  StringProp(b, ts, N.off, name) \in Seq(Cell)
<1>1. Lacks(b, ts, N, name) \/ \E q : Finds(b, ts, N, name, q)
  BY SoundGet, GetProperty, Zenon
<1>2. CASE Lacks(b, ts, N, name)
  <2>1. StringProp(b, ts, N.off, name) = <<>>
    BY <1>2, StringFound, Zenon
  <2> QED BY <2>1
<1>3. CASE \E q : Finds(b, ts, N, name, q)
  <2>1. PICK q : Finds(b, ts, N, name, q)
    BY <1>3
  <2>2. StringProp(b, ts, N.off, name) = UpTo(PropData(b, q))
    BY <2>1, StringFound, Zenon
  <2>3. q \in ToSet(ts) /\ q.tag = FDT_PROP
    BY <2>1 DEF Finds, Properties
  <2>4. PropData(b, q) \in Seq(Cell)
    BY <2>3, DataIs, Zenon
  <2>5. UpTo(PropData(b, q)) \in Seq(Cell)
    BY <2>4, UpToIs, Zenon
  <2> QED BY <2>2, <2>5
<1> QED BY <1>1, <1>2, <1>3

\* The tree is opened.
LEMMA OpenStep ==
  ASSUME NEW d \in Dtbs, NEW r,
         r = fdt_open_into(d, Tags(d), TRUE, d.totalsize + FdtSlack)
  PROVE  r.ret = Done /\ Opened(r.b, Tags(r.b), d)
<1> DEFINE ts == Tags(d)
           b == r.b
<1>1. WellFormed(d)
  BY DtbAssumption
<1>2. r.ret = Done /\ Opens(d, b)
  BY <1>1, OpenDone, Zenon
<1>3. /\ Sound(b, ts) /\ Tree(b, ts) = Tree(d, ts)
      /\ fdt_data_size_(b) + FdtSlack <= b.totalsize
      /\ b.off_mem_rsvmap = d.off_mem_rsvmap /\ b.mem = d.mem
      /\ b.off_dt_struct = d.off_dt_struct
  BY <1>1, <1>2, OpenSound, ZenonT(60)
<1> HIDE DEF b
<1>4. FrontKept(d, b)
  BY <1>3 DEF FrontKept, Kept, Byte
<1>5. Tags(b) = ts
  BY <1>3, SoundTags, Zenon
<1>6. Spare(b, FdtSlack)
  BY <1>3, Zenon DEF Spare
<1> QED BY <1>2, <1>3, <1>4, <1>5, <1>6, Zenon DEF Opened, b

\* Opened, it has room for what follows.
LEMMA OpenedSpare ==
  ASSUME NEW b, NEW ts, NEW d, Opened(b, ts, d)
  PROVE  /\ fdt_data_size_(b) \in Nat /\ b.totalsize \in Nat
         /\ fdt_data_size_(b) + 1024 <= b.totalsize
         /\ Spare(b, 1008)
<1>1. Sound(b, ts) /\ Spare(b, FdtSlack)
  BY Zenon DEF Opened
<1>2. fdt_data_size_(b) \in Nat /\ b.totalsize \in Nat
  <2>1. LaidOut(b)
    BY <1>1, Zenon DEF Sound
  <2> QED BY <2>1, LaidNumbers
<1>3. fdt_data_size_(b) + 1024 <= b.totalsize
  BY <1>1 DEF Spare, FdtSlack
<1>4. fdt_data_size_(b) + 1008 <= b.totalsize
  BY <1>2, <1>3
<1> QED BY <1>2, <1>3, <1>4 DEF Spare

\* /chosen is found, or is not there.
LEMMA FindStep ==
  ASSUME NEW d \in Dtbs, NEW b, NEW ts, Opened(b, ts, d), NEW c,
         NEW o, o = fdt_path_offset(ts, <<ChosenName>>)
  PROVE  /\ o < 0 => OldOffset(d) < 0
         /\ ~(o < 0) => Edits(b, ts, o, d, c, {}, 1008)
<1>1. WellFormed(d)
  BY DtbAssumption
<1>2. /\ Sound(b, ts) /\ ts = Tags(d) /\ Tree(b, ts) = Tree(d, ts)
      /\ FrontKept(d, b)
  BY Zenon DEF Opened
<1>3. /\ Standing(d) /\ Shaped(ts) /\ NodesApart(ts)
      /\ PropertiesApart(d, ts) /\ Wholes(d, ts) /\ Apart(ToSet(ts))
  BY <1>1, <1>2, DtbSound, Zenon
<1>4. OldOffset(d) = o
  BY <1>2, Zenon DEF OldOffset
<1>5. ASSUME ~(o < 0)
      PROVE  Edits(b, ts, o, d, c, {}, 1008)
  <2>1. o # -1
    BY <1>5
  <2>2. PICK N \in ToSet(ts) : IsChosen(ToSet(ts), N) /\ o = N.off
    BY <1>3, <2>1, PathOffset, Zenon
  <2>3. N \in Nodes(ts)
    BY <2>2, NodesAre, Zenon DEF IsChosen, Called
  <2> DEFINE W == Tree(d, ts)
             P == N.path
  <2>4. IsFunction(W) /\ P \in DOMAIN W /\ IsFunction(W[P])
    BY <1>3, <2>3, NodeSays, Zenon
  <2>5. Related(Tree(b, ts), d, c, P, {})
    <3>1. KeptProps(d, P) = W[P]
      BY <1>2, <1>4, <1>5, Zenon DEF KeptProps
    <3>2. Tree(b, ts) = W /\ Tree(d, Tags(d)) = W
      BY <1>2, Zenon
    <3> HIDE DEF W, P
    <3>3. DOMAIN W = DOMAIN W \cup {P} /\ DOMAIN W[P] = DOMAIN W[P] \cup {}
          /\ \A x : x \notin {}
      BY <2>4
    <3>4. Related(W, d, c, P, {})
      BY <2>4, <3>1, <3>2, <3>3, Zenon DEF Related
    <3> QED BY <3>2, <3>4, Zenon
  <2>6. TreeString(Tree(b, ts), P, Bootargs) = OldArgs(d)
    <3>1. StringProp(d, ts, N.off, Bootargs) = TreeString(W, P, Bootargs)
      <4>1. NameString(Bootargs)
        BY NamesAre, Zenon DEF NamesOf
      <4> QED BY <1>3, <2>3, <4>1, StringGet, Zenon
    <3>2. OldArgs(d) = StringProp(d, ts, N.off, Bootargs)
      BY <1>2, <1>4, <2>2, Zenon DEF OldArgs
    <3> QED BY <1>2, <3>1, <3>2, Zenon
  <2>7. Spare(b, 1008)
    BY OpenedSpare, ZenonT(60)
  <2> QED BY <1>2, <2>2, <2>3, <2>5, <2>6, <2>7, ZenonT(60) DEF Edits
<1> QED BY <1>4, <1>5

\* /chosen is made.
LEMMA AddStep ==
  ASSUME NEW d \in Dtbs, NEW b, NEW ts, Opened(b, ts, d), OldOffset(d) < 0,
         NEW c, NEW r, r = fdt_add_subnode(b, ts, 0, ChosenName)
  PROVE  /\ r.ret = Done
         /\ Edits(r.b, Tags(r.b), NewNode(ts, 0), d, c, {}, 1008)
<1>1. WellFormed(d)
  BY DtbAssumption
<1>2. /\ Sound(b, ts) /\ ts = Tags(d) /\ Tree(b, ts) = Tree(d, ts)
      /\ FrontKept(d, b)
  BY Zenon DEF Opened
<1>3. Shaped(ts) /\ Apart(ToSet(ts))
  BY <1>1, <1>2, DtbSound, Zenon
<1> DEFINE o == fdt_path_offset(ts, <<ChosenName>>)
<1>4. OldOffset(d) = o /\ o < 0
  BY <1>2 DEF OldOffset
<1>5. o = -1 /\ \A t \in ToSet(ts) : ~Called(ToSet(ts), t)
  <2>1. \A n \in ToSet(ts) : n.off \in Nat
    BY <1>3 DEF Apart
  <2> HIDE DEF o
  <2>2. ASSUME NEW n \in ToSet(ts), o = n.off
        PROVE  FALSE
    BY <1>4, <2>1, <2>2
  <2>3. \/ o = -1 /\ \A t \in ToSet(ts) : ~Called(ToSet(ts), t)
        \/ \E n \in ToSet(ts) : IsChosen(ToSet(ts), n) /\ o = n.off
    BY <1>3, PathOffset, Zenon DEF o
  <2> QED BY <2>2, <2>3, Zenon
<1>6. fdt_data_size_(b) + 16 <= b.totalsize
  BY OpenedSpare
<1>7. AddsChosen(b, ts, r)
  BY <1>2, <1>5, <1>6, AddChosen, Zenon
<1>8. r.ret = Done /\ SameFront(b, r.b)
      /\ fdt_data_size_(r.b) = fdt_data_size_(b) + 16
  BY <1>7, Zenon DEF AddsChosen
<1>9. PICK us, B : /\ Sound(r.b, us) /\ IsChosen(ToSet(us), B)
                   /\ B.off = NewNode(ts, 0)
                   /\ Added(Tree(r.b, us), Tree(b, ts), B.path)
  BY <1>7, Zenon DEF AddsChosen
<1>10. Tags(r.b) = us
  BY <1>9, SoundTags, Zenon
<1>11. FrontKept(d, r.b)
  BY <1>2, <1>8, KeptFront, Zenon
<1>12. Spare(r.b, 1008)
  <2>1. r.b.totalsize = b.totalsize
    BY <1>8 DEF SameFront
  <2>2. /\ fdt_data_size_(b) \in Nat /\ b.totalsize \in Nat
        /\ fdt_data_size_(b) + 1024 <= b.totalsize
    BY OpenedSpare
  <2>3. fdt_data_size_(r.b) + 1008 <= r.b.totalsize
    BY <2>1, <2>2, <1>8
  <2> QED BY <2>3 DEF Spare
<1>13. B \in Nodes(us)
  BY <1>9, NodesAre, Zenon DEF IsChosen, Called
<1> DEFINE W == Tree(r.b, us)
           V == Tree(d, Tags(d))
           P == B.path
<1>14. /\ IsFunction(W) /\ DOMAIN W = DOMAIN V \cup {P}
       /\ \A p \in DOMAIN V : W[p] = V[p]
       /\ IsFunction(W[P]) /\ DOMAIN W[P] = {}
  BY <1>2, <1>9, Zenon DEF Added
<1>15. KeptProps(d, P) = <<>>
  BY Zenon DEF KeptProps
<1>16. Related(W, d, c, P, {})
  <2> HIDE DEF W, P
  <2>1. DOMAIN <<>> = {}
    OBVIOUS
  <2>2. \A p \in DOMAIN W : p # P => W[p] = V[p]
    BY <1>14
  <2>3. DOMAIN W[P] = DOMAIN KeptProps(d, P) \cup {}
    BY <1>14, <1>15, <2>1
  <2>4. \A x \in DOMAIN W[P] : W[P][x] = IF x \in {} THEN Value(d, c, x)
                                        ELSE KeptProps(d, P)[x]
    BY <1>14
  <2> QED BY <1>14, <2>2, <2>3, <2>4, Zenon DEF Related
<1>17. TreeString(W, P, Bootargs) = OldArgs(d)
  <2>1. OldArgs(d) = <<>>
    <3>1. OldArgs(d) = StringProp(d, ts, -1, Bootargs)
      BY <1>2, <1>4, <1>5, Zenon DEF OldArgs
    <3> QED BY <1>3, <3>1, NoString, Zenon
  <2>2. Bootargs \notin DOMAIN W[P]
    BY <1>14
  <2> QED BY <2>1, <2>2, Zenon DEF TreeString
<1> QED
  BY <1>8, <1>9, <1>10, <1>11, <1>12, <1>13, <1>16, <1>17, ZenonT(60) DEF Edits

\* The call that joins the command lines and sets them.
ArgsCall(b, ts, ch, d, c, a, r) ==
    /\ c \in Cmdlines /\ Edits(b, ts, ch, d, c, {}, 1008)
    /\ a = SnprintfArgs(StringProp(b, ts, ch, Bootargs), c)
    /\ r = fdt_setprop(b, ts, ch, Bootargs, Append(a, NUL))

\* It has room.
LEMMA ArgsStep ==
  ASSUME NEW b, NEW ts, NEW ch, NEW d, NEW c, NEW a, NEW r,
         ArgsCall(b, ts, ch, d, c, a, r)
  PROVE  /\ r.ret = Done /\ a \in Seq(Cell) /\ Len(a) <= 1023
         /\ Edits(r.b, Tags(r.b), ch, d, c, ArgsSet, 471)
<1>0. /\ c \in Cmdlines /\ Edits(b, ts, ch, d, c, {}, 1008)
      /\ a = SnprintfArgs(StringProp(b, ts, ch, Bootargs), c)
      /\ r = fdt_setprop(b, ts, ch, Bootargs, Append(a, NUL))
  BY ZenonT(60) DEF ArgsCall
<1> DEFINE old == StringProp(b, ts, ch, Bootargs)
           val == Append(a, NUL)
<1>1. PICK N \in Nodes(ts) :
         /\ ch = N.off /\ Related(Tree(b, ts), d, c, N.path, {})
         /\ TreeString(Tree(b, ts), N.path, Bootargs) = OldArgs(d)
  BY <1>0, ZenonT(60) DEF Edits
<1>2. Sound(b, ts) /\ Spare(b, 1008)
  BY <1>0, ZenonT(60) DEF Edits
<1>3. NameString(Bootargs)
  BY NamesAre, Zenon DEF NamesOf
<1>4. old = OldArgs(d) /\ old \in Seq(Cell)
  <2>1. /\ Standing(b) /\ Apart(ToSet(ts)) /\ NodesApart(ts)
        /\ PropertiesApart(b, ts) /\ Wholes(b, ts)
    BY <1>2, SoundGet, ZenonT(60)
  <2>2. StringProp(b, ts, N.off, Bootargs)
          = TreeString(Tree(b, ts), N.path, Bootargs)
    BY <1>3, <2>1, StringGet, Zenon
  <2>3. StringProp(b, ts, N.off, Bootargs) \in Seq(Cell)
    BY <1>2, <1>3, StringTyped, ZenonT(60)
  <2> QED BY <1>1, <2>2, <2>3, Zenon
<1>5. /\ a \in Seq(Cell) /\ val \in Seq(Cell) /\ Len(a) <= 1023
  BY <1>0, <1>4, FittedIs
<1>6. val = Value(d, c, Bootargs)
  BY <1>0, <1>4, ZenonT(60) DEF Value, Fitted
<1>7. ASSUME NEW M \in Nodes(ts), ch = M.off
      PROVE  Fits(b, ts, M, Bootargs, val, 537)
  <2>1. old = StringProp(b, ts, M.off, Bootargs)
    BY <1>7, Zenon
  <2>2. val = Append(SnprintfArgs(old, c), NUL)
    BY <1>0, ZenonT(60)
  <2> HIDE DEF old, val
  <2> QED BY <1>0, <1>2, <1>4, <1>7, <2>1, <2>2, ArgsFit, ZenonT(60)
<1>8. 537 \in 0 .. 1008 /\ 1008 \in Nat /\ 1008 - 537 = 471
  OBVIOUS
<1> HIDE DEF val
<1> DEFINE g == 537
           n == 1008
<1>9. g \in 0 .. n /\ n \in Nat /\ n - g = 471
      /\ RoomAt(b, ts, ch, Bootargs, val, g)
      /\ Edits(b, ts, ch, d, c, {}, n)
  <2>1. RoomAt(b, ts, ch, Bootargs, val, 537)
    BY <1>7 DEF RoomAt
  <2> QED BY <1>0, <1>8, <2>1
<1>10. r = fdt_setprop(b, ts, ch, Bootargs, val)
  BY <1>0 DEF val
<1> HIDE DEF g, n
<1>11. r.ret = Done
       /\ Edits(r.b, Tags(r.b), ch, d, c, {} \cup {Bootargs}, n - g)
  <2>1. EditCall(b, ts, ch, d, c, {}, n, Bootargs, val, g, r)
    BY <1>3, <1>5, <1>6, <1>9, <1>10, ZenonT(60) DEF EditCall
  <2> QED BY <2>1, EditStep, Zenon
<1>12. {} \cup {Bootargs} = ArgsSet
  BY DEF ArgsSet
<1>13. Edits(r.b, Tags(r.b), ch, d, c, ArgsSet, 471)
  BY <1>9, <1>11, <1>12
<1> QED BY <1>5, <1>11, <1>13

\* The call that sets an address of the ramdisk.
AddressCall(b, ts, ch, d, c, X, n, name, val, g, r) ==
    /\ n \in Nat /\ g \in 0 .. n /\ Edits(b, ts, ch, d, c, X, n)
    /\ NameString(name) /\ val \in Seq(Cell) /\ val = Value(d, c, name)
    /\ Len(name) \in Nat /\ Len(val) = 4 /\ Len(name) + 17 <= g
    /\ r = fdt_setprop(b, ts, ch, name, val)

\* It has room.
LEMMA AddressStep ==
  ASSUME NEW b, NEW ts, NEW ch, NEW d, NEW c, NEW X, NEW n, NEW name, NEW val,
         NEW g, NEW r, AddressCall(b, ts, ch, d, c, X, n, name, val, g, r)
  PROVE  /\ r.ret = Done
         /\ Edits(r.b, Tags(r.b), ch, d, c, X \cup {name}, n - g)
<1>0. /\ n \in Nat /\ g \in 0 .. n /\ Edits(b, ts, ch, d, c, X, n)
      /\ NameString(name) /\ val \in Seq(Cell) /\ val = Value(d, c, name)
      /\ Len(name) \in Nat /\ Len(val) = 4 /\ Len(name) + 17 <= g
      /\ r = fdt_setprop(b, ts, ch, name, val)
  BY Zenon DEF AddressCall
<1>1. Sound(b, ts) /\ Spare(b, n)
  BY <1>0, Zenon DEF Edits
<1>2. ASSUME NEW M \in Nodes(ts)
      PROVE  Fits(b, ts, M, name, val, g)
  BY <1>0, <1>1, WordFits
<1>3. RoomAt(b, ts, ch, name, val, g)
  BY <1>2, Zenon DEF RoomAt
<1>4. EditCall(b, ts, ch, d, c, X, n, name, val, g, r)
  BY <1>0, <1>3, Zenon DEF EditCall
<1> QED BY <1>4, EditStep, Zenon

\* The ramdisk's start is set.
LEMMA StartStep ==
  ASSUME NEW b, NEW ts, NEW ch, NEW d, NEW c,
         Edits(b, ts, ch, d, c, ArgsSet, 471),
         NEW r, r = fdt_setprop(b, ts, ch, InitrdStart, U32(RamdiskStart))
  PROVE  /\ r.ret = Done
         /\ Edits(r.b, Tags(r.b), ch, d, c, StartSet, 436)
<1> DEFINE val == U32(RamdiskStart)
           g == 35
           n == 471
<1>1. val \in Seq(Cell) /\ Len(val) = 4
  BY U32Is, Zenon
<1>2. val = Value(d, c, InitrdStart)
  BY NamesAre, Zenon DEF Value, NamesOf
<1>3. g \in 0 .. n /\ n \in Nat /\ n - g = 436 /\ 18 + 17 <= g
  OBVIOUS
<1>4. NameString(InitrdStart) /\ Len(InitrdStart) = 18
  BY NamesAre, Zenon DEF NamesOf
<1>5. Edits(b, ts, ch, d, c, ArgsSet, n)
  OBVIOUS
<1> HIDE DEF g, n, val
<1>6. Len(InitrdStart) \in Nat /\ Len(InitrdStart) + 17 <= g
  BY <1>3, <1>4
<1>7. r = fdt_setprop(b, ts, ch, InitrdStart, val)
  BY DEF val
<1>8. r.ret = Done
      /\ Edits(r.b, Tags(r.b), ch, d, c, ArgsSet \cup {InitrdStart}, n - g)
  <2>1. AddressCall(b, ts, ch, d, c, ArgsSet, n, InitrdStart, val, g, r)
    BY <1>1, <1>2, <1>3, <1>4, <1>5, <1>6, <1>7, Zenon DEF AddressCall
  <2> QED BY <2>1, AddressStep, Zenon
<1>9. ArgsSet \cup {InitrdStart} = StartSet
  BY DEF ArgsSet, StartSet
<1>10. Edits(r.b, Tags(r.b), ch, d, c, StartSet, 436)
  BY <1>3, <1>8, <1>9, Zenon
<1> QED BY <1>8, <1>10, Zenon

\* So is its end.
LEMMA EndStep ==
  ASSUME NEW b, NEW ts, NEW ch, NEW d, NEW c,
         Edits(b, ts, ch, d, c, StartSet, 436),
         NEW r, r = fdt_setprop(b, ts, ch, InitrdEnd, U32(RamdiskEnd))
  PROVE  /\ r.ret = Done
         /\ Edits(r.b, Tags(r.b), ch, d, c,
                  AllSet, 403)
<1> DEFINE val == U32(RamdiskEnd)
           X == StartSet
           g == 33
           n == 436
<1>1. val \in Seq(Cell) /\ Len(val) = 4
  BY U32Is, Zenon
<1>2. val = Value(d, c, InitrdEnd)
  BY NamesAre, Zenon DEF Value, NamesOf
<1>3. g \in 0 .. n /\ n \in Nat /\ n - g = 403 /\ 16 + 17 <= g
  OBVIOUS
<1>4. NameString(InitrdEnd) /\ Len(InitrdEnd) = 16
  BY NamesAre, Zenon DEF NamesOf
<1>5. Edits(b, ts, ch, d, c, X, n)
  OBVIOUS
<1>6. X \cup {InitrdEnd} = AllSet
  BY DEF StartSet, AllSet
<1> HIDE DEF g, n, val, X
<1>7. Len(InitrdEnd) \in Nat /\ Len(InitrdEnd) + 17 <= g
  BY <1>3, <1>4
<1>8. r = fdt_setprop(b, ts, ch, InitrdEnd, val)
  BY DEF val
<1>9. r.ret = Done
      /\ Edits(r.b, Tags(r.b), ch, d, c, X \cup {InitrdEnd}, n - g)
  <2>1. AddressCall(b, ts, ch, d, c, X, n, InitrdEnd, val, g, r)
    BY <1>1, <1>2, <1>3, <1>4, <1>5, <1>7, <1>8, Zenon DEF AddressCall
  <2> QED BY <2>1, AddressStep, Zenon
<1>10. Edits(r.b, Tags(r.b), ch, d, c,
             AllSet, 403)
  BY <1>3, <1>6, <1>9, Zenon
<1> QED BY <1>9, <1>10, Zenon

\* A call that succeeds takes the state on, and nothing is noted as failed.
LEMMA StepDone ==
  ASSUME NEW here, NEW next, NEW r, Step(here, next, r), r.ret = Done, IInv
  PROVE  /\ pc = here /\ pc' = next /\ blob' = r.b /\ tags' = Tags(r.b)
         /\ failed' = {} /\ dtb' = dtb /\ cmdline' = cmdline
         /\ Stage(here, blob, tags, chosen, dtb, cmdline)
<1>1. pc = here /\ pc' = next /\ blob' = r.b /\ tags' = Tags(blob')
      /\ dtb' = dtb /\ cmdline' = cmdline
      /\ failed' = failed \cup {p \in {here} : r.ret # Done}
  BY Zenon DEF Step
<1>2. failed = {} /\ Stage(pc, blob, tags, chosen, dtb, cmdline)
  BY ZenonT(60) DEF IInv
<1>3. {p \in {here} : r.ret # Done} = {}
  OBVIOUS
<1>4. failed' = {}
  BY <1>1, <1>2, <1>3
<1> QED BY <1>1, <1>2, <1>4, Zenon

\* The invariant behind a step.
LEMMA StageKept ==
  ASSUME IInv, failed' = {}, tags' = Tags(blob'), dtb' = dtb,
         cmdline' = cmdline, args' \in Seq(Cell), Len(args') <= 1023,
         pc' \in {"find", "add", "bootargs", "start", "end", "kernel"},
         Stage(pc', blob', tags', chosen', dtb, cmdline)
  PROVE  IInv'
<1>1. dtb \in Dtbs /\ cmdline \in Cmdlines
  BY ZenonT(60) DEF IInv
<1>2. pc' \in {"open", "find", "add", "bootargs", "start", "end", "kernel"}
  OBVIOUS
<1>3. Stage(pc', blob', tags', chosen', dtb', cmdline')
  BY ZenonT(60)
<1> QED BY <1>1, <1>2, <1>3, ZenonT(60) DEF IInv

\* Each call keeps the invariant: fdt_open_into,
LEMMA OpenKeeps == ASSUME IInv, Open PROVE IInv'
<1> DEFINE r == fdt_open_into(blob, tags, TRUE, blob.totalsize + FdtSlack)
<1>1. Step("open", "find", r) /\ chosen' = chosen /\ args' = args
  BY Zenon DEF Open
<1>2. /\ dtb \in Dtbs /\ tags = Tags(blob) /\ args \in Seq(Cell)
      /\ Len(args) <= 1023 /\ Stage(pc, blob, tags, chosen, dtb, cmdline)
  BY ZenonT(60) DEF IInv
<1>3. pc = "open"
  BY <1>1, Zenon DEF Step
<1>4. blob = dtb /\ chosen = -1
  BY <1>2, <1>3, ZenonT(60) DEF Stage
<1>5. r = fdt_open_into(dtb, Tags(dtb), TRUE, dtb.totalsize + FdtSlack)
  BY <1>2, <1>4
<1> HIDE DEF r
<1>6. r.ret = Done /\ Opened(r.b, Tags(r.b), dtb)
  BY <1>2, <1>5, OpenStep, Zenon
<1>7. /\ pc' = "find" /\ blob' = r.b /\ tags' = Tags(r.b)
      /\ failed' = {} /\ dtb' = dtb /\ cmdline' = cmdline
  BY <1>1, <1>6, StepDone, Zenon
<1>8. Opened(blob', tags', dtb) /\ chosen' = -1
  BY <1>1, <1>4, <1>6, <1>7, Zenon
<1>9. Stage(pc', blob', tags', chosen', dtb, cmdline)
  BY <1>7, <1>8 DEF Stage
<1>10. args' \in Seq(Cell) /\ Len(args') <= 1023
  BY <1>1, <1>2, ZenonT(60)
<1> QED BY <1>7, <1>9, <1>10, StageKept, ZenonT(60)

\* fdt_path_offset,
LEMMA FindKeeps == ASSUME IInv, Find PROVE IInv'
<1> DEFINE r == Result(Done, blob)
           o == fdt_path_offset(tags, <<ChosenName>>)
           next == IF chosen' < 0 THEN "add" ELSE "bootargs"
<1>1. Step("find", next, r) /\ chosen' = o /\ args' = args
  BY Zenon DEF Find
<1>2. /\ dtb \in Dtbs /\ tags = Tags(blob) /\ args \in Seq(Cell)
      /\ Len(args) <= 1023 /\ Stage(pc, blob, tags, chosen, dtb, cmdline)
  BY Zenon DEF IInv
<1>3. pc = "find"
  BY <1>1, Zenon DEF Step
<1>4. Opened(blob, tags, dtb) /\ chosen = -1
  BY <1>2, <1>3 DEF Stage
<1>5. r.ret = Done /\ r.b = blob
  BY DEF Result
<1> DEFINE n == next
<1> HIDE DEF r, n
<1>6. /\ pc' = n /\ blob' = r.b /\ tags' = Tags(r.b)
      /\ failed' = {} /\ dtb' = dtb /\ cmdline' = cmdline
  <2>1. Step("find", n, r)
    BY <1>1 DEF n
  <2> QED BY <1>5, <2>1, StepDone, Zenon
<1>7. blob' = blob /\ tags' = tags /\ tags' = Tags(blob')
  BY <1>2, <1>5, <1>6, ZenonT(60)
<1>8. /\ o < 0 => OldOffset(dtb) < 0
      /\ ~(o < 0) => Edits(blob, tags, o, dtb, cmdline, {}, 1008)
  <2> DEFINE z == o
  <2>1. z = fdt_path_offset(tags, <<ChosenName>>)
    OBVIOUS
  <2> HIDE DEF z
  <2>2. /\ z < 0 => OldOffset(dtb) < 0
        /\ ~(z < 0) => Edits(blob, tags, z, dtb, cmdline, {}, 1008)
    BY <1>2, <1>4, <2>1, FindStep
  <2> QED BY <2>2 DEF z
<1>9. args' \in Seq(Cell) /\ Len(args') <= 1023
  BY <1>1, <1>2, ZenonT(60)
<1>10. CASE o < 0
  <2>1. next = "add" /\ OldOffset(dtb) < 0
    BY <1>1, <1>8, <1>10, Zenon
  <2>2. o = -1
    <3>1. WellFormed(dtb)
      BY <1>2, DtbAssumption
    <3>2. tags = Tags(dtb)
      BY <1>4, Zenon DEF Opened
    <3>3. Shaped(tags) /\ Apart(ToSet(tags))
      BY <3>1, <3>2, DtbSound, Zenon
    <3>4. \A t \in ToSet(tags) : t.off \in Nat
      BY <3>3 DEF Apart
    <3>5. \/ o = -1
          \/ \E t \in ToSet(tags) : o = t.off
      BY <3>3, PathOffset, Zenon
    <3> HIDE DEF o
    <3>6. ASSUME NEW t \in ToSet(tags), o = t.off
          PROVE  FALSE
      BY <1>10, <3>4, <3>6
    <3> QED BY <3>5, <3>6, Zenon
  <2>3. pc' = "add" /\ chosen' = -1
    BY <1>1, <1>6, <2>1, <2>2, Zenon DEF n
  <2>4. Opened(blob', tags', dtb)
    BY <1>4, <1>7, Zenon
  <2> HIDE DEF o, next
  <2>5. Stage(pc', blob', tags', chosen', dtb, cmdline)
    BY <2>1, <2>3, <2>4 DEF Stage
  <2>6. pc' \in {"find", "add", "bootargs", "start", "end", "kernel"}
    BY <2>3
  <2> QED BY <1>6, <1>7, <1>9, <2>5, <2>6, StageKept, ZenonT(60)
<1>11. CASE ~(o < 0)
  <2>1. pc' = "bootargs" /\ Edits(blob, tags, o, dtb, cmdline, {}, 1008)
    BY <1>1, <1>6, <1>8, <1>11, ZenonT(60) DEF n
  <2>2. Edits(blob', tags', chosen', dtb, cmdline, {}, 1008)
    BY <1>1, <1>7, <2>1, ZenonT(60)
  <2> HIDE DEF o, next
  <2>3. Stage(pc', blob', tags', chosen', dtb, cmdline)
    BY <2>1, <2>2 DEF Stage
  <2>4. pc' \in {"find", "add", "bootargs", "start", "end", "kernel"}
    BY <2>1
  <2> QED BY <1>6, <1>7, <1>9, <2>3, <2>4, StageKept, Zenon
<1> QED BY <1>10, <1>11, Zenon

\* fdt_add_subnode,
LEMMA AddKeeps == ASSUME IInv, Add PROVE IInv'
<1> DEFINE r == fdt_add_subnode(blob, tags, 0, ChosenName)
           o == NewNode(tags, 0)
<1>1. Step("add", "bootargs", r) /\ args' = args
      /\ chosen' = IF r.ret = Done THEN o ELSE -1
  BY Zenon DEF Add
<1>2. /\ dtb \in Dtbs /\ tags = Tags(blob) /\ args \in Seq(Cell)
      /\ Len(args) <= 1023 /\ Stage(pc, blob, tags, chosen, dtb, cmdline)
  BY Zenon DEF IInv
<1>3. pc = "add"
  BY <1>1, Zenon DEF Step
<1>4. Opened(blob, tags, dtb) /\ OldOffset(dtb) < 0
  BY <1>2, <1>3 DEF Stage
<1>5. r = fdt_add_subnode(blob, tags, 0, ChosenName)
  OBVIOUS
<1> HIDE DEF r
<1>6. r.ret = Done /\ Edits(r.b, Tags(r.b), o, dtb, cmdline, {}, 1008)
  BY <1>2, <1>4, <1>5, AddStep
<1>7. /\ pc' = "bootargs" /\ blob' = r.b /\ tags' = Tags(r.b)
      /\ failed' = {} /\ dtb' = dtb /\ cmdline' = cmdline
  BY <1>1, <1>6, StepDone, ZenonT(60)
<1>8. Edits(blob', tags', chosen', dtb, cmdline, {}, 1008)
  BY <1>1, <1>6, <1>7, ZenonT(60)
<1>9. Stage(pc', blob', tags', chosen', dtb, cmdline)
  BY <1>7, <1>8 DEF Stage
<1>10. args' \in Seq(Cell) /\ Len(args') <= 1023
  BY <1>1, <1>2, ZenonT(60)
<1> QED BY <1>7, <1>9, <1>10, StageKept, ZenonT(60)

\* fdt_setprop_string of the command lines,
LEMMA SetBootargsKeeps == ASSUME IInv, SetBootargs PROVE IInv'
<1>1. Step("bootargs", "start",
           fdt_setprop(blob, tags, chosen, Bootargs, Append(args', NUL)))
      /\ chosen' = chosen
      /\ args' = SnprintfArgs(StringProp(blob, tags, chosen, Bootargs),
                              cmdline)
  BY Zenon DEF SetBootargs
<1>2. /\ cmdline \in Cmdlines /\ tags = Tags(blob)
      /\ Stage(pc, blob, tags, chosen, dtb, cmdline)
  BY ZenonT(60) DEF IInv
<1>3. pc = "bootargs"
  BY <1>1, Zenon DEF Step
<1>4. Edits(blob, tags, chosen, dtb, cmdline, {}, 1008)
  BY <1>2, <1>3 DEF Stage
<1>5. PICK a : a = args'
  OBVIOUS
<1>6. PICK r : r = fdt_setprop(blob, tags, chosen, Bootargs, Append(a, NUL))
  OBVIOUS
<1>7. Step("bootargs", "start", r)
  BY <1>1, <1>5, <1>6, Zenon
<1>8. a = SnprintfArgs(StringProp(blob, tags, chosen, Bootargs), cmdline)
  BY <1>1, <1>5, Zenon
<1>9. cmdline \in Cmdlines
  BY <1>2, Zenon
<1>10. /\ r.ret = Done /\ a \in Seq(Cell) /\ Len(a) <= 1023
      /\ Edits(r.b, Tags(r.b), chosen, dtb, cmdline, ArgsSet, 471)
  <2>1. ArgsCall(blob, tags, chosen, dtb, cmdline, a, r)
    BY <1>4, <1>6, <1>8, <1>9, ZenonT(60) DEF ArgsCall
  <2> QED BY <2>1, ArgsStep
<1>11. /\ pc' = "start" /\ blob' = r.b /\ tags' = Tags(r.b)
      /\ failed' = {} /\ dtb' = dtb /\ cmdline' = cmdline
  BY <1>7, <1>10, StepDone, ZenonT(60)
<1>12. Edits(blob', tags', chosen', dtb, cmdline, ArgsSet, 471)
  BY <1>1, <1>10, <1>11, ZenonT(60)
<1>13. Stage(pc', blob', tags', chosen', dtb, cmdline)
  BY <1>11, <1>12 DEF Stage
<1>14. args' \in Seq(Cell) /\ Len(args') <= 1023
  BY <1>5, <1>10, ZenonT(60)
<1> QED BY <1>11, <1>13, <1>14, StageKept, ZenonT(60)

\* fdt_setprop_u32 of the ramdisk's start,
LEMMA SetStartKeeps == ASSUME IInv, SetStart PROVE IInv'
<1> DEFINE r == fdt_setprop(blob, tags, chosen, InitrdStart, U32(RamdiskStart))
<1>1. Step("start", "end", r) /\ chosen' = chosen /\ args' = args
  BY Zenon DEF SetStart
<1>2. /\ args \in Seq(Cell) /\ Len(args) <= 1023
      /\ Stage(pc, blob, tags, chosen, dtb, cmdline)
  BY ZenonT(60) DEF IInv
<1>3. pc = "start"
  BY <1>1, Zenon DEF Step
<1>4. Edits(blob, tags, chosen, dtb, cmdline, ArgsSet, 471)
  BY <1>2, <1>3 DEF Stage
<1>5. r = fdt_setprop(blob, tags, chosen, InitrdStart, U32(RamdiskStart))
  OBVIOUS
<1> HIDE DEF r
<1>6. /\ r.ret = Done
      /\ Edits(r.b, Tags(r.b), chosen, dtb, cmdline,
               StartSet, 436)
  BY <1>4, <1>5, StartStep
<1>7. /\ pc' = "end" /\ blob' = r.b /\ tags' = Tags(r.b)
      /\ failed' = {} /\ dtb' = dtb /\ cmdline' = cmdline
  BY <1>1, <1>6, StepDone, Zenon
<1>8. Edits(blob', tags', chosen', dtb, cmdline, StartSet, 436)
  BY <1>1, <1>6, <1>7, Zenon
<1>9. Stage(pc', blob', tags', chosen', dtb, cmdline)
  BY <1>7, <1>8 DEF Stage
<1>10. args' \in Seq(Cell) /\ Len(args') <= 1023
  BY <1>1, <1>2, ZenonT(60)
<1> QED BY <1>7, <1>9, <1>10, StageKept, ZenonT(60)

\* and of its end.
LEMMA SetEndKeeps == ASSUME IInv, SetEnd PROVE IInv'
<1> DEFINE r == fdt_setprop(blob, tags, chosen, InitrdEnd, U32(RamdiskEnd))
           X == AllSet
<1>1. Step("end", "kernel", r) /\ chosen' = chosen /\ args' = args
  BY Zenon DEF SetEnd
<1>2. /\ args \in Seq(Cell) /\ Len(args) <= 1023
      /\ Stage(pc, blob, tags, chosen, dtb, cmdline)
  BY Zenon DEF IInv
<1>3. pc = "end"
  BY <1>1, Zenon DEF Step
<1>4. Edits(blob, tags, chosen, dtb, cmdline, StartSet, 436)
  BY <1>2, <1>3 DEF Stage
<1>5. r = fdt_setprop(blob, tags, chosen, InitrdEnd, U32(RamdiskEnd))
  OBVIOUS
<1> HIDE DEF r
<1>6. r.ret = Done /\ Edits(r.b, Tags(r.b), chosen, dtb, cmdline, X, 403)
  BY <1>4, <1>5, EndStep
<1>7. /\ pc' = "kernel" /\ blob' = r.b /\ tags' = Tags(r.b)
      /\ failed' = {} /\ dtb' = dtb /\ cmdline' = cmdline
  BY <1>1, <1>6, StepDone, Zenon
<1>8. Edits(blob', tags', chosen', dtb, cmdline, X, 403)
  BY <1>1, <1>6, <1>7, Zenon
<1>9. Stage(pc', blob', tags', chosen', dtb, cmdline)
  BY <1>7, <1>8 DEF Stage
<1>10. args' \in Seq(Cell) /\ Len(args') <= 1023
  BY <1>1, <1>2, ZenonT(60)
<1> QED BY <1>7, <1>9, <1>10, StageKept, ZenonT(60)

\* It holds at first.
LEMMA InitInv == Init => IInv
<1> SUFFICES ASSUME Init PROVE IInv
  OBVIOUS
<1>1. /\ pc = "open" /\ dtb \in Dtbs /\ cmdline \in Cmdlines /\ blob = dtb
      /\ tags = Tags(blob) /\ chosen = -1 /\ args = <<>> /\ failed = {}
  BY DEF Init
<1>2. Stage(pc, blob, tags, chosen, dtb, cmdline)
  BY <1>1 DEF Stage
<1>3. args \in Seq(Cell) /\ Len(args) <= 1023
  BY <1>1
<1> QED BY <1>1, <1>2, <1>3 DEF IInv

\* Every step keeps it.
LEMMA NextInv == IInv /\ [Next]_vars => IInv'
<1> SUFFICES ASSUME IInv, [Next]_vars PROVE IInv'
  OBVIOUS
<1>1. CASE UNCHANGED vars
  BY <1>1, ZenonT(60) DEF vars, IInv
<1>2. CASE Next
  BY <1>2, OpenKeeps, FindKeeps, AddKeeps, SetBootargsKeeps, SetStartKeeps,
     SetEndKeeps, Zenon DEF Next
<1> QED BY <1>1, <1>2

\* The edits of every tree in every order keep the invariant.
THEOREM EditsKeepInvariant == Spec => []IInv
  BY InitInv, NextInv, PTL DEF Spec

\* The offset held is that of /chosen.
LEMMA EditsNode ==
  ASSUME NEW b, NEW ts, NEW ch, NEW d, NEW c, NEW X, NEW n,
         Edits(b, ts, ch, d, c, X, n)
  PROVE  /\ IsNode(ts, ch) /\ fdt_path_offset(ts, <<ChosenName>>) = ch
         /\ ch \in -1 .. b.totalsize
         /\ Related(Tree(b, ts), d, c, NodeAt(ts, ch).path, X)
<1>1. PICK N \in Nodes(ts) : /\ IsChosen(ToSet(ts), N) /\ ch = N.off
                             /\ Related(Tree(b, ts), d, c, N.path, X)
  BY Zenon DEF Edits
<1>2. Sound(b, ts)
  BY Zenon DEF Edits
<1>3. Shaped(ts) /\ Apart(ToSet(ts)) /\ LaidOut(b)
  BY <1>2, Zenon DEF Sound, Shaped
<1>4. IsNode(ts, N.off) /\ NodeAt(ts, N.off) = N
  BY <1>1, <1>3, NodeIs, Zenon
<1>5. N \in ToSet(ts)
  BY <1>1, NodesAre, Zenon
<1>6. fdt_path_offset(ts, <<ChosenName>>) = N.off
  <2>1. PICK m \in ToSet(ts) : /\ IsChosen(ToSet(ts), m)
                               /\ fdt_path_offset(ts, <<ChosenName>>) = m.off
    BY <1>1, <1>3, <1>5, PathOffset, Zenon DEF IsChosen
  <2>2. m.off <= N.off /\ N.off <= m.off
    BY <1>1, <1>5, <2>1, Zenon DEF IsChosen
  <2>3. m.off \in Nat /\ N.off \in Nat
    BY <1>3, <1>5, <2>1 DEF Apart
  <2>4. m.off = N.off
    <3> DEFINE x == m.off
               y == N.off
    <3>1. x <= y /\ y <= x /\ x \in Nat /\ y \in Nat
      BY <2>2, <2>3
    <3> HIDE DEF x, y
    <3>2. x = y
      BY <3>1
    <3> QED BY <3>2 DEF x, y
  <2> QED BY <2>1, <2>4, Zenon
<1>7. N.off \in -1 .. b.totalsize
  <2>1. Readable(b) /\ BlockEnd(b) = b.size_dt_struct
    BY <1>3, LaidOutReadable, Zenon
  <2>2. WholeTags(b, ToSet(ts))
    BY <1>2, <2>1, WalkWhole, Zenon DEF Sound
  <2>3. N.off + 4 <= N.next /\ N.next <= b.size_dt_struct
    BY <1>5, <2>1, <2>2 DEF WholeTags
  <2>4. /\ b.totalsize \in Nat /\ b.size_dt_struct \in Nat
        /\ b.off_dt_struct \in Nat
        /\ b.off_dt_struct + b.size_dt_struct <= fdt_data_size_(b)
        /\ fdt_data_size_(b) \in Nat
        /\ fdt_data_size_(b) <= b.totalsize
    BY <1>3, LaidNumbers, Zenon
  <2>5. N.off \in Nat /\ N.next \in Int
    <3>1. N.off \in Nat
      BY <1>3, <1>5 DEF Apart
    <3>2. ts \in Seq(TagSet)
      BY <1>2, Zenon DEF Sound, Walk, WalkFrom
    <3>3. N \in TagSet
      <4>1. PICK k \in 1 .. Len(ts) : N = ts[k]
        BY <1>5, <3>2 DEF ToSet
      <4> QED BY <3>2, <4>1
    <3> QED BY <3>1, <3>3 DEF TagSet
  <2> DEFINE x == N.off
             y == N.next
             z == b.size_dt_struct
             s == b.off_dt_struct
             w == fdt_data_size_(b)
             t == b.totalsize
  <2>6. /\ x \in Nat /\ y \in Int /\ z \in Nat /\ s \in Nat /\ w \in Nat
        /\ t \in Nat /\ x + 4 <= y /\ y <= z /\ s + z <= w /\ w <= t
    BY <2>3, <2>4, <2>5
  <2> HIDE DEF x, y, z, s, w, t
  <2>7. x \in -1 .. t
    BY <2>6
  <2> QED BY <2>7 DEF x, t
<1> QED BY <1>1, <1>4, <1>6, <1>7, Zenon

\* What the calls leave at each of them.
LEMMA StageEdits ==
  ASSUME IInv, pc \in {"bootargs", "start", "end", "kernel"}
  PROVE  \E X, n : Edits(blob, tags, chosen, dtb, cmdline, X, n)
  BY DEF IInv, Stage

\* The numbers are what they should be.
LEMMA InvRoom == IInv => RoomSuffices
<1> SUFFICES ASSUME IInv PROVE RoomSuffices
  OBVIOUS
<1>1. /\ dtb \in Dtbs /\ failed = {} /\ Len(args) <= 1023
      /\ pc \in {"open", "find", "add", "bootargs", "start", "end", "kernel"}
      /\ Stage(pc, blob, tags, chosen, dtb, cmdline) /\ args \in Seq(Cell)
  BY DEF IInv
<1>2. chosen \in -1 .. blob.totalsize
  <2>1. CASE pc = "open"
    <3>1. blob = dtb /\ chosen = -1
      BY <1>1, <2>1 DEF Stage
    <3>2. dtb \in Blob
      BY <1>1, DtbAssumption, ZenonT(60) DEF WellFormed
    <3>3. blob.totalsize \in Nat
      BY <3>1, <3>2 DEF Blob
    <3> QED BY <3>1, <3>3
  <2>2. CASE pc \in {"find", "add"}
    <3>1. Opened(blob, tags, dtb) /\ chosen = -1
      BY <1>1, <2>2 DEF Stage
    <3>2. blob.totalsize \in Nat
      BY <3>1, OpenedSpare, ZenonT(60)
    <3> QED BY <3>1, <3>2
  <2>3. CASE pc \in {"bootargs", "start", "end", "kernel"}
    BY <2>3, StageEdits, EditsNode, Zenon
  <2> QED BY <1>1, <2>1, <2>2, <2>3
<1>3. Len(args) + 1 <= FinalCmdlineSize
  <2>1. Len(args) \in Nat
    BY <1>1
  <2> QED BY <1>1, <2>1 DEF FinalCmdlineSize
<1>4. failed = {}
      /\ failed \subseteq {"open", "add", "bootargs", "start", "end"}
  BY <1>1
<1> QED BY <1>1, <1>2, <1>3, <1>4, ZenonT(60) DEF RoomSuffices, TypeOK, SlackSuffices

\* The invariant says where /chosen is.
LEMMA InvChosen == IInv => ChosenStays
<1> SUFFICES ASSUME IInv, pc \in {"bootargs", "start", "end", "kernel"}
             PROVE  /\ IsNode(tags, chosen)
                    /\ fdt_path_offset(tags, <<ChosenName>>) = chosen
  BY Zenon DEF ChosenStays
<1>1. PICK X, n : Edits(blob, tags, chosen, dtb, cmdline, X, n)
  BY StageEdits, Zenon
<1> QED BY <1>1, EditsNode, Zenon

\* A tree that can be edited has a valid header.
LEMMA HeaderChecked ==
  ASSUME NEW b, LaidOut(b)
  PROVE  fdt_check_header(b)
<1> DEFINE T == b.totalsize
           m == b.off_mem_rsvmap
           S == b.off_dt_struct
           Z == b.size_dt_struct
           G == b.off_dt_strings
           g == b.size_dt_strings
<1>1. /\ T \in Nat /\ m \in Nat /\ S \in Nat /\ Z \in Nat /\ G \in Nat
      /\ g \in Nat
      /\ S + Z <= G /\ G + g <= T /\ m % 8 = 0 /\ S % 4 = 0 /\ b.version = 17
      /\ HeaderSize = 40 /\ 40 <= m /\ m + 16 <= S /\ FDT_TAGSIZE = 4
  <2>1. /\ T \in Nat /\ m \in Nat /\ S \in Nat /\ Z \in Nat /\ G \in Nat
        /\ g \in Nat
        /\ S + Z <= G /\ b.version = 17
        /\ fdt_data_size_(b) = G + g /\ fdt_data_size_(b) <= T
    BY LaidNumbers
  <2>2. m % 8 = 0 /\ S % 4 = 0 /\ HeaderSize <= m /\ m + ReserveSize <= S
    BY DEF LaidOut
  <2> QED BY <2>1, <2>2 DEF HeaderSize, ReserveSize, FDT_TAGSIZE
<1>2. /\ T >= 40 /\ 40 <= m /\ m <= T /\ 40 <= S /\ S <= T /\ 40 <= S + Z
      /\ S + Z <= T /\ 40 <= G /\ G <= T /\ 40 <= G + g /\ G + g <= T
  <2> HIDE DEF T, m, S, Z, G, g
  <2> QED BY <1>1
<1> QED
  BY <1>1, <1>2 DEF fdt_check_header, check_block_, check_off_

\* The reservation map of what dtc has written has its end.
LEMMA DtbMap ==
  ASSUME NEW d, WellFormed(d)
  PROVE  MapThere(d)
<1>1. /\ d \in Blob /\ End(d) = d.totalsize
      /\ HeaderSize <= d.off_mem_rsvmap /\ d.off_dt_struct <= d.totalsize
      /\ \E n \in Nat : EndsAt(d, n) /\ d.off_mem_rsvmap + (n + 1) * ReserveSize
                                          <= d.off_dt_struct
  BY WellNumbers, Zenon
<1>2. d.off_dt_struct <= End(d)
  BY <1>1
<1> QED BY <1>1, <1>2, Zenon DEF MapThere, EndsAt

\* The map is kept.
LEMMA MapKept ==
  ASSUME NEW d, WellFormed(d), NEW b, LaidOut(b), FrontKept(d, b)
  PROVE  ReserveMap(b) = ReserveMap(d)
<1>1. MapThere(d)
  BY DtbMap, Zenon
<1>2. b \in Blob /\ b.off_dt_struct <= b.totalsize /\ b.off_dt_struct <= End(b)
  <2> DEFINE S == b.off_dt_struct
             Z == b.size_dt_struct
             w == fdt_data_size_(b)
             T == b.totalsize
             e == End(b)
  <2>1. /\ b \in Blob /\ S \in Nat /\ Z \in Nat /\ w \in Nat /\ T \in Nat
        /\ e \in Nat /\ S + Z <= w /\ w <= T /\ w <= e
    BY LaidNumbers
  <2>2. S <= T /\ S <= e
    <3> HIDE DEF S, Z, w, T, e
    <3> QED BY <2>1
  <2> QED BY <2>1, <2>2
<1> QED BY <1>1, <1>2, SameMap, Zenon

\* The properties of /chosen, spelt out.
Spelt(kept, args3) ==
    [name \in DOMAIN kept \cup {Bootargs, InitrdStart, InitrdEnd} |->
        CASE name = Bootargs -> args3
          [] name = InitrdStart -> U32(RamdiskStart)
          [] name = InitrdEnd   -> U32(RamdiskEnd)
          [] OTHER -> kept[name]]

Overlaid(f, kept, d, c) ==
    /\ IsFunction(f) /\ DOMAIN f = DOMAIN kept \cup AllSet
    /\ \A x \in DOMAIN f : f[x] = IF x \in AllSet THEN Value(d, c, x)
                                  ELSE kept[x]

\* They are those kept with the three set over them.
LEMMA SpeltIs ==
  ASSUME NEW f, NEW kept, NEW d, NEW c, Overlaid(f, kept, d, c)
  PROVE  f = Spelt(kept, Append(Fitted(d, c), NUL))
<1>0. /\ IsFunction(f) /\ DOMAIN f = DOMAIN kept \cup AllSet
      /\ \A x \in DOMAIN f : f[x] = IF x \in AllSet THEN Value(d, c, x)
                                    ELSE kept[x]
  BY Zenon DEF Overlaid
<1> DEFINE v == Append(Fitted(d, c), NUL)
           h(x) == CASE x = Bootargs -> v
                     [] x = InitrdStart -> U32(RamdiskStart)
                     [] x = InitrdEnd   -> U32(RamdiskEnd)
                     [] OTHER -> kept[x]
<1>1. ASSUME NEW x \in DOMAIN f PROVE f[x] = h(x)
  <2>1. CASE x = Bootargs
    <3>1. f[x] = v
      BY <1>0, <1>1, <2>1 DEF AllSet, Value
    <3>2. h(x) = v
      BY <2>1, NamesAre DEF NamesOf
    <3> QED BY <3>1, <3>2
  <2>2. CASE x = InitrdStart
    BY <1>0, <1>1, <2>2, NamesAre DEF AllSet, Value, NamesOf
  <2>3. CASE x = InitrdEnd
    BY <1>0, <1>1, <2>3, NamesAre DEF AllSet, Value, NamesOf
  <2>4. CASE x \notin AllSet
    BY <1>0, <1>1, <2>4 DEF AllSet
  <2> QED BY <2>1, <2>2, <2>3, <2>4 DEF AllSet
<1>2. Spelt(kept, v) = [x \in DOMAIN f |-> h(x)]
  BY <1>0 DEF Spelt, AllSet
<1> HIDE DEF h, v
<1>3. f = [x \in DOMAIN f |-> f[x]]
  BY <1>0, Zenon DEF IsFunction
<1>4. Spelt(kept, v) = f
  BY <1>1, <1>2, <1>3
<1> QED BY <1>4 DEF v

\* So is the tree.
TreeOf(d, c, P) ==
    [p \in DOMAIN Tree(d, Tags(d)) \cup {P} |->
        IF p # P THEN Tree(d, Tags(d))[p]
        ELSE Spelt(KeptProps(d, P), Append(Fitted(d, c), NUL))]

\* That is the tree with all three properties set.
LEMMA TreeSpelt ==
  ASSUME NEW W, NEW d, NEW c, NEW P, Related(W, d, c, P, AllSet)
  PROVE  W = TreeOf(d, c, P)
<1> DEFINE V == Tree(d, Tags(d))
           G == Spelt(KeptProps(d, P), Append(Fitted(d, c), NUL))
           S == DOMAIN V \cup {P}
<1>1. /\ IsFunction(W) /\ DOMAIN W = S
      /\ \A p \in DOMAIN W : p # P => W[p] = V[p]
  BY Zenon DEF Related
<1>2. W[P] = G
  <2>1. /\ IsFunction(W[P]) /\ DOMAIN W[P] = DOMAIN KeptProps(d, P) \cup AllSet
        /\ \A x \in DOMAIN W[P] : W[P][x] = IF x \in AllSet THEN Value(d, c, x)
                                            ELSE KeptProps(d, P)[x]
    BY Zenon DEF Related
  <2>2. Overlaid(W[P], KeptProps(d, P), d, c)
    BY <2>1, Zenon DEF Overlaid
  <2> QED BY <2>2, SpeltIs, Zenon
<1>5. TreeOf(d, c, P) = [p \in S |-> IF p # P THEN V[p] ELSE G]
  BY Zenon DEF TreeOf
<1> HIDE DEF V, G
<1>3. W = [p \in S |-> W[p]]
  BY <1>1, Zenon DEF IsFunction
<1>4. W = [p \in S |-> IF p # P THEN V[p] ELSE G]
  BY <1>1, <1>2, <1>3
<1> QED BY <1>4, <1>5 DEF V, G

\* The invariant says what the kernel gets.
LEMMA InvHandedOver == IInv => HandedOver
<1> SUFFICES ASSUME IInv, pc = "kernel" PROVE HandedOver
  BY DEF HandedOver
<1> DEFINE P == NodeAt(tags, chosen).path
<1>1. /\ dtb \in Dtbs /\ tags = Tags(blob)
      /\ Edits(blob, tags, chosen, dtb, cmdline, AllSet, 403)
  BY DEF IInv, Stage
<1>2. WellFormed(dtb)
  BY <1>1, DtbAssumption
<1>3. LaidOut(blob) /\ FrontKept(dtb, blob)
  BY <1>1, Zenon DEF Edits, Sound
<1>4. fdt_check_header(blob)
  BY <1>3, HeaderChecked, Zenon
<1>5. ReserveMap(blob) = ReserveMap(dtb)
  BY <1>2, <1>3, MapKept, Zenon
<1>6. Related(Tree(blob, tags), dtb, cmdline, P, AllSet)
  BY <1>1, EditsNode, ZenonT(60)
<1>7. Tree(blob, tags) = TreeOf(dtb, cmdline, P)
  BY <1>6, TreeSpelt, Zenon
<1>8. HandedOver <=> /\ fdt_check_header(blob)
                     /\ ReserveMap(blob) = ReserveMap(dtb)
                     /\ Tree(blob, tags) = TreeOf(dtb, cmdline, P)
  BY Zenon DEF HandedOver, TreeOf, Spelt, KeptProps, OldOffset, Fitted, OldArgs,
     SnprintfArgs
<1> HIDE DEF P
<1> QED BY <1>4, <1>5, <1>7, <1>8, Zenon

\* For every tree dtc writes and every command line, there is room for all the
\* edits, and for the command lines in final_cmdline (boot.c:153-176).
THEOREM RoomAlwaysSuffices == Spec => []RoomSuffices
  BY EditsKeepInvariant, InvRoom, PTL

\* The offset held stays that of the node /chosen (boot.c:157-176).
THEOREM ChosenAlwaysStays == Spec => []ChosenStays
  BY EditsKeepInvariant, InvChosen, PTL

\* The kernel gets the image's tree with three properties set (boot.c:150-176).
THEOREM TreeHandedOver == Spec => []HandedOver
  BY EditsKeepInvariant, InvHandedOver, PTL
==============================================================================
