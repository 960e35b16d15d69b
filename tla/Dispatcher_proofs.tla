-------------------------- MODULE Dispatcher_proofs --------------------------
(***************************************************************************)
(* The safety properties of Dispatcher, for any number of stations, ports  *)
(* and entries and any frames: that the table of heard stations is in      *)
(* order, and that what is repeated takes the port its destination was     *)
(* last heard on.                                                          *)
(***************************************************************************)
EXTENDS Dispatcher, FiniteSetTheorems, TLAPS

USE MHeardAssumption, DispatcherAssumption

-----------------------------------------------------------------------------
(* Tables *)

Tidy(t) ==
    /\ Keys(t) \subseteq Key /\ IsFiniteSet(Keys(t))
    /\ t.age \in [Keys(t) -> 0..(EntryTTL + 1)]
    /\ t.newer \in Orders(Keys(t))
    /\ \A k, l \in Keys(t) :
        /\ <<k, l>> \in t.newer => t.age[k] <= t.age[l]
        /\ k.call = l.call => (k.on = "indirect" <=> l.on = "indirect")
    /\ \A k \in Keys(t) : k.call \notin Own

Young(t, a) == {k \in Keys(t) : t.age[k] <= a}

\* The table lists the direct entry of the station's last frame as its newest.
Lists(t, c, h) ==
    LET k == DirectKey(c, h.port)
    IN  /\ k \in Keys(t) /\ t.age[k] = h.age
        /\ \A l \in DirectKeys(t, c) \ {k} : <<k, l>> \in t.newer

\* It has given the entry up, with all older ones, for those of Limit stations
\* seen since.
Lost(t, c, h) ==
    DirectKeys(t, c) \cap Fresh(t) = {} /\ Cardinality(Young(t, h.age)) >= Limit

Followed(t, c, H) ==
    /\ H = {} => DirectKeys(t, c) \cap Fresh(t) = {}
    /\ \A h \in H : Lists(t, c, h) \/ Lost(t, c, h)

-----------------------------------------------------------------------------
(* Operations of a table keep it tidy *)

LEMMA TidyFields ==
  ASSUME NEW t, Tidy(t)
  PROVE  /\ Keys(t) \subseteq Key /\ IsFiniteSet(Keys(t))
         /\ \A k \in Keys(t) : /\ t.age[k] \in 0..(EntryTTL + 1) /\ t.age[k] \in Nat
                               /\ k.call \in Call /\ k.call \notin Own
                               /\ k.on \in Port \cup {"indirect"}
                               /\ k = [call |-> k.call, on |-> k.on]
         /\ t.newer \subseteq Keys(t) \X Keys(t)
         /\ \A k \in Keys(t) : <<k, k>> \notin t.newer
         /\ \A k, l \in Keys(t) : k # l => <<k, l>> \in t.newer \/ <<l, k>> \in t.newer
         /\ \A k, l \in Keys(t) : ~(<<k, l>> \in t.newer /\ <<l, k>> \in t.newer)
         /\ \A k, l \in Keys(t) : <<k, l>> \in t.newer => t.age[k] <= t.age[l]
         /\ Fresh(t) \subseteq Keys(t) /\ IsFiniteSet(Fresh(t))
         /\ \A a : Young(t, a) \subseteq Keys(t) /\ IsFiniteSet(Young(t, a))
<1>1. /\ Keys(t) \subseteq Key /\ IsFiniteSet(Keys(t))
      /\ \A k \in Keys(t) : t.age[k] \in 0..(EntryTTL + 1)
      /\ \A k \in Keys(t) : k.call \notin Own
  BY DEF Tidy
<1>2. \A k \in Keys(t) : /\ k.call \in Call /\ k.on \in Port \cup {"indirect"}
                         /\ k = [call |-> k.call, on |-> k.on]
  BY <1>1 DEF Key
<1>3. t.newer \in Orders(Keys(t))
  BY DEF Tidy
<1>4. /\ t.newer \subseteq Keys(t) \X Keys(t)
      /\ \A k \in Keys(t) : <<k, k>> \notin t.newer
      /\ \A k, l \in Keys(t) : k # l => <<k, l>> \in t.newer \/ <<l, k>> \in t.newer
      /\ \A k, l \in Keys(t) : ~(<<k, l>> \in t.newer /\ <<l, k>> \in t.newer)
  BY <1>3 DEF Orders
<1>5. \A k, l \in Keys(t) : <<k, l>> \in t.newer => t.age[k] <= t.age[l]
  BY DEF Tidy
<1>6. \A S \in SUBSET Keys(t) : IsFiniteSet(S)
  BY <1>1, FS_Subset
<1>7. Fresh(t) \subseteq Keys(t) /\ \A a : Young(t, a) \subseteq Keys(t)
  BY DEF Fresh, Young
<1> QED
  BY <1>1, <1>2, <1>4, <1>5, <1>6, <1>7

LEMMA KeptTidy ==
  ASSUME NEW t, Tidy(t), NEW S \in SUBSET Keys(t)
  PROVE  /\ Tidy(Kept(t, S)) /\ Keys(Kept(t, S)) = S
         /\ \A k \in S : Kept(t, S).age[k] = t.age[k]
         /\ \A k, l \in S : <<k, l>> \in Kept(t, S).newer <=> <<k, l>> \in t.newer
<1>0. PICK u : u = Kept(t, S)
  OBVIOUS
<1>1. /\ Keys(u) = S /\ \A k \in S : u.age[k] = t.age[k]
      /\ u.newer = t.newer \cap (S \X S)
      /\ u.age = [k \in S |-> t.age[k]]
  BY <1>0 DEF Kept, Keys
<1>2. IsFiniteSet(S)
  BY TidyFields, FS_Subset
<1>3. u.age \in [S -> 0..(EntryTTL + 1)]
  BY <1>1, TidyFields
<1>4. u.newer \in Orders(S)
  <2>1. \A k, l, m \in Keys(t) : <<k, l>> \in t.newer /\ <<l, m>> \in t.newer
                                  => <<k, m>> \in t.newer
    BY DEF Tidy, Orders
  <2>2. \A k, l \in S : <<k, l>> \in u.newer <=> <<k, l>> \in t.newer
    BY <1>1
  <2>3. \A k \in S : <<k, k>> \notin u.newer
    BY <2>2, TidyFields
  <2>4. \A k, l \in S : k # l => <<k, l>> \in u.newer \/ <<l, k>> \in u.newer
    BY <2>2, TidyFields
  <2>5. \A k, l, m \in S : <<k, l>> \in u.newer /\ <<l, m>> \in u.newer => <<k, m>> \in u.newer
    BY <2>1, <2>2
  <2>6. u.newer \in SUBSET (S \X S)
    BY <1>1
  <2> QED
    BY <2>3, <2>4, <2>5, <2>6 DEF Orders
<1>5. \A k, l \in S :
        /\ <<k, l>> \in u.newer => u.age[k] <= u.age[l]
        /\ k.call = l.call => (k.on = "indirect" <=> l.on = "indirect")
  BY <1>1 DEF Tidy
<1>6. S \subseteq Key /\ \A k \in S : k.call \notin Own
  BY TidyFields
<1>7. Tidy(u)
  BY <1>1, <1>2, <1>3, <1>4, <1>5, <1>6 DEF Tidy
<1> QED
  BY <1>0, <1>1, <1>7

\* Entries that come in may not list a station in both ways.
Fits(t, new) ==
    /\ new \subseteq Key /\ IsFiniteSet(new)
    /\ \A k \in new : k.call \notin Own
    /\ \A k \in new, l \in new \cup Keys(t) :
          k.call = l.call => (k.on = "indirect" <=> l.on = "indirect")

LEMMA SeenFields ==
  ASSUME NEW t, NEW new, NEW order
  PROVE  LET u == Seen(t, new, order)
             old == Keys(t) \ new
         IN  /\ Keys(u) = Keys(t) \cup new
             /\ \A k \in Keys(u) : u.age[k] = IF k \in new THEN 0 ELSE t.age[k]
             /\ u.age = [k \in Keys(t) \cup new |-> IF k \in new THEN 0 ELSE t.age[k]]
             /\ u.newer = order \cup (new \X old) \cup (t.newer \cap (old \X old))
<1> DEFINE old == Keys(t) \ new
<1>1. old \cup new = Keys(t) \cup new
  OBVIOUS
<1> QED
  BY <1>1 DEF Seen, Keys

\* One entry comes in.
OneSeen(t, k) == Seen(t, {k}, {})

LEMMA OneSeenFields ==
  ASSUME NEW t, NEW k
  PROVE  LET u == OneSeen(t, k)
         IN  /\ Keys(u) = Keys(t) \cup {k}
             /\ \A l \in Keys(u) : u.age[l] = IF l = k THEN 0 ELSE t.age[l]
             /\ \A l \in Keys(t) \ {k} : <<k, l>> \in u.newer
             /\ \A l, m \in Keys(t) \ {k} : <<l, m>> \in t.newer => <<l, m>> \in u.newer
<1> DEFINE old == Keys(t) \ {k}
<1>1. PICK u : u = OneSeen(t, k)
  OBVIOUS
<1>2. /\ u.age = [l \in old \cup {k} |-> IF l \in {k} THEN 0 ELSE t.age[l]]
      /\ u.newer = {} \cup ({k} \X old) \cup (t.newer \cap (old \X old))
  BY <1>1 DEF OneSeen, Seen
<1>3. Keys(u) = Keys(t) \cup {k}
  BY <1>2 DEF Keys
<1>4. \A l \in Keys(u) : u.age[l] = IF l = k THEN 0 ELSE t.age[l]
  BY <1>2, <1>3
<1>5. \A l \in old : <<k, l>> \in u.newer
  BY <1>2
<1>6. \A l, m \in old : <<l, m>> \in t.newer => <<l, m>> \in u.newer
  BY <1>2
<1> QED
  BY <1>1, <1>3, <1>4, <1>5, <1>6

LEMMA SeenTidy ==
  ASSUME NEW t, Tidy(t), NEW new, Fits(t, new), NEW order \in Orders(new)
  PROVE  Tidy(Seen(t, new, order))
<1>0. PICK u : u = Seen(t, new, order)
  OBVIOUS
<1>1. PICK old : old = Keys(t) \ new
  OBVIOUS
<1>2. /\ Keys(u) = Keys(t) \cup new /\ Keys(u) = old \cup new
      /\ \A k \in Keys(u) : u.age[k] = IF k \in new THEN 0 ELSE t.age[k]
      /\ u.newer = order \cup (new \X old) \cup (t.newer \cap (old \X old))
      /\ u.age = [k \in Keys(t) \cup new |-> IF k \in new THEN 0 ELSE t.age[k]]
  BY <1>0, <1>1, SeenFields
<1>3. /\ order \subseteq new \X new
      /\ \A k \in new : <<k, k>> \notin order
      /\ \A k, l \in new : k # l => <<k, l>> \in order \/ <<l, k>> \in order
      /\ \A k, l, m \in new : <<k, l>> \in order /\ <<l, m>> \in order => <<k, m>> \in order
  BY DEF Orders
<1>4. /\ \A k, l \in Keys(t) : k # l => <<k, l>> \in t.newer \/ <<l, k>> \in t.newer
      /\ \A k \in Keys(t) : <<k, k>> \notin t.newer
      /\ \A k, l, m \in Keys(t) : <<k, l>> \in t.newer /\ <<l, m>> \in t.newer
                                   => <<k, m>> \in t.newer
  BY DEF Tidy, Orders
<1>5. \A k, l : <<k, l>> \in u.newer <=>
          \/ k \in new /\ l \in new /\ <<k, l>> \in order
          \/ k \in new /\ l \in old
          \/ k \in old /\ l \in old /\ <<k, l>> \in t.newer
  BY <1>2, <1>3
<1>6. old \cap new = {} /\ old \subseteq Keys(t)
  BY <1>1
<1>7. u.newer \in Orders(Keys(u))
  <2>1. u.newer \in SUBSET (Keys(u) \X Keys(u))
    BY <1>2, <1>3
  <2>2. \A k \in Keys(u) : <<k, k>> \notin u.newer
    BY <1>2, <1>3, <1>4, <1>5, <1>6
  <2>3. \A k, l \in Keys(u) : k # l => <<k, l>> \in u.newer \/ <<l, k>> \in u.newer
    BY <1>2, <1>3, <1>4, <1>5, <1>6
  <2>4. \A k, l, m \in Keys(u) : <<k, l>> \in u.newer /\ <<l, m>> \in u.newer
                                  => <<k, m>> \in u.newer
    BY <1>2, <1>3, <1>4, <1>5, <1>6
  <2> QED
    BY <2>1, <2>2, <2>3, <2>4 DEF Orders
<1>8. IsFiniteSet(Keys(u)) /\ Keys(u) \subseteq Key
  <2>1. /\ IsFiniteSet(Keys(t)) /\ Keys(t) \subseteq Key
        /\ IsFiniteSet(new) /\ new \subseteq Key
    BY DEF Tidy, Fits
  <2>2. IsFiniteSet(Keys(t) \cup new)
    BY <2>1, FS_Union
  <2> QED
    BY <1>2, <2>1, <2>2
<1>9. u.age \in [Keys(u) -> 0..(EntryTTL + 1)]
  BY <1>2, TidyFields
<1>10. \A k, l \in Keys(u) : <<k, l>> \in u.newer => u.age[k] <= u.age[l]
  <2> SUFFICES ASSUME NEW k \in Keys(u), NEW l \in Keys(u), <<k, l>> \in u.newer
               PROVE  u.age[k] <= u.age[l]
    OBVIOUS
  <2>1. CASE k \in new
    <3>1. u.age[k] = 0 /\ u.age[l] \in 0..(EntryTTL + 1)
      BY <1>2, <1>9, <2>1
    <3> QED
      BY <3>1
  <2>2. CASE k \notin new
    <3>1. k \in old /\ l \in old /\ <<k, l>> \in t.newer
      BY <1>5, <2>2
    <3> QED
      BY <1>2, <1>6, <3>1, TidyFields
  <2> QED
    BY <2>1, <2>2
<1>11. \A k, l \in Keys(u) : k.call = l.call => (k.on = "indirect" <=> l.on = "indirect")
  BY <1>2 DEF Tidy, Fits
<1>12. \A k \in Keys(u) : k.call \notin Own
  BY <1>2 DEF Tidy, Fits
<1>13. Tidy(u)
  BY <1>7, <1>8, <1>9, <1>10, <1>11, <1>12 DEF Tidy
<1> QED
  BY <1>0, <1>13

\* What a pruned table is: the fresh entries but one at most, the oldest, which
\* goes only if more than Limit are there.
LEMMA PruneFields ==
  ASSUME NEW t, Tidy(t)
  PROVE  /\ Tidy(Prune(t)) /\ Keys(Prune(t)) \subseteq Fresh(t)
         /\ \A k \in Keys(Prune(t)) : Prune(t).age[k] = t.age[k]
         /\ \A k, l \in Keys(Prune(t)) : <<k, l>> \in Prune(t).newer <=> <<k, l>> \in t.newer
         /\ \/ Keys(Prune(t)) = Fresh(t)
            \/ \E k \in Fresh(t) : /\ Cardinality(Fresh(t)) > Limit
                                   /\ Keys(Prune(t)) = Fresh(t) \ {k}
                                   /\ \A l \in Fresh(t) \ {k} : <<l, k>> \in t.newer
<1> DEFINE S == IF Cardinality(Fresh(t)) > Limit THEN Fresh(t) \ Oldest(t, Fresh(t))
                ELSE Fresh(t)
<1>1. S \in SUBSET Keys(t) /\ S \subseteq Fresh(t)
  BY TidyFields
<1>2. Prune(t) = Kept(t, S)
  BY DEF Prune
<1>3. \/ S = Fresh(t)
      \/ \E k \in Fresh(t) : /\ Cardinality(Fresh(t)) > Limit
                             /\ S = Fresh(t) \ {k}
                             /\ \A l \in Fresh(t) \ {k} : <<l, k>> \in t.newer
  <2>1. \A k, l \in Oldest(t, Fresh(t)) : k = l
    BY TidyFields DEF Oldest
  <2>2. CASE Oldest(t, Fresh(t)) = {}
    BY <2>2
  <2>3. ASSUME NEW k \in Oldest(t, Fresh(t))
        PROVE  /\ k \in Fresh(t) /\ Oldest(t, Fresh(t)) = {k}
               /\ \A l \in Fresh(t) \ {k} : <<l, k>> \in t.newer
    BY <2>1 DEF Oldest
  <2> QED
    BY <2>2, <2>3
<1> HIDE DEF S
<1> QED
  BY <1>1, <1>2, <1>3, KeptTidy

LEMMA NoOrder == {} \in Orders({}) /\ \A k : {} \in Orders({k})
BY DEF Orders

LEMMA KeyFields ==
  ASSUME NEW c \in Call, NEW p \in Port
  PROVE  /\ DirectKey(c, p) \in Key /\ DirectKey(c, p).call = c /\ DirectKey(c, p).on = p
         /\ IndirectKey(c) \in Key /\ IndirectKey(c).call = c
         /\ IndirectKey(c).on = "indirect" /\ p # "indirect"
BY DEF Key, DirectKey, IndirectKey

LEMMA IndirectFields ==
  ASSUME NEW c \in Call
  PROVE  /\ IndirectKey(c) \in Key /\ IndirectKey(c).call = c
         /\ IndirectKey(c).on = "indirect"
BY DEF Key, IndirectKey

\* Heard, up to its pruning.
HeardFirst(t, c, p) ==
    OneSeen(Kept(t, Keys(t) \ {IndirectKey(c)}), DirectKey(c, p))

LEMMA HeardFits ==
  ASSUME NEW t, Tidy(t), NEW c \in Call \ Own, NEW p \in Port
  PROVE  LET r == Kept(t, Keys(t) \ {IndirectKey(c)})
         IN  /\ Tidy(r) /\ Keys(r) = Keys(t) \ {IndirectKey(c)}
             /\ Fits(r, {DirectKey(c, p)}) /\ Tidy(HeardFirst(t, c, p))
             /\ \A k \in Keys(r) : r.age[k] = t.age[k]
<1>1. PICK r : r = Kept(t, Keys(t) \ {IndirectKey(c)})
  OBVIOUS
<1>2. /\ Tidy(r) /\ Keys(r) = Keys(t) \ {IndirectKey(c)}
      /\ \A k \in Keys(r) : r.age[k] = t.age[k]
  BY <1>1, KeptTidy
<1>3. Fits(r, {DirectKey(c, p)})
  <2>1. IsFiniteSet({DirectKey(c, p)})
    BY FS_Singleton
  <2>2. \A l \in Keys(r) : l.call = c => l.on # "indirect"
    <3> SUFFICES ASSUME NEW l \in Keys(r), l.call = c, l.on = "indirect" PROVE FALSE
      OBVIOUS
    <3>1. l \in Keys(t) /\ l # IndirectKey(c)
      BY <1>2
    <3> QED
      BY <3>1, TidyFields DEF IndirectKey
  <2> QED
    BY <2>1, <2>2, KeyFields DEF Fits
<1>4. Tidy(HeardFirst(t, c, p))
  BY <1>1, <1>2, <1>3, NoOrder, SeenTidy DEF HeardFirst, OneSeen
<1> QED
  BY <1>1, <1>2, <1>3, <1>4

LEMMA IndirectFits ==
  ASSUME NEW t, Tidy(t), NEW new, IsFiniteSet(new),
         \A k \in new : \E c \in Call \ Own : k = IndirectKey(c) /\ DirectKeys(t, c) = {}
  PROVE  Fits(t, new)
<1>1. \A k \in new : /\ k \in Key /\ k.call \notin Own /\ k.on = "indirect"
                     /\ \A l \in Keys(t) : l.call = k.call => l.on = "indirect"
  BY IndirectFields DEF DirectKeys
<1> QED
  BY <1>1 DEF Fits

LEMMA HeardTidy ==
  ASSUME NEW t, Tidy(t), NEW c \in Call \ Own, NEW p \in Port
  PROVE  Tidy(Heard(t, c, p))
<1>1. Heard(t, c, p) = Prune(HeardFirst(t, c, p))
  BY DEF Heard, HeardFirst, OneSeen
<1> QED
  BY <1>1, HeardFits, PruneFields

LEMMA HeardViaTidy ==
  ASSUME NEW t, Tidy(t), NEW c \in Call \ Own
  PROVE  Tidy(HeardVia(t, c))
<1>1. CASE DirectKeys(t, c) # {}
  BY <1>1, PruneFields DEF HeardVia
<1>2. CASE DirectKeys(t, c) = {}
  <2>1. Fits(t, {IndirectKey(c)})
    BY <1>2, FS_Singleton, IndirectFits
  <2>2. Tidy(Seen(t, {IndirectKey(c)}, {}))
    BY <2>1, NoOrder, SeenTidy
  <2> QED
    BY <1>2, <2>2, PruneFields DEF HeardVia
<1> QED
  BY <1>1, <1>2

\* The announced stations that make an entry.
Announces(t, calls) == {IndirectKey(c) : c \in {d \in calls : DirectKeys(t, d) = {}}}

LEMMA AnnouncesFits ==
  ASSUME NEW t, Tidy(t), NEW calls \in SUBSET (Call \ Own), IsFiniteSet(calls)
  PROVE  Fits(t, Announces(t, calls))
<1> DEFINE told == {d \in calls : DirectKeys(t, d) = {}}
           f == [c \in told |-> IndirectKey(c)]
<1>1. IsFiniteSet(told)
  BY FS_Subset
<1>2. f \in Surjection(told, Announces(t, calls))
  BY DEF Surjection, Announces
<1>3. IsFiniteSet(Announces(t, calls))
  BY <1>1, <1>2, FS_Surjection
<1>4. \A k \in Announces(t, calls) :
        \E c \in Call \ Own : k = IndirectKey(c) /\ DirectKeys(t, c) = {}
  BY DEF Announces
<1> QED
  BY <1>3, <1>4, IndirectFits

LEMMA ReportedTidy ==
  ASSUME NEW t, Tidy(t), NEW calls \in SUBSET (Call \ Own), IsFiniteSet(calls),
         NEW u \in Reported(t, calls)
  PROVE  Tidy(u)
<1>1. PICK order \in Orders(Announces(t, calls)) :
        u = Prune(Seen(t, Announces(t, calls), order))
  BY DEF Reported, Announces
<1>2. Tidy(Seen(t, Announces(t, calls), order))
  BY AnnouncesFits, SeenTidy
<1> QED
  BY <1>1, <1>2, PruneFields

\* Beacon comes after Heard and finds its entry.
LEMMA HeardIsListed ==
  ASSUME NEW t, Tidy(t), NEW c \in Call \ Own, NEW p \in Port
  PROVE  /\ DirectKey(c, p) \in Keys(Heard(t, c, p))
         /\ Beacon(Heard(t, c, p), c, p) = Prune(Heard(t, c, p))
<1>0. PICK u : u = HeardFirst(t, c, p)
  OBVIOUS
<1>1. PICK k : k = DirectKey(c, p)
  OBVIOUS
<1>2. Heard(t, c, p) = Prune(u) /\ Tidy(u)
  BY <1>0, HeardFits DEF Heard, HeardFirst, OneSeen
<1>3. PICK r : r = Kept(t, Keys(t) \ {IndirectKey(c)})
  OBVIOUS
<1>4. u = OneSeen(r, k)
  BY <1>0, <1>1, <1>3 DEF HeardFirst
<1>5. /\ k \in Keys(u) /\ u.age[k] = 0
      /\ \A l \in Keys(u) \ {k} : <<k, l>> \in u.newer
  BY <1>4, OneSeenFields
<1>6. k \in Fresh(u)
  BY <1>5 DEF Fresh
<1>7. k \in Keys(Prune(u))
  <2> SUFFICES ASSUME NEW m \in Fresh(u), Cardinality(Fresh(u)) > Limit,
                      Keys(Prune(u)) = Fresh(u) \ {m},
                      \A l \in Fresh(u) \ {m} : <<l, m>> \in u.newer, k = m
               PROVE  FALSE
    BY <1>2, <1>6, PruneFields
  <2>1. \A l \in Fresh(u) \ {k} : <<k, l>> \in u.newer /\ <<l, k>> \in u.newer
    BY <1>2, <1>5, TidyFields
  <2>2. \A l \in Fresh(u) : l = k
    BY <1>2, <1>5, <2>1, TidyFields
  <2>3. Fresh(u) = {k}
    BY <1>6, <2>2
  <2>4. Cardinality(Fresh(u)) = 1
    BY <2>3, FS_Singleton
  <2> QED
    BY <2>4
<1> QED
  BY <1>1, <1>2, <1>7 DEF Beacon

LEMMA OlderTidy ==
  ASSUME NEW t, Tidy(t)
  PROVE  /\ Tidy(Older(t)) /\ Keys(Older(t)) = Keys(t) /\ Older(t).newer = t.newer
         /\ \A k \in Keys(t) : Older(t).age[k] = IF k \in Fresh(t) THEN t.age[k] + 1
                                                ELSE t.age[k]
<1>0. PICK u : u = Older(t)
  OBVIOUS
<1>1. /\ Keys(u) = Keys(t) /\ u.newer = t.newer
      /\ u.age = [k \in Keys(t) |-> IF k \in Fresh(t) THEN t.age[k] + 1 ELSE t.age[k]]
  BY <1>0 DEF Older, Keys
<1>2. \A k \in Keys(t) : u.age[k] = IF k \in Fresh(t) THEN t.age[k] + 1 ELSE t.age[k]
  BY <1>1
<1>3. \A k \in Keys(t) : /\ t.age[k] \in 0..(EntryTTL + 1)
                         /\ k \in Fresh(t) <=> t.age[k] <= EntryTTL
  BY TidyFields DEF Fresh
<1>4. \A k \in Keys(t) : u.age[k] \in 0..(EntryTTL + 1)
  BY <1>2, <1>3
<1>5. u.age \in [Keys(u) -> 0..(EntryTTL + 1)]
  BY <1>1, <1>4
<1>6. \A k, l \in Keys(u) : <<k, l>> \in u.newer => u.age[k] <= u.age[l]
  <2> SUFFICES ASSUME NEW k \in Keys(t), NEW l \in Keys(t), <<k, l>> \in t.newer
               PROVE  u.age[k] <= u.age[l]
    BY <1>1
  <2>1. t.age[k] <= t.age[l]
    BY TidyFields
  <2> QED
    BY <1>2, <1>3, <2>1
<1>7. Tidy(u)
  BY <1>1, <1>5, <1>6 DEF Tidy
<1> QED
  BY <1>0, <1>1, <1>2, <1>7

-----------------------------------------------------------------------------
(* Operations of a table follow the stations heard directly *)

Trails(t, c, h) == Lists(t, c, h) \/ Lost(t, c, h)

Mark == [port : Port, age : 0..EntryTTL]

LEMMA PruneTrails ==
  ASSUME NEW t, Tidy(t), NEW c \in Call, NEW h \in Mark, Trails(t, c, h)
  PROVE  Trails(Prune(t), c, h)
<1>1. PICK u : u = Prune(t)
  OBVIOUS
<1>2. PICK k : k = DirectKey(c, h.port)
  OBVIOUS
<1>3. PICK F : F = Fresh(t)
  OBVIOUS
<1>4. /\ Tidy(u) /\ Keys(u) \subseteq F
      /\ \A l \in Keys(u) : u.age[l] = t.age[l]
      /\ \A l, m \in Keys(u) : <<l, m>> \in u.newer <=> <<l, m>> \in t.newer
      /\ \/ Keys(u) = F
         \/ \E d \in F : /\ Cardinality(F) > Limit
                         /\ Keys(u) = F \ {d}
                         /\ \A l \in F \ {d} : <<l, d>> \in t.newer
  BY <1>1, <1>3, PruneFields
<1>5. /\ F \subseteq Keys(t) /\ IsFiniteSet(F)
      /\ \A l \in Keys(t) : t.age[l] \in Nat /\ (l \in F <=> t.age[l] <= EntryTTL)
      /\ \A l, m \in Keys(t) : <<l, m>> \in t.newer => t.age[l] <= t.age[m]
      /\ \A l, m \in Keys(t) : ~(<<l, m>> \in t.newer /\ <<m, l>> \in t.newer)
  BY <1>3, TidyFields DEF Fresh
<1>6. h.age \in Nat /\ h.age <= EntryTTL
  BY DEF Mark
<1>7. /\ DirectKeys(u, c) = DirectKeys(t, c) \cap Keys(u)
      /\ DirectKeys(t, c) \subseteq Keys(t)
  BY <1>4, <1>5 DEF DirectKeys
<1>8. Young(u, h.age) = Young(t, h.age) \cap Keys(u) /\ Young(t, h.age) \subseteq F
  BY <1>4, <1>5, <1>6 DEF Young
<1>9. ASSUME NEW d \in F, Keys(u) = F \ {d}, Cardinality(F) > Limit, t.age[d] <= h.age,
             \A l \in F \ {d} : <<l, d>> \in t.newer
      PROVE  Cardinality(Young(u, h.age)) >= Limit
  <2>1. \A l \in F \ {d} : t.age[l] <= h.age
    <3> SUFFICES ASSUME NEW l \in F \ {d} PROVE t.age[l] <= h.age
      OBVIOUS
    <3>1. /\ t.age[l] <= t.age[d] /\ t.age[l] \in Nat /\ t.age[d] \in Nat
      BY <1>5, <1>9
    <3> QED
      BY <1>6, <1>9, <3>1
  <2>2. Young(u, h.age) = F \ {d}
    BY <1>5, <1>8, <1>9, <2>1 DEF Young
  <2>3. Cardinality(F \ {d}) = Cardinality(F) - 1 /\ Cardinality(F) \in Nat
    BY <1>5, FS_RemoveElement, FS_CardinalityType
  <2> QED
    BY <1>9, <2>2, <2>3
<1>10. CASE Lists(t, c, h)
  <2>1. /\ k \in Keys(t) /\ t.age[k] = h.age /\ k \in F
        /\ \A l \in DirectKeys(t, c) \ {k} : <<k, l>> \in t.newer
    BY <1>2, <1>5, <1>6, <1>10 DEF Lists
  <2>2. CASE k \in Keys(u)
    <3>1. u.age[k] = h.age
      BY <1>4, <2>1, <2>2
    <3>2. \A l \in DirectKeys(u, c) \ {k} : <<k, l>> \in u.newer
      BY <1>4, <1>7, <2>1, <2>2
    <3> QED
      BY <1>1, <1>2, <2>2, <3>1, <3>2 DEF Trails, Lists
  <2>3. CASE k \notin Keys(u)
    <3>1. /\ Keys(u) = F \ {k} /\ Cardinality(F) > Limit
          /\ \A l \in F \ {k} : <<l, k>> \in t.newer
      BY <1>4, <2>1, <2>3
    <3>2. DirectKeys(u, c) = {}
      BY <1>5, <1>7, <2>1, <3>1
    <3>3. Cardinality(Young(u, h.age)) >= Limit
      BY <1>6, <1>9, <2>1, <3>1
    <3> QED
      BY <1>1, <3>2, <3>3 DEF Trails, Lost
  <2> QED
    BY <2>2, <2>3
<1>11. CASE Lost(t, c, h)
  <2>1. DirectKeys(u, c) = {} /\ Cardinality(Young(t, h.age)) >= Limit
    BY <1>3, <1>4, <1>7, <1>11 DEF Lost
  <2>2. Cardinality(Young(u, h.age)) >= Limit
    <3>1. CASE Young(t, h.age) \subseteq Keys(u)
      <4>1. Young(u, h.age) = Young(t, h.age)
        BY <1>8, <3>1
      <4> QED
        BY <2>1, <4>1
    <3>2. CASE ~(Young(t, h.age) \subseteq Keys(u))
      <4>1. PICK d \in F : /\ Cardinality(F) > Limit /\ Keys(u) = F \ {d}
                           /\ \A l \in F \ {d} : <<l, d>> \in t.newer
        BY <1>4, <1>8, <3>2
      <4>2. d \in Young(t, h.age)
        BY <1>8, <3>2, <4>1
      <4>3. t.age[d] <= h.age
        BY <4>2 DEF Young
      <4> QED
        BY <1>9, <4>1, <4>3
    <3> QED
      BY <3>1, <3>2
  <2> QED
    BY <1>1, <2>1, <2>2 DEF Trails, Lost
<1> QED
  BY <1>10, <1>11 DEF Trails

\* A table whose entries of the station are as before, and no fewer young ones.
LEMMA CarriesTrails ==
  ASSUME NEW t, NEW u, NEW c \in Call,
         DirectKeys(u, c) = DirectKeys(t, c),
         \A k \in DirectKeys(t, c) : u.age[k] = t.age[k],
         \A k, l \in DirectKeys(t, c) : <<k, l>> \in t.newer => <<k, l>> \in u.newer,
         \A a \in Nat : Cardinality(Young(t, a)) >= Limit => Cardinality(Young(u, a)) >= Limit
  PROVE  /\ \A h \in Mark : Trails(t, c, h) => Trails(u, c, h)
         /\ DirectKeys(t, c) \cap Fresh(t) = {} => DirectKeys(u, c) \cap Fresh(u) = {}
<1>1. DirectKeys(u, c) \cap Fresh(u) = DirectKeys(t, c) \cap Fresh(t)
  BY DEF DirectKeys, Fresh
<1>2. ASSUME NEW h \in Mark, Lists(t, c, h) PROVE Lists(u, c, h)
  <2>1. PICK k : k = DirectKey(c, h.port)
    OBVIOUS
  <2>2. h.port \in Port
    BY DEF Mark
  <2>3. k.call = c /\ k.on # "indirect"
    BY <2>1, <2>2, KeyFields
  <2>4. /\ k \in Keys(t) /\ t.age[k] = h.age
        /\ \A l \in DirectKeys(t, c) \ {k} : <<k, l>> \in t.newer
    BY <1>2, <2>1 DEF Lists
  <2>5. k \in DirectKeys(t, c)
    BY <2>3, <2>4 DEF DirectKeys
  <2>6. k \in Keys(u)
    BY <2>5 DEF DirectKeys
  <2>7. u.age[k] = h.age /\ \A l \in DirectKeys(u, c) \ {k} : <<k, l>> \in u.newer
    BY <2>4, <2>5
  <2> QED
    BY <2>1, <2>6, <2>7 DEF Lists
<1>3. ASSUME NEW h \in Mark, Lost(t, c, h) PROVE Lost(u, c, h)
  <2>1. h.age \in Nat
    BY DEF Mark
  <2> QED
    BY <1>1, <1>3, <2>1 DEF Lost
<1> QED
  BY <1>1, <1>2, <1>3 DEF Trails

LEMMA PruneFollowed ==
  ASSUME NEW t, Tidy(t), NEW c \in Call, NEW H \in SUBSET Mark, Followed(t, c, H)
  PROVE  Followed(Prune(t), c, H)
<1>1. \A h \in H : Trails(Prune(t), c, h)
  BY PruneTrails DEF Followed, Trails
<1>2. DirectKeys(t, c) \cap Fresh(t) = {} => DirectKeys(Prune(t), c) = {}
  BY PruneFields DEF DirectKeys, Fresh
<1> QED
  BY <1>1, <1>2 DEF Followed, Trails

LEMMA HeardStation ==
  ASSUME NEW t, Tidy(t), NEW c \in Call \ Own, NEW p \in Port
  PROVE  Followed(HeardFirst(t, c, p), c, {[port |-> p, age |-> 0]})
<1>1. PICK u : u = HeardFirst(t, c, p)
  OBVIOUS
<1>2. PICK k : k = DirectKey(c, p)
  OBVIOUS
<1>3. PICK r : r = Kept(t, Keys(t) \ {IndirectKey(c)})
  OBVIOUS
<1>4. u = OneSeen(r, k)
  BY <1>1, <1>2, <1>3 DEF HeardFirst
<1>5. /\ Keys(u) = Keys(r) \cup {k}
      /\ \A l \in Keys(u) : u.age[l] = IF l = k THEN 0 ELSE r.age[l]
      /\ \A l \in Keys(r) \ {k} : <<k, l>> \in u.newer
  BY <1>4, OneSeenFields
<1>6. k \in Keys(u) /\ u.age[k] = 0 /\ \A l \in Keys(u) \ {k} : <<k, l>> \in u.newer
  BY <1>5
<1>7. DirectKeys(u, c) \subseteq Keys(u)
  BY DEF DirectKeys
<1>8. PICK h : h = [port |-> p, age |-> 0]
  OBVIOUS
<1>9. Lists(u, c, h)
  BY <1>2, <1>6, <1>7, <1>8 DEF Lists
<1> QED
  BY <1>1, <1>8, <1>9 DEF Followed

LEMMA HeardOthers ==
  ASSUME NEW t, Tidy(t), NEW c \in Call \ Own, NEW p \in Port,
         NEW d \in Call, d # c, NEW H \in SUBSET Mark, Followed(t, d, H)
  PROVE  Followed(HeardFirst(t, c, p), d, H)
<1>1. PICK u : u = HeardFirst(t, c, p)
  OBVIOUS
<1>2. PICK k : k = DirectKey(c, p)
  OBVIOUS
<1>3. PICK i : i = IndirectKey(c)
  OBVIOUS
<1>4. PICK r : r = Kept(t, Keys(t) \ {i})
  OBVIOUS
<1>5. u = OneSeen(r, k)
  BY <1>1, <1>2, <1>3, <1>4 DEF HeardFirst
<1>6. /\ Keys(r) = Keys(t) \ {i} /\ \A l \in Keys(r) : r.age[l] = t.age[l]
      /\ \A l, m \in Keys(r) : <<l, m>> \in r.newer <=> <<l, m>> \in t.newer
  BY <1>4, KeptTidy
<1>7. /\ Keys(u) = Keys(r) \cup {k}
      /\ \A l \in Keys(u) : u.age[l] = IF l = k THEN 0 ELSE r.age[l]
      /\ \A l, m \in Keys(r) \ {k} : <<l, m>> \in r.newer => <<l, m>> \in u.newer
  BY <1>5, OneSeenFields
<1>8. k.call = c /\ k.on # "indirect" /\ i.call = c /\ i.on = "indirect"
  BY <1>2, <1>3, KeyFields
<1>9. DirectKeys(u, d) = DirectKeys(t, d) /\ DirectKeys(t, d) \subseteq Keys(r) \ {k}
  BY <1>6, <1>7, <1>8 DEF DirectKeys
<1>10. \A l \in DirectKeys(t, d) : u.age[l] = t.age[l]
  BY <1>6, <1>7, <1>9
<1>11. \A l, m \in DirectKeys(t, d) : <<l, m>> \in t.newer => <<l, m>> \in u.newer
  BY <1>6, <1>7, <1>9
<1>12. ASSUME NEW a \in Nat, Cardinality(Young(t, a)) >= Limit
       PROVE  Cardinality(Young(u, a)) >= Limit
  <2>1. PICK Y : Y = Young(t, a)
    OBVIOUS
  <2>2. Young(u, a) = (Y \ {i}) \cup {k}
    BY <1>6, <1>7, <2>1 DEF Young
  <2>3. IsFiniteSet(Y) /\ Y \subseteq Keys(t)
    BY <2>1, TidyFields
  <2>4. k \in Y => i \notin Y
    BY <1>8, <2>3 DEF Tidy
  <2>5. CASE i \notin Y
    <3>1. Young(u, a) = Y \cup {k}
      BY <2>2, <2>5
    <3>2. Cardinality(Y) \in Nat /\ Cardinality(Y) >= Limit
      BY <1>12, <2>1, <2>3, FS_CardinalityType
    <3>3. Cardinality(Y \cup {k}) \in {Cardinality(Y), Cardinality(Y) + 1}
      BY <2>3, FS_AddElement
    <3> QED
      BY <3>1, <3>2, <3>3
  <2>6. CASE i \in Y
    <3>1. k \notin Y \ {i} /\ IsFiniteSet(Y \ {i})
          /\ Cardinality(Y \ {i}) = Cardinality(Y) - 1 /\ Cardinality(Y) \in Nat
      BY <2>3, <2>4, <2>6, FS_RemoveElement, FS_CardinalityType
    <3>2. Cardinality((Y \ {i}) \cup {k}) = Cardinality(Y \ {i}) + 1
      BY <3>1, FS_AddElement
    <3> QED
      BY <1>12, <2>1, <2>2, <3>1, <3>2
  <2> QED
    BY <2>5, <2>6
<1>13. /\ \A h \in Mark : Trails(t, d, h) => Trails(u, d, h)
       /\ DirectKeys(t, d) \cap Fresh(t) = {} => DirectKeys(u, d) \cap Fresh(u) = {}
  BY <1>9, <1>10, <1>11, <1>12, CarriesTrails
<1>14. Followed(u, d, H)
  BY <1>13 DEF Followed, Trails
<1> QED
  BY <1>1, <1>14

Indirect(S) == \A k \in S : k.on = "indirect"

\* Reports of stations not heard directly change nothing for those that are.
LEMMA IndirectFollowed ==
  ASSUME NEW t, Tidy(t), NEW new, Fits(t, new), NEW order \in Orders(new),
         Indirect(new),
         NEW d \in Call, NEW H \in SUBSET Mark, Followed(t, d, H)
  PROVE  Followed(Seen(t, new, order), d, H)
<1>1. PICK u : u = Seen(t, new, order)
  OBVIOUS
<1>2. PICK old : old = Keys(t) \ new
  OBVIOUS
<1>3. /\ Keys(u) = Keys(t) \cup new
      /\ \A k \in Keys(u) : u.age[k] = IF k \in new THEN 0 ELSE t.age[k]
      /\ u.newer = order \cup (new \X old) \cup (t.newer \cap (old \X old))
  <2>1. /\ u.age = [k \in old \cup new |-> IF k \in new THEN 0 ELSE t.age[k]]
        /\ u.newer = order \cup (new \X old) \cup (t.newer \cap (old \X old))
    BY <1>1, <1>2 DEF Seen
  <2>2. old \cup new = Keys(t) \cup new
    BY <1>2
  <2>3. Keys(u) = Keys(t) \cup new
    BY <2>1, <2>2 DEF Keys
  <2> QED
    BY <2>1, <2>2, <2>3
<1>4. DirectKeys(u, d) = DirectKeys(t, d) /\ DirectKeys(t, d) \subseteq old
  BY <1>2, <1>3 DEF DirectKeys, Indirect
<1>5. \A k \in DirectKeys(t, d) : u.age[k] = t.age[k]
  BY <1>2, <1>3, <1>4
<1>6. \A k, l \in DirectKeys(t, d) : <<k, l>> \in t.newer => <<k, l>> \in u.newer
  BY <1>3, <1>4
<1>7. ASSUME NEW a \in Nat, Cardinality(Young(t, a)) >= Limit
      PROVE  Cardinality(Young(u, a)) >= Limit
  <2>1. Young(t, a) \subseteq Young(u, a)
    BY <1>3 DEF Young
  <2>2. Tidy(u)
    BY <1>1, SeenTidy
  <2>3. IsFiniteSet(Young(u, a))
    BY <2>2, TidyFields
  <2>4. /\ Cardinality(Young(t, a)) <= Cardinality(Young(u, a))
        /\ Cardinality(Young(t, a)) \in Nat /\ Cardinality(Young(u, a)) \in Nat
    BY <2>1, <2>3, FS_Subset, FS_CardinalityType
  <2> QED
    BY <1>7, <2>4
<1>8. /\ \A h \in Mark : Trails(t, d, h) => Trails(u, d, h)
      /\ DirectKeys(t, d) \cap Fresh(t) = {} => DirectKeys(u, d) \cap Fresh(u) = {}
  BY <1>4, <1>5, <1>6, <1>7, CarriesTrails
<1>9. Followed(u, d, H)
  BY <1>8 DEF Followed, Trails
<1> QED
  BY <1>1, <1>9

LEMMA HeardViaFollowed ==
  ASSUME NEW t, Tidy(t), NEW c \in Call \ Own,
         NEW d \in Call, NEW H \in SUBSET Mark, Followed(t, d, H)
  PROVE  Followed(HeardVia(t, c), d, H)
<1>1. CASE DirectKeys(t, c) # {}
  BY <1>1, PruneFollowed DEF HeardVia
<1>2. CASE DirectKeys(t, c) = {}
  <2>1. PICK new : new = {IndirectKey(c)}
    OBVIOUS
  <2>2. Fits(t, new) /\ {} \in Orders(new) /\ Indirect(new)
    BY <1>2, <2>1, FS_Singleton, IndirectFits, IndirectFields, NoOrder DEF Indirect
  <2>3. Tidy(Seen(t, new, {})) /\ Followed(Seen(t, new, {}), d, H)
    BY <2>2, SeenTidy, IndirectFollowed
  <2>4. HeardVia(t, c) = Prune(Seen(t, new, {}))
    BY <1>2, <2>1 DEF HeardVia
  <2> QED
    BY <2>3, <2>4, PruneFollowed
<1> QED
  BY <1>1, <1>2

LEMMA ReportedFollowed ==
  ASSUME NEW t, Tidy(t), NEW calls \in SUBSET (Call \ Own), IsFiniteSet(calls),
         NEW u \in Reported(t, calls),
         NEW d \in Call, NEW H \in SUBSET Mark, Followed(t, d, H)
  PROVE  Followed(u, d, H)
<1>1. PICK new : new = Announces(t, calls)
  OBVIOUS
<1>2. PICK order \in Orders(new) : u = Prune(Seen(t, new, order))
  BY <1>1 DEF Reported, Announces
<1>3. Fits(t, new)
  BY <1>1, AnnouncesFits
<1>4. Indirect(new)
  BY <1>1, IndirectFields DEF Announces, Indirect
<1>5. Tidy(Seen(t, new, order)) /\ Followed(Seen(t, new, order), d, H)
  BY <1>3, <1>4, SeenTidy, IndirectFollowed
<1> QED
  BY <1>2, <1>5, PruneFollowed

LEMMA HeardFollowed ==
  ASSUME NEW t, Tidy(t), NEW c \in Call \ Own, NEW p \in Port
  PROVE  /\ Followed(Heard(t, c, p), c, {[port |-> p, age |-> 0]})
         /\ \A d \in Call \ {c} : \A H \in SUBSET Mark :
               Followed(t, d, H) => Followed(Heard(t, c, p), d, H)
<1>1. Heard(t, c, p) = Prune(HeardFirst(t, c, p)) /\ Tidy(HeardFirst(t, c, p))
  BY HeardFits DEF Heard, HeardFirst, OneSeen
<1>2. {[port |-> p, age |-> 0]} \in SUBSET Mark
  BY DEF Mark
<1>3. Followed(Heard(t, c, p), c, {[port |-> p, age |-> 0]})
  BY <1>1, <1>2, HeardStation, PruneFollowed
<1>4. ASSUME NEW d \in Call \ {c}, NEW H \in SUBSET Mark, Followed(t, d, H)
      PROVE  Followed(Heard(t, c, p), d, H)
  BY <1>1, <1>4, HeardOthers, PruneFollowed
<1> QED
  BY <1>3, <1>4

\* The history of one station after a tick.
Aged(H) == {[port |-> h.port, age |-> h.age + 1] : h \in {g \in H : g.age < EntryTTL}}

LEMMA OlderFollowed ==
  ASSUME NEW t, Tidy(t), NEW c \in Call, NEW H \in SUBSET Mark, Followed(t, c, H)
  PROVE  Followed(Older(t), c, Aged(H))
<1>1. PICK u : u = Older(t)
  OBVIOUS
<1>2. /\ Keys(u) = Keys(t) /\ u.newer = t.newer /\ Tidy(u)
      /\ \A k \in Keys(t) : u.age[k] = IF k \in Fresh(t) THEN t.age[k] + 1 ELSE t.age[k]
  BY <1>1, OlderTidy
<1>3. DirectKeys(u, c) = DirectKeys(t, c) /\ DirectKeys(t, c) \subseteq Keys(t)
  BY <1>2 DEF DirectKeys
<1>4. \A k \in Keys(t) : /\ t.age[k] \in Nat
                         /\ k \in Fresh(t) <=> t.age[k] <= EntryTTL
                         /\ k \in Fresh(u) <=> u.age[k] <= EntryTTL
  BY <1>2, TidyFields DEF Fresh
<1>5. \A k \in Keys(t) : k \in Fresh(u) <=> t.age[k] < EntryTTL
  <2> SUFFICES ASSUME NEW k \in Keys(t) PROVE k \in Fresh(u) <=> t.age[k] < EntryTTL
    OBVIOUS
  <2> QED
    BY <1>2, <1>4
<1>6. Fresh(u) \subseteq Fresh(t)
  BY <1>2, <1>4, <1>5 DEF Fresh
<1>7. ASSUME NEW h \in H, h.age < EntryTTL
      PROVE  Trails(u, c, [port |-> h.port, age |-> h.age + 1])
  <2>1. PICK g : g = [port |-> h.port, age |-> h.age + 1]
    OBVIOUS
  <2>2. g.port = h.port /\ g.age = h.age + 1 /\ h.age \in Nat
    BY <2>1 DEF Mark
  <2>3. CASE Lists(t, c, h)
    <3>1. PICK k : k = DirectKey(c, h.port)
      OBVIOUS
    <3>2. /\ k \in Keys(t) /\ t.age[k] = h.age
          /\ \A l \in DirectKeys(t, c) \ {k} : <<k, l>> \in t.newer
      BY <2>3, <3>1 DEF Lists
    <3>3. k \in Fresh(t)
      BY <1>4, <1>7, <2>2, <3>2
    <3>4. k \in Keys(u) /\ u.age[k] = g.age
      BY <1>2, <2>2, <3>2, <3>3
    <3>5. \A l \in DirectKeys(u, c) \ {k} : <<k, l>> \in u.newer
      BY <1>2, <1>3, <3>2
    <3> QED
      BY <2>1, <2>2, <3>1, <3>4, <3>5 DEF Trails, Lists
  <2>4. CASE Lost(t, c, h)
    <3>1. Young(t, h.age) \subseteq Young(u, g.age)
      <4> SUFFICES ASSUME NEW k \in Keys(t), t.age[k] <= h.age
                   PROVE  k \in Keys(u) /\ u.age[k] <= g.age
        BY DEF Young
      <4> QED
        BY <1>2, <1>4, <2>2
    <3>2. IsFiniteSet(Young(u, g.age))
      BY <1>2, TidyFields
    <3>3. /\ Cardinality(Young(t, h.age)) <= Cardinality(Young(u, g.age))
          /\ Cardinality(Young(t, h.age)) \in Nat /\ Cardinality(Young(u, g.age)) \in Nat
      BY <3>1, <3>2, FS_Subset, FS_CardinalityType
    <3>4. Cardinality(Young(u, g.age)) >= Limit
      BY <2>4, <3>3 DEF Lost
    <3>5. DirectKeys(u, c) \cap Fresh(u) = {}
      BY <1>3, <1>6, <2>4 DEF Lost
    <3> QED
      BY <2>1, <3>4, <3>5 DEF Trails, Lost
  <2> QED
    BY <2>3, <2>4 DEF Followed
<1>8. ASSUME Aged(H) = {} PROVE DirectKeys(u, c) \cap Fresh(u) = {}
  <2>1. CASE H = {}
    BY <1>3, <1>6, <2>1 DEF Followed
  <2>2. ASSUME NEW h \in H PROVE DirectKeys(u, c) \cap Fresh(u) = {}
    <3>1. ~(h.age < EntryTTL)
      BY <1>8 DEF Aged
    <3>2. h.age = EntryTTL
      BY <3>1 DEF Mark
    <3>3. CASE Lists(t, c, h)
      <4>1. PICK k : k = DirectKey(c, h.port)
        OBVIOUS
      <4>2. /\ k \in Keys(t) /\ t.age[k] = EntryTTL
            /\ \A l \in DirectKeys(t, c) \ {k} : <<k, l>> \in t.newer
        BY <3>2, <3>3, <4>1 DEF Lists
      <4>3. \A l \in DirectKeys(t, c) \ {k} : t.age[k] <= t.age[l]
        BY <1>3, <4>2, TidyFields
      <4>4. \A l \in DirectKeys(t, c) : ~(t.age[l] < EntryTTL)
        <5> SUFFICES ASSUME NEW l \in DirectKeys(t, c) PROVE ~(t.age[l] < EntryTTL)
          OBVIOUS
        <5>1. t.age[l] \in Nat /\ t.age[k] <= t.age[l]
          BY <1>3, <1>4, <4>2, <4>3
        <5> QED
          BY <4>2, <5>1
      <4> QED
        BY <1>3, <1>5, <4>4
    <3>4. CASE Lost(t, c, h)
      BY <1>3, <1>6, <3>4 DEF Lost
    <3> QED
      BY <3>3, <3>4 DEF Followed
  <2> QED
    BY <2>1, <2>2
<1>9. Followed(u, c, Aged(H))
  <2>1. \A g \in Aged(H) : Trails(u, c, g)
    BY <1>7 DEF Aged
  <2> QED
    BY <1>8, <2>1 DEF Followed, Trails
<1> QED
  BY <1>1, <1>9

\* The port a pruned table names.
LEMMA PortIsFollowed ==
  ASSUME NEW t, Tidy(t), Keys(t) \subseteq Fresh(t),
         NEW c \in Call, NEW H \in SUBSET Mark, Followed(t, c, H)
  PROVE  /\ H = {} => DirectPort(t, c) = {}
         /\ \A h \in H : DirectPort(t, c) = {h.port} \/ Cardinality(Keys(t)) >= Limit
         /\ \A h \in H : DirectPort(t, c) \subseteq {h.port}
<1>1. DirectKeys(t, c) \subseteq Fresh(t) /\ DirectKeys(t, c) \subseteq Keys(t)
  BY DEF DirectKeys
<1>2. DirectKeys(t, c) = {} => DirectPort(t, c) = {}
  BY DEF DirectPort, Newest
<1>3. ASSUME NEW h \in H, Lists(t, c, h) PROVE DirectPort(t, c) = {h.port}
  <2>1. PICK k : k = DirectKey(c, h.port)
    OBVIOUS
  <2>2. h.port \in Port
    BY DEF Mark
  <2>3. k.call = c /\ k.on = h.port /\ k.on # "indirect"
    BY <2>1, <2>2, KeyFields
  <2>4. k \in Keys(t) /\ \A l \in DirectKeys(t, c) \ {k} : <<k, l>> \in t.newer
    BY <1>3, <2>1 DEF Lists
  <2>5. k \in DirectKeys(t, c)
    BY <2>3, <2>4 DEF DirectKeys
  <2>6. \A l \in DirectKeys(t, c) \ {k} : <<l, k>> \notin t.newer
    BY <1>1, <2>4, <2>5, TidyFields
  <2>7. Newest(t, DirectKeys(t, c)) = {k}
    BY <2>4, <2>5, <2>6 DEF Newest
  <2> QED
    BY <2>3, <2>7 DEF DirectPort
<1>4. ASSUME NEW h \in H, Lost(t, c, h)
      PROVE  DirectPort(t, c) = {} /\ Cardinality(Keys(t)) >= Limit
  <2>1. DirectPort(t, c) = {}
    BY <1>1, <1>2, <1>4 DEF Lost
  <2>2. Young(t, h.age) \subseteq Keys(t) /\ IsFiniteSet(Keys(t))
    BY TidyFields
  <2>3. /\ Cardinality(Young(t, h.age)) <= Cardinality(Keys(t))
        /\ Cardinality(Young(t, h.age)) \in Nat /\ Cardinality(Keys(t)) \in Nat
    BY <2>2, FS_Subset, FS_CardinalityType
  <2> QED
    BY <1>4, <2>1, <2>3 DEF Lost
<1> QED
  BY <1>1, <1>2, <1>3, <1>4 DEF Followed

-----------------------------------------------------------------------------
(* The dispatcher *)

LEMMA PruneIsFresh == ASSUME NEW t, Tidy(t) PROVE Keys(Prune(t)) \subseteq Fresh(Prune(t))
BY PruneFields DEF Fresh

LEMMA FrameFields ==
  ASSUME NEW f \in RxFrames
  PROVE  /\ f.src \in Call /\ f.dst \in Call \cup {BeaconCall}
         /\ Strangers(f.calls) \in SUBSET (Call \ Own) /\ IsFiniteSet(Strangers(f.calls))
         /\ Repeated(f).dst = f.dst
<1>1. f \in Frame
  BY FramesAssumption
<1>2. f.src \in Call /\ f.dst \in Call \cup {BeaconCall} /\ f.calls \in BeaconCalls
  BY <1>1 DEF Frame
<1>3. f.calls \in SUBSET Call /\ IsFiniteSet(f.calls)
  BY <1>2 DEF BeaconCalls
<1>4. Strangers(f.calls) \subseteq f.calls /\ Strangers(f.calls) \cap Own = {}
  BY DEF Strangers
<1>5. IsFiniteSet(Strangers(f.calls))
  BY <1>3, <1>4, FS_Subset
<1>6. Repeated(f).dst = f.dst
  BY <1>1 DEF Repeated, Frame
<1> QED
  BY <1>2, <1>3, <1>4, <1>5, <1>6

\* The history after a frame.
Marks(p, f) == IF f.src \notin Own /\ DirectlyHeard(f)
               THEN [heardOn EXCEPT ![f.src] = {[port |-> p, age |-> 0]}]
               ELSE heardOn

Follows(t, on) ==
    /\ Tidy(t)
    /\ on \in [Call -> SUBSET Mark]
    /\ \A c \in Call : Followed(t, c, on[c])

\* What MHEARD makes of a frame follows the stations.
LEMMA ObservedFollows ==
  ASSUME Follows(table, heardOn), NEW p \in Enabled, NEW f \in RxFrames,
         NEW t \in Observed(table, p, f)
  PROVE  Follows(t, Marks(p, f))
<1>1. /\ Tidy(table) /\ heardOn \in [Call -> SUBSET Mark]
      /\ \A c \in Call : heardOn[c] \in SUBSET Mark /\ Followed(table, c, heardOn[c])
  BY DEF Follows
<1>2. PICK s : s = f.src
  OBVIOUS
<1>3. s \in Call /\ p \in Port
  BY <1>2, FrameFields
<1>4. CASE s \in Own
  <2>1. t = table /\ Marks(p, f) = heardOn
    BY <1>2, <1>4 DEF Observed, Marks
  <2> QED
    BY <2>1
<1>5. CASE s \notin Own /\ ~DirectlyHeard(f)
  <2>1. t = HeardVia(table, s) /\ Marks(p, f) = heardOn
    BY <1>2, <1>5 DEF Observed, Marks
  <2>2. Tidy(t) /\ \A c \in Call : Followed(t, c, heardOn[c])
    BY <1>1, <1>3, <1>5, <2>1, HeardViaTidy, HeardViaFollowed
  <2> QED
    BY <1>1, <2>1, <2>2 DEF Follows
<1>6. CASE s \notin Own /\ DirectlyHeard(f)
  <2>1. PICK on : on = Marks(p, f)
    OBVIOUS
  <2>2. PICK H : H = {[port |-> p, age |-> 0]}
    OBVIOUS
  <2>3. H \in SUBSET Mark
    BY <1>3, <2>2 DEF Mark
  <2>4. on = [heardOn EXCEPT ![s] = H]
    BY <1>2, <1>6, <2>1, <2>2 DEF Marks
  <2>5. on \in [Call -> SUBSET Mark] /\ on[s] = H /\ \A c \in Call \ {s} : on[c] = heardOn[c]
    BY <1>1, <1>3, <2>3, <2>4
  <2>6. PICK u : u = Heard(table, s, p)
    OBVIOUS
  <2>7. Tidy(u) /\ \A c \in Call : Followed(u, c, on[c])
    <3>1. Tidy(u)
      BY <1>1, <1>3, <1>6, <2>6, HeardTidy
    <3>2. Followed(u, s, on[s])
      BY <1>1, <1>3, <1>6, <2>2, <2>5, <2>6, HeardFollowed
    <3>3. ASSUME NEW c \in Call \ {s} PROVE Followed(u, c, on[c])
      BY <1>1, <1>3, <1>6, <2>5, <2>6, HeardFollowed
    <3> QED
      BY <3>1, <3>2, <3>3
  <2>8. CASE ~IsBeacon(f)
    <3>1. t = u
      BY <1>2, <1>6, <2>6, <2>8 DEF Observed
    <3> QED
      BY <2>1, <2>5, <2>7, <3>1 DEF Follows
  <2>9. CASE IsBeacon(f)
    <3>1. PICK b : b = Beacon(u, s, p)
      OBVIOUS
    <3>2. b = Prune(u)
      BY <1>1, <1>3, <1>6, <2>6, <3>1, HeardIsListed
    <3>3. Tidy(b) /\ \A c \in Call : Followed(b, c, on[c])
      BY <2>5, <2>7, <3>2, PruneFields, PruneFollowed
    <3>4. t \in Reported(b, Strangers(f.calls))
      BY <1>2, <1>6, <2>6, <2>9, <3>1 DEF Observed
    <3>5. PICK calls \in SUBSET (Call \ Own) : IsFiniteSet(calls) /\ t \in Reported(b, calls)
      BY <3>4, FrameFields
    <3>6. Tidy(t)
      BY <3>3, <3>5, ReportedTidy
    <3>7. \A c \in Call : Followed(t, c, on[c])
      BY <2>5, <3>3, <3>5, ReportedFollowed
    <3> QED
      BY <2>1, <2>5, <3>6, <3>7 DEF Follows
  <2> QED
    BY <2>8, <2>9
<1> QED
  BY <1>4, <1>5, <1>6

LEMMA PruneFollows ==
  ASSUME NEW t, NEW on, Follows(t, on)
  PROVE  Follows(Prune(t), on)
<1>1. /\ Tidy(t) /\ on \in [Call -> SUBSET Mark]
      /\ \A c \in Call : on[c] \in SUBSET Mark /\ Followed(t, c, on[c])
  BY DEF Follows
<1> QED
  BY <1>1, PruneFields, PruneFollowed DEF Follows

\* The inductive invariant.
IRoute ==
    /\ Follows(table, heardOn)
    /\ \A c \in Call : \A g, h \in heardOn[c] : g = h
    /\ seen \subseteq RxFrames /\ up \subseteq Enabled

LEMMA InitRoute == Init => IRoute
<1> SUFFICES ASSUME Init PROVE IRoute
  OBVIOUS
<1>1. Keys(table) = {} /\ table.newer = {} /\ table.age = [k \in {} |-> 0]
  BY DEF Init, EmptyTable, Keys
<1>2. Tidy(table)
  BY <1>1, NoOrder, FS_EmptySet DEF Tidy
<1>3. \A c \in Call : heardOn[c] = {} /\ DirectKeys(table, c) = {}
  BY <1>1 DEF Init, DirectKeys
<1>4. heardOn \in [Call -> SUBSET Mark]
  BY DEF Init
<1>5. seen \subseteq RxFrames /\ up \subseteq Enabled
  BY DEF Init
<1> QED
  BY <1>2, <1>3, <1>4, <1>5 DEF IRoute, Follows, Followed

LEMMA RememberedMarks ==
  ASSUME IRoute, NEW p \in Enabled, NEW f \in RxFrames, Remembered(p, f)
  PROVE  heardOn' = Marks(p, f) /\ \A c \in Call : \A g, h \in heardOn'[c] : g = h
<1>1. heardOn' = Marks(p, f)
  BY DEF Remembered, Marks
<1>2. heardOn \in [Call -> SUBSET Mark] /\ \A c \in Call : \A g, h \in heardOn[c] : g = h
  BY DEF IRoute, Follows
<1>3. CASE f.src \notin Own /\ DirectlyHeard(f)
  <2>1. PICK H : H = {[port |-> p, age |-> 0]}
    OBVIOUS
  <2>2. heardOn' = [heardOn EXCEPT ![f.src] = H]
    BY <1>1, <1>3, <2>1 DEF Marks
  <2>3. \A c \in Call : heardOn'[c] = H \/ heardOn'[c] = heardOn[c]
    BY <1>2, <2>2
  <2>4. \A g, h \in H : g = h
    BY <2>1
  <2> QED
    BY <1>1, <1>2, <2>3, <2>4
<1>4. CASE ~(f.src \notin Own /\ DirectlyHeard(f))
  BY <1>1, <1>2, <1>4 DEF Marks
<1> QED
  BY <1>3, <1>4

LEMMA TickRoute == IRoute /\ Tick => IRoute'
<1> SUFFICES ASSUME IRoute, Tick PROVE IRoute'
  OBVIOUS
<1>1. /\ Tidy(table) /\ heardOn \in [Call -> SUBSET Mark]
      /\ \A c \in Call : heardOn[c] \in SUBSET Mark /\ Followed(table, c, heardOn[c])
      /\ \A c \in Call : \A g, h \in heardOn[c] : g = h
  BY DEF IRoute, Follows
<1>2. /\ heardOn' = [c \in Call |-> Aged(heardOn[c])]
      /\ table' = Older(table) /\ seen' = {} /\ up' = up
  BY DEF Tick, Aged
<1>3. \A c \in Call : heardOn'[c] = Aged(heardOn[c])
  BY <1>2
<1>4. \A c \in Call : Aged(heardOn[c]) \in SUBSET Mark
  <2> SUFFICES ASSUME NEW c \in Call, NEW h \in heardOn[c], h.age < EntryTTL
               PROVE  [port |-> h.port, age |-> h.age + 1] \in Mark
    BY DEF Aged
  <2>1. h \in Mark
    BY <1>1
  <2> QED
    BY <2>1 DEF Mark
<1>5. Tidy(table')
  BY <1>1, <1>2, OlderTidy
<1>6. \A c \in Call : Followed(table', c, heardOn'[c])
  BY <1>1, <1>2, <1>3, OlderFollowed
<1>7. heardOn' \in [Call -> SUBSET Mark]
  BY <1>2, <1>4
<1>8. \A c \in Call : \A g, h \in heardOn'[c] : g = h
  BY <1>1, <1>3 DEF Aged
<1> QED
  BY <1>2, <1>5, <1>6, <1>7, <1>8 DEF IRoute, Follows

LEMMA DigipeatRoute ==
  ASSUME IRoute, NEW p \in Enabled, NEW f \in RxFrames, Digipeat(p, f)
  PROVE  IRoute' /\ Keys(table') \subseteq Fresh(table')
<1>1. PICK t \in Observed(table, p, f) : table' = Prune(t)
  BY DEF Digipeat
<1>2. /\ heardOn' = Marks(p, f) /\ \A c \in Call : \A g, h \in heardOn'[c] : g = h
  BY RememberedMarks DEF Digipeat
<1>3. Follows(t, Marks(p, f))
  BY ObservedFollows DEF IRoute
<1>4. Follows(table', heardOn') /\ Tidy(t)
  BY <1>1, <1>2, <1>3, PruneFollows DEF Follows
<1>5. seen' \subseteq RxFrames /\ up' \subseteq Enabled
  BY DEF Digipeat, IRoute
<1>6. Keys(table') \subseteq Fresh(table')
  BY <1>1, <1>4, PruneIsFresh
<1> QED
  BY <1>2, <1>4, <1>5, <1>6 DEF IRoute, Follows

LEMMA NextRoute == IRoute /\ [Next]_vars => IRoute'
<1> SUFFICES ASSUME IRoute, [Next]_vars PROVE IRoute'
  OBVIOUS
<1>1. CASE Round
  <2>1. PICK p \in Enabled, f \in RxFrames : Digipeat(p, f) \/ HandOver(p, f)
    BY <1>1 DEF Round
  <2>2. CASE HandOver(p, f)
    <3>1. table' \in Observed(table, p, f) /\ seen' = seen /\ up' = up /\ Remembered(p, f)
      BY <2>2 DEF HandOver
    <3>2. /\ heardOn' = Marks(p, f) /\ \A c \in Call : \A g, h \in heardOn'[c] : g = h
      BY <3>1, RememberedMarks
    <3>3. Follows(table', Marks(p, f))
      BY <3>1, ObservedFollows DEF IRoute
    <3> QED
      BY <3>1, <3>2, <3>3 DEF IRoute, Follows
  <2> QED
    BY <2>1, <2>2, DigipeatRoute
<1>2. ASSUME NEW f \in RxFrames, WindowEnds(f) PROVE IRoute'
  BY <1>2 DEF WindowEnds, IRoute, Follows
<1>3. CASE Tick
  BY <1>3, TickRoute
<1>4. CASE BeaconSchedule
  <2>1. table' = Prune(table) /\ UNCHANGED <<seen, up, heardOn>>
    BY <1>4 DEF BeaconSchedule, SendBeacon
  <2>2. Follows(table', heardOn)
    BY <2>1, PruneFollows DEF IRoute
  <2> QED
    BY <2>1, <2>2 DEF IRoute, Follows
<1>5. ASSUME NEW p \in Enabled, PortChanges(p) PROVE IRoute'
  BY <1>5 DEF PortChanges, IRoute, Follows
<1>6. CASE UNCHANGED vars
  BY <1>6 DEF vars, IRoute, Follows
<1> QED
  BY <1>1, <1>2, <1>3, <1>4, <1>5, <1>6 DEF Next

-----------------------------------------------------------------------------
\* The table of heard stations is in order: it lists a station as heard directly
\* or as reported and never as both, none of our own, and the order of its
\* entries is one of their ages.
THEOREM TypeCorrect == Spec => []TypeOK
<1>1. IRoute => TypeOK
  BY DEF IRoute, Follows, Tidy, TypeOK
<1> QED
  BY <1>1, InitRoute, NextRoute, PTL DEF Spec

\* The port the table names for a station is the one of the last frame heard from
\* it directly, and there was one within the life of an entry.
THEOREM RepliesFollow == Spec => []RouteIsHeard
<1>1. IRoute => RouteIsHeard
  <2> SUFFICES ASSUME IRoute, NEW c \in Call
               PROVE  DirectPort(Prune(table), c) \subseteq {h.port : h \in heardOn[c]}
    BY DEF RouteIsHeard
  <2>1. PICK u : u = Prune(table)
    OBVIOUS
  <2>2. Follows(u, heardOn) /\ Keys(u) \subseteq Fresh(u)
    BY <2>1, PruneFollows, PruneIsFresh DEF IRoute, Follows
  <2>3. Tidy(u) /\ heardOn[c] \in SUBSET Mark /\ Followed(u, c, heardOn[c])
    BY <2>2 DEF Follows
  <2>4. CASE heardOn[c] = {}
    BY <2>1, <2>2, <2>3, <2>4, PortIsFollowed
  <2>5. ASSUME NEW h \in heardOn[c]
        PROVE  DirectPort(u, c) \subseteq {g.port : g \in heardOn[c]}
    <3>1. DirectPort(u, c) \subseteq {h.port}
      BY <2>2, <2>3, PortIsFollowed
    <3> QED
      BY <3>1
  <2> QED
    BY <2>1, <2>4, <2>5
<1> QED
  BY <1>1, InitRoute, NextRoute, PTL DEF Spec

LEMMA DigipeatAnswers ==
  ASSUME IRoute, NEW p \in Enabled, NEW f \in RxFrames, Digipeat(p, f)
  PROVE  AnswerTakesOnePort'
<1>1. IRoute' /\ Keys(table') \subseteq Fresh(table')
  BY DigipeatRoute
<1>2. SUFFICES ASSUME NEW out \in tx', out.frame.dst # BeaconCall,
                      NEW h \in heardOn'[out.frame.dst], h.port \in up',
                      ~(Cardinality(Keys(table')) >= Limit)
               PROVE  out.ports = {h.port}
  BY DEF AnswerTakesOnePort
<1>3. PICK accepted \in SUBSET OutputPorts(table', f.dst) :
        accepted # {} /\ out = [ports |-> accepted, frame |-> Repeated(f)]
  BY DEF Digipeat, Transmitted
<1>4. PICK c : c = f.dst
  OBVIOUS
<1>5. out.ports = accepted /\ out.frame.dst = c /\ c \in Call
  BY <1>2, <1>3, <1>4, FrameFields
<1>6. /\ Tidy(table') /\ heardOn'[c] \in SUBSET Mark /\ Followed(table', c, heardOn'[c])
  BY <1>1, <1>5 DEF IRoute, Follows
<1>7. h \in heardOn'[c]
  BY <1>5
<1>8. DirectPort(table', c) = {h.port}
  BY <1>1, <1>2, <1>5, <1>6, <1>7, PortIsFollowed
<1>9. h.port \in Enabled \cap up /\ up' = up
  BY <1>1, <1>2 DEF Digipeat, IRoute
<1>10. OutputPorts(table', c) = {h.port}
  BY <1>8, <1>9 DEF OutputPorts
<1> QED
  BY <1>3, <1>4, <1>5, <1>10

\* What is repeated to a station heard directly goes to its port alone while that
\* port works, unless the table is at its limit.
THEOREM OnePortAnswers == Spec => []AnswerTakesOnePort
<1>1. Init => AnswerTakesOnePort
  BY DEF Init, AnswerTakesOnePort
<1>2. IRoute /\ AnswerTakesOnePort /\ [Next]_vars => AnswerTakesOnePort'
  <2> SUFFICES ASSUME IRoute, AnswerTakesOnePort, [Next]_vars PROVE AnswerTakesOnePort'
    OBVIOUS
  <2>1. CASE Round
    <3>1. PICK p \in Enabled, f \in RxFrames : Digipeat(p, f) \/ HandOver(p, f)
      BY <2>1 DEF Round
    <3>2. CASE HandOver(p, f)
      BY <3>2 DEF HandOver, AnswerTakesOnePort
    <3> QED
      BY <3>1, <3>2, DigipeatAnswers
  <2>2. ASSUME NEW f \in RxFrames, WindowEnds(f) PROVE AnswerTakesOnePort'
    BY <2>2 DEF WindowEnds, AnswerTakesOnePort
  <2>3. CASE Tick
    BY <2>3 DEF Tick, AnswerTakesOnePort
  <2>4. CASE BeaconSchedule
    <3>1. PICK source \in Own : SendBeacon(source)
      BY <2>4 DEF BeaconSchedule
    <3>2. \A out \in tx' : out.frame.dst = BeaconCall
      BY <3>1 DEF SendBeacon, Transmitted
    <3> QED
      BY <3>2 DEF AnswerTakesOnePort
  <2>5. ASSUME NEW p \in Enabled, PortChanges(p) PROVE AnswerTakesOnePort'
    BY <2>5 DEF PortChanges, AnswerTakesOnePort
  <2>6. CASE UNCHANGED vars
    BY <2>6 DEF vars, AnswerTakesOnePort
  <2> QED
    BY <2>1, <2>2, <2>3, <2>4, <2>5, <2>6 DEF Next
<1> QED
  BY <1>1, <1>2, InitRoute, NextRoute, PTL DEF Spec
=============================================================================
