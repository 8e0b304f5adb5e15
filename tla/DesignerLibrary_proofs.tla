----------------------- MODULE DesignerLibrary_proofs -----------------------
(***************************************************************************)
(* The designer's library in any number of browsers, with any number of    *)
(* edits and faults: unsaved changes are due, an unreadable copy of the    *)
(* panel stays, and, but for what is made during a save, "saved" is true   *)
(* and an edit survives everything but a reload its browser did not        *)
(* prepare for.                                                            *)
(***************************************************************************)
EXTENDS DesignerLibrary, TLAPS

Version == [at : Nat, rev : Nat, data : Nat, dead : BOOLEAN]
Library == UNION {[S -> Version] : S \in SUBSET Ids}
Copy    == [text : {"none", "library", "unreadable"}, items : Library]

Typed ==
  /\ server \in Copy
  /\ lib \in [Tabs -> Library] /\ out \in [Tabs -> Library] /\ reply \in [Tabs -> Copy]
  /\ cache \in [Tabs -> [lib : Library, dirty : BOOLEAN]]
  /\ dirty \in [Tabs -> BOOLEAN] /\ timer \in [Tabs -> BOOLEAN] /\ queue \in [Tabs -> Nat]
  /\ status \in [Tabs -> {"saved", "saving", "offline"}]
  /\ phase \in [Tabs -> {"idle", "asked", "told", "posted", "stored"}]
  /\ now \in Nat /\ edits \in Nat /\ faults \in Nat
  /\ made \in [Tabs -> [Ids -> Version \cup {None}]]
  /\ kept \in [Tabs -> [Ids -> Version \cup {None}]]
  /\ late \in [Tabs -> SUBSET (Ids \X Version)] /\ refusals \in Nat
  /\ stored \subseteq Ids \X Version

---------------------------------------------------------------------------
(* Libraries *)

LEMMA LibraryFields ==
  ASSUME NEW l \in Library
  PROVE  /\ DOMAIN l \subseteq Ids /\ l \in [DOMAIN l -> Version]
         /\ \A i \in DOMAIN l : /\ l[i] \in Version /\ l[i].at \in Nat /\ l[i].rev \in Nat
                                /\ l[i].data \in Nat /\ l[i].dead \in BOOLEAN
<1>1. PICK S \in SUBSET Ids : l \in [S -> Version]
  BY DEF Library
<1>2. DOMAIN l = S
  BY <1>1
<1>3. \A v \in Version : v.at \in Nat /\ v.rev \in Nat /\ v.data \in Nat /\ v.dead \in BOOLEAN
  BY DEF Version
<1> QED BY <1>1, <1>2, <1>3

LEMMA IsLibrary ==
  ASSUME NEW S \in SUBSET Ids, NEW f \in [S -> Version]
  PROVE  f \in Library
BY DEF Library

LEMMA EmptyLibrary == Nothing \in Library /\ DOMAIN Nothing = {}
<1>1. Nothing \in [{} -> Version] /\ DOMAIN Nothing = {}
  BY DEF Nothing
<1> QED BY <1>1, IsLibrary

\* A merge has nothing that is in neither copy, and for each id it keeps a
\* version that is not older than the local one, unless that has expired.
LEMMA MergeParts ==
  ASSUME NEW local \in Library, NEW remote \in Library, now \in Nat
  PROVE  /\ Merge(local, remote) \in Library
         /\ \A i \in DOMAIN Merge(local, remote) :
              \/ i \in DOMAIN local /\ Merge(local, remote)[i] = local[i]
              \/ i \in DOMAIN remote /\ Merge(local, remote)[i] = remote[i]
         /\ \A i \in DOMAIN local :
              \E v \in Version :
                /\ v = local[i] \/ (i \in DOMAIN remote /\ v = remote[i])
                /\ ~Newer(local[i], v)
                /\ \/ i \in DOMAIN Merge(local, remote) /\ Merge(local, remote)[i] = v
                   \/ Expired(v)
<1> DEFINE all  == DOMAIN local \cup DOMAIN remote
           mine == {i \in DOMAIN local : i \notin DOMAIN remote \/ Newer(local[i], remote[i])}
           pick == [i \in all |-> IF i \in mine THEN local[i] ELSE remote[i]]
           unexpired == {i \in all : ~Expired(pick[i])}
<1>1. Merge(local, remote) = [i \in unexpired |-> pick[i]]
  BY DEF Merge, Restrict
<1>2. /\ all \subseteq Ids
      /\ \A i \in DOMAIN local : local[i] \in Version /\ local[i].at \in Nat /\ local[i].rev \in Nat
      /\ \A i \in DOMAIN remote : remote[i] \in Version /\ remote[i].at \in Nat /\ remote[i].rev \in Nat
  BY LibraryFields
<1>3. \A i \in all : /\ pick[i] \in Version
                     /\ \/ i \in DOMAIN local /\ pick[i] = local[i]
                        \/ i \in DOMAIN remote /\ pick[i] = remote[i]
  BY <1>2
<1>4. \A i \in DOMAIN local : ~Newer(local[i], pick[i])
  <2> TAKE i \in DOMAIN local
  <2>1. ~Newer(local[i], local[i])
    BY <1>2 DEF Newer
  <2>2. i \notin mine => i \in DOMAIN remote /\ ~Newer(local[i], remote[i])
    OBVIOUS
  <2>3. pick[i] = IF i \in mine THEN local[i] ELSE remote[i]
    OBVIOUS
  <2> QED BY <2>1, <2>2, <2>3
<1> HIDE DEF pick
<1>5. [i \in unexpired |-> pick[i]] \in [unexpired -> Version] /\ unexpired \in SUBSET Ids
  BY <1>2, <1>3
<1>6. Merge(local, remote) \in Library
  BY <1>1, <1>5, IsLibrary
<1>7. \A i \in unexpired : Merge(local, remote)[i] = pick[i]
  BY <1>1
<1>8. DOMAIN Merge(local, remote) = unexpired
  BY <1>1
<1>9. ASSUME NEW i \in DOMAIN local
      PROVE  \E v \in Version :
                /\ v = local[i] \/ (i \in DOMAIN remote /\ v = remote[i])
                /\ ~Newer(local[i], v)
                /\ \/ i \in DOMAIN Merge(local, remote) /\ Merge(local, remote)[i] = v
                   \/ Expired(v)
  <2>1. pick[i] \in Version /\ (pick[i] = local[i] \/ (i \in DOMAIN remote /\ pick[i] = remote[i]))
    BY <1>3
  <2>2. ~Newer(local[i], pick[i])
    BY <1>4
  <2>3. \/ i \in DOMAIN Merge(local, remote) /\ Merge(local, remote)[i] = pick[i]
        \/ Expired(pick[i])
    BY <1>7, <1>8
  <2> QED BY <2>1, <2>2, <2>3
<1> QED BY <1>3, <1>6, <1>7, <1>8, <1>9

---------------------------------------------------------------------------
(* Edits: each of them is a change of the library that forgets no id and   *)
(* makes no version older                                                  *)

Extends(new, old) ==
  /\ new \in Library /\ DOMAIN old \subseteq DOMAIN new
  /\ \A i \in DOMAIN old : ~Newer(old[i], new[i])

LEMMA NewerOrder ==
  ASSUME NEW a \in Version, NEW b \in Version, NEW c \in Version
  PROVE  ~Newer(a, a) /\ (~Newer(a, b) /\ ~Newer(b, c) => ~Newer(a, c))
<1>1. \A v \in Version : v.at \in Nat /\ v.rev \in Nat
  BY DEF Version
<1> QED BY <1>1 DEF Newer

LEMMA WithLibrary ==
  ASSUME NEW l \in Library, NEW i \in Ids, NEW v \in Version,
         i \in DOMAIN l => ~Newer(l[i], v)
  PROVE  Extends(With(l, i, v), l)
<1>1. DOMAIN l \cup {i} \subseteq Ids /\ \A j \in DOMAIN l : l[j] \in Version
  BY LibraryFields
<1>2. With(l, i, v) \in [DOMAIN l \cup {i} -> Version]
  BY <1>1 DEF With
<1>3. \A j \in DOMAIN l : ~Newer(l[j], With(l, i, v)[j])
  <2> TAKE j \in DOMAIN l
  <2>1. ~Newer(l[j], l[j])
    BY <1>1, NewerOrder
  <2>2. With(l, i, v)[j] = IF j = i THEN v ELSE l[j]
    BY DEF With
  <2> QED BY <2>1, <2>2
<1> QED BY <1>1, <1>2, <1>3, IsLibrary DEF Extends

LEMMA NewVersions ==
  ASSUME now \in Nat, NEW n \in Nat
  PROVE  /\ Fresh(n) \in Version
         /\ [at |-> now, rev |-> 2, data |-> n, dead |-> FALSE] \in Version
         /\ \A v \in Version : /\ Touched(v, n) \in Version /\ Tombstone(v) \in Version
                               /\ ~Newer(v, Touched(v, n)) /\ ~Newer(v, Tombstone(v))
<1>1. Fresh(n) \in Version /\ [at |-> now, rev |-> 2, data |-> n, dead |-> FALSE] \in Version
  BY DEF Fresh, Version
<1>2. ASSUME NEW v \in Version
      PROVE  /\ Touched(v, n) \in Version /\ Tombstone(v) \in Version
             /\ ~Newer(v, Touched(v, n)) /\ ~Newer(v, Tombstone(v))
  <2>1. v.at \in Nat /\ v.rev \in Nat /\ v.dead \in BOOLEAN
    BY DEF Version
  <2>2. Max2(now, v.at + 1) \in Nat /\ Max2(now, v.at + 1) > v.at
    BY <2>1 DEF Max2
  <2>3. Touched(v, n).at > v.at /\ Tombstone(v).at > v.at
    BY <2>2 DEF Touched, Tombstone
  <2>4. Touched(v, n) \in Version /\ Tombstone(v) \in Version
    BY <2>1, <2>2 DEF Touched, Tombstone, Version
  <2>5. Touched(v, n).at \in Nat /\ Tombstone(v).at \in Nat
    BY <2>4 DEF Version
  <2> QED BY <2>1, <2>3, <2>4, <2>5 DEF Newer
<1> QED BY <1>1, <1>2

LEMMA EditIsMutate ==
  ASSUME Typed, NEW t \in Tabs, Edit(t)
  PROVE  \E changed : Extends(changed, lib[t]) /\ Mutate(t, changed)
<1> DEFINE Goal == \E changed : Extends(changed, lib[t]) /\ Mutate(t, changed)
<1>1. lib[t] \in Library /\ edits + 1 \in Nat /\ now \in Nat
  BY DEF Typed
<1>2. \A i \in DOMAIN lib[t] : i \in Ids /\ lib[t][i] \in Version /\ lib[t][i].data \in Nat
  BY <1>1, LibraryFields
<1>3. Extends(lib[t], lib[t])
  BY <1>1, <1>2, NewerOrder DEF Extends
<1>4. \A i \in Ids, v \in Version :
        (i \in DOMAIN lib[t] => ~Newer(lib[t][i], v)) => Extends(With(lib[t], i, v), lib[t])
  BY <1>1, WithLibrary
<1>5. CASE SaveItem(t)
  BY <1>1, <1>4, <1>5, NewVersions DEF SaveItem, Unused
<1>6. ASSUME NEW i \in Ids, UpdateItem(t, i) PROVE Goal
  BY <1>1, <1>2, <1>3, <1>4, <1>6, NewVersions DEF UpdateItem
<1>7. ASSUME NEW i \in Ids, DeleteItem(t, i) PROVE Goal
  BY <1>1, <1>2, <1>3, <1>4, <1>7, NewVersions DEF DeleteItem
<1>8. ASSUME NEW i \in Ids, DuplicateItem(t, i) PROVE Goal
  <2>1. Fresh(lib[t][i].data) \in Version
    BY <1>1, <1>2, <1>8, NewVersions DEF DuplicateItem, Live
  <2> QED BY <1>4, <1>8, <2>1 DEF DuplicateItem, Unused
<1>9. ASSUME NEW i \in Ids, ImportItem(t, i) PROVE Goal
  BY <1>1, <1>4, <1>9, NewVersions DEF ImportItem
<1> QED BY <1>5, <1>6, <1>7, <1>8, <1>9 DEF Edit

\* What a change adds to the histories.
LEMMA MakesParts ==
  ASSUME Typed, NEW t \in Tabs, NEW c, Extends(c, lib[t]), Makes(t, c)
  PROVE  /\ made' \in [Tabs -> [Ids -> Version \cup {None}]]
         /\ late' \in [Tabs -> SUBSET (Ids \X Version)]
         /\ \A u \in Tabs : late[u] \subseteq late'[u] /\ (u # t => made'[u] = made[u])
         /\ Saving(t) => made' = made
         /\ \A i \in DOMAIN c :
              \/ i \in DOMAIN lib[t] /\ c[i] = lib[t][i]
              \/ IF Saving(t) THEN << i, c[i] >> \in late'[t] ELSE made'[t][i] = c[i]
         /\ \A i \in Ids :
              made'[t][i] = made[t][i] \/ (i \in DOMAIN c /\ made'[t][i] = c[i])
<1> DEFINE new == {i \in DOMAIN c : i \notin DOMAIN lib[t] \/ c[i] # lib[t][i]}
           mine == [i \in Ids |-> IF i \in new THEN c[i] ELSE made[t][i]]
<1>1. DOMAIN c \subseteq Ids /\ \A i \in DOMAIN c : c[i] \in Version
  BY LibraryFields DEF Extends
<1>2. CASE Saving(t)
  <2>1. late' = [late EXCEPT ![t] = late[t] \cup {<< i, c[i] >> : i \in new}] /\ made' = made
    BY <1>2 DEF Makes
  <2>2. {<< i, c[i] >> : i \in new} \subseteq Ids \X Version
    BY <1>1
  <2>3. late' \in [Tabs -> SUBSET (Ids \X Version)] /\ \A u \in Tabs : late[u] \subseteq late'[u]
    BY <2>1, <2>2 DEF Typed
  <2>4. late'[t] = late[t] \cup {<< i, c[i] >> : i \in new}
    BY <2>1 DEF Typed
  <2> QED BY <1>1, <1>2, <2>1, <2>3, <2>4 DEF Typed
<1>3. CASE ~Saving(t)
  <2>1. made' = [made EXCEPT ![t] = mine] /\ late' = late
    BY <1>3 DEF Makes
  <2>2. mine \in [Ids -> Version \cup {None}]
    BY <1>1 DEF Typed
  <2>3. made'[t] = mine /\ \A u \in Tabs : u # t => made'[u] = made[u]
    BY <2>1 DEF Typed
  <2>4. made' \in [Tabs -> [Ids -> Version \cup {None}]]
    BY <2>1, <2>2 DEF Typed
  <2> QED BY <1>1, <1>3, <2>1, <2>2, <2>3, <2>4 DEF Typed
<1> QED BY <1>2, <1>3

\* The cache takes what it is given, or stays as it is.
LEMMA CacheParts ==
  ASSUME Typed, NEW t \in Tabs, NEW l \in Library, NEW d \in BOOLEAN,
         NEW m \in [Ids -> Version \cup {None}], WriteCache(t, l, d, m)
  PROVE  /\ cache' \in [Tabs -> [lib : Library, dirty : BOOLEAN]]
         /\ kept' \in [Tabs -> [Ids -> Version \cup {None}]] /\ refusals' \in Nat
         /\ \A u \in Tabs : u # t => cache'[u] = cache[u] /\ kept'[u] = kept[u]
         /\ \/ cache'[t].lib = l /\ cache'[t].dirty = d /\ kept'[t] = m
            \/ cache'[t] = cache[t] /\ kept'[t] = kept[t]
<1>1. CASE UNCHANGED << cache, kept >>
  BY <1>1 DEF WriteCache, Typed
<1>2. CASE ~UNCHANGED << cache, kept >>
  <2>1. /\ cache' = [cache EXCEPT ![t] = [lib |-> l, dirty |-> d]]
        /\ kept' = [kept EXCEPT ![t] = m] /\ refusals' = refusals
    BY <1>2 DEF WriteCache
  <2> QED BY <2>1 DEF Typed
<1> QED BY <1>1, <1>2

---------------------------------------------------------------------------
(* Every action but an edit, by name.  The answer to a fetch has three     *)
(* endings.                                                                *)

FetchedOffline(t, l) ==
  /\ phase[t] = "told" /\ dirty[t] /\ faults' = faults
  /\ l = lib[t] \/ l = Merge(lib[t], reply[t].items)
  /\ Offline(t, l)

FetchedPosts(t, l) ==
  /\ phase[t] = "told" /\ dirty[t] /\ l = Merge(lib[t], reply[t].items)
  /\ ~Unreadable(reply[t])
  /\ lib' = [lib EXCEPT ![t] = l] /\ out' = [out EXCEPT ![t] = l]
  /\ phase' = [phase EXCEPT ![t] = "posted"] /\ reply' = [reply EXCEPT ![t] = NoReply]
  /\ UNCHANGED << server, dirty, status, timer, queue, cache, now, edits, faults, refusals, history, stored >>

FetchedClean(t, l) ==
  /\ phase[t] = "told" /\ ~dirty[t] /\ l = Merge(lib[t], reply[t].items)
  /\ lib' = [lib EXCEPT ![t] = l]
  /\ WriteCache(t, l, FALSE, made[t])
  /\ phase' = [phase EXCEPT ![t] = "idle"] /\ status' = [status EXCEPT ![t] = "saved"]
  /\ reply' = [reply EXCEPT ![t] = NoReply]
  /\ UNCHANGED << server, dirty, timer, queue, out, now, edits, faults, made, late, stored >>

LEMMA FetchedEnds ==
  ASSUME NEW t \in Tabs, Fetched(t)
  PROVE  \E l : FetchedOffline(t, l) \/ FetchedPosts(t, l) \/ FetchedClean(t, l)
BY DEF Fetched, FetchedOffline, FetchedPosts, FetchedClean

\* What a tab may do to itself: the cases of every proof below.
Acts(t) ==
  \/ \E c : Extends(c, lib[t]) /\ Mutate(t, c)
  \/ Timer(t) \/ ReloadLibrary(t) \/ StartSync(t) \/ PanelReads(t)
  \/ \E l \in Library : FetchedOffline(t, l) \/ FetchedPosts(t, l) \/ FetchedClean(t, l)
  \/ PanelStores(t) \/ Saved(t) \/ Fails(t) \/ Reopen(t)

LEMMA NextActs ==
  ASSUME Typed, [Next]_vars
  PROVE  (\E t \in Tabs : Acts(t)) \/ Tick \/ UNCHANGED vars
<1>1. ASSUME NEW t \in Tabs, Edit(t) PROVE Acts(t)
  BY <1>1, EditIsMutate DEF Acts
<1>2. ASSUME NEW t \in Tabs, Fetched(t) PROVE Acts(t)
  <2>1. PICK l : FetchedOffline(t, l) \/ FetchedPosts(t, l) \/ FetchedClean(t, l)
    BY <1>2, FetchedEnds
  <2>2. lib[t] \in Library /\ reply[t].items \in Library /\ now \in Nat
    BY DEF Typed, Copy
  <2>3. Merge(lib[t], reply[t].items) \in Library
    BY <2>2, MergeParts
  <2>4. l \in Library
    BY <2>1, <2>2, <2>3 DEF FetchedOffline, FetchedPosts, FetchedClean
  <2> QED BY <2>1, <2>4 DEF Acts
<1> QED BY <1>1, <1>2 DEF Next, Sync, Acts

---------------------------------------------------------------------------
(* Types *)

LEMMA TypedInit == Init => Typed
<1> SUFFICES ASSUME Init PROVE Typed
  OBVIOUS
<1>1. Nothing \in Library /\ NoReply \in Copy
  BY EmptyLibrary DEF NoReply, Copy
<1>2. PICK text \in {"none", "library", "unreadable"} :
        server = [text  |-> text,
                  items |-> IF text # "library" THEN Nothing
                            ELSE [i \in Originals |-> [at |-> 0, rev |-> 1, data |-> 0, dead |-> FALSE]]]
  BY DEF Init
<1>3. [i \in Originals |-> [at |-> 0, rev |-> 1, data |-> 0, dead |-> FALSE]] \in Library
  <2>1. [at |-> 0, rev |-> 1, data |-> 0, dead |-> FALSE] \in Version
    BY DEF Version
  <2>2. Originals \in SUBSET Ids
    BY LibraryAssumption
  <2> QED BY <2>1, <2>2, IsLibrary
<1>4. server \in Copy
  BY <1>1, <1>2, <1>3 DEF Copy
<1>5. server.items \in Library
  BY <1>4 DEF Copy
<1>6. stored \subseteq Ids \X Version
  <2>1. \A i \in DOMAIN server.items : i \in Ids /\ server.items[i] \in Version
    BY <1>5, LibraryFields
  <2>2. stored = {<< i, server.items[i] >> : i \in DOMAIN server.items}
    BY DEF Init
  <2> QED BY <2>1, <2>2
<1> QED BY <1>1, <1>4, <1>6 DEF Init, Typed

LEMMA TypedNext ==
  ASSUME Typed, [Next]_vars
  PROVE  Typed'
<1> USE DEF Typed
<1>0. Nothing \in Library /\ NoReply \in Copy
  BY EmptyLibrary DEF NoReply, Copy
<1>1. ASSUME NEW t \in Tabs, NEW c, Extends(c, lib[t]), Mutate(t, c) PROVE Typed'
  <2>1. c \in Library /\ \A i \in DOMAIN c : c[i] \in Version
    BY <1>1, LibraryFields DEF Extends
  <2>2. /\ made' \in [Tabs -> [Ids -> Version \cup {None}]]
        /\ late' \in [Tabs -> SUBSET (Ids \X Version)]
    BY <1>1, MakesParts DEF Mutate
  <2>3. /\ cache' \in [Tabs -> [lib : Library, dirty : BOOLEAN]] /\ lib' \in [Tabs -> Library]
        /\ kept' \in [Tabs -> [Ids -> Version \cup {None}]] /\ refusals' \in Nat
    <3>1. made'[t] \in [Ids -> Version \cup {None}] /\ WriteCache(t, c, TRUE, made'[t])
      BY <1>1, <2>2 DEF Mutate
    <3>2. lib' \in [Tabs -> Library]
      BY <1>1, <2>1 DEF Mutate
    <3> QED BY <2>1, <3>1, <3>2, CacheParts
  <2>4. dirty' \in [Tabs -> BOOLEAN] /\ timer' \in [Tabs -> BOOLEAN]
        /\ status' \in [Tabs -> {"saved", "saving", "offline"}] /\ edits' \in Nat
    BY <1>1 DEF Mutate
  <2> QED BY <1>1, <2>2, <2>3, <2>4 DEF Mutate
<1>2. ASSUME NEW t \in Tabs, Timer(t) \/ ReloadLibrary(t) \/ StartSync(t) PROVE Typed'
  <2>1. CASE Timer(t)
    BY <2>1 DEF Timer, history
  <2>2. CASE ReloadLibrary(t)
    BY <2>2 DEF ReloadLibrary, history
  <2>3. CASE StartSync(t)
    BY <2>3 DEF StartSync, history
  <2> QED BY <1>2, <2>1, <2>2, <2>3
<1>3. ASSUME NEW t \in Tabs, PanelReads(t) PROVE Typed'
  BY <1>3 DEF PanelReads, history
<1>4. ASSUME NEW t \in Tabs, NEW l \in Library, Offline(t, l), faults' \in Nat PROVE Typed'
  <2>1. /\ cache' \in [Tabs -> [lib : Library, dirty : BOOLEAN]]
        /\ kept' \in [Tabs -> [Ids -> Version \cup {None}]] /\ refusals' \in Nat
    BY <1>4, CacheParts DEF Offline
  <2> QED BY <1>0, <1>4, <2>1 DEF Offline
<1>5. ASSUME NEW t \in Tabs, NEW l \in Library, FetchedPosts(t, l) PROVE Typed'
  BY <1>0, <1>5 DEF FetchedPosts, history
<1>6. ASSUME NEW t \in Tabs, NEW l \in Library, FetchedClean(t, l) PROVE Typed'
  <2>1. /\ cache' \in [Tabs -> [lib : Library, dirty : BOOLEAN]]
        /\ kept' \in [Tabs -> [Ids -> Version \cup {None}]] /\ refusals' \in Nat
    BY <1>6, CacheParts DEF FetchedClean
  <2> QED BY <1>0, <1>6, <2>1 DEF FetchedClean
<1>7. ASSUME NEW t \in Tabs, PanelStores(t) PROVE Typed'
  <2>1. out[t] \in Library /\ \A i \in DOMAIN out[t] : i \in Ids /\ out[t][i] \in Version
    BY LibraryFields
  <2>2. stored' \subseteq Ids \X Version
    BY <1>7, <2>1 DEF PanelStores
  <2>3. server' \in Copy
    BY <1>7, <2>1 DEF PanelStores, Copy
  <2> QED BY <1>7, <2>2, <2>3 DEF PanelStores, history
<1>8. ASSUME NEW t \in Tabs, Saved(t) PROVE Typed'
  <2>1. /\ cache' \in [Tabs -> [lib : Library, dirty : BOOLEAN]]
        /\ kept' \in [Tabs -> [Ids -> Version \cup {None}]] /\ refusals' \in Nat
    BY <1>8, CacheParts DEF Saved
  <2> QED BY <1>0, <1>8, <2>1 DEF Saved
<1>9. ASSUME NEW t \in Tabs, Fails(t) PROVE Typed'
  BY <1>4, <1>9 DEF Fails
<1>10. ASSUME NEW t \in Tabs, Reopen(t) PROVE Typed'
  BY <1>0, <1>10 DEF Reopen
<1>11. CASE Tick
  BY <1>11 DEF Tick, tabVars, history
<1>12. CASE UNCHANGED vars
  BY <1>12 DEF vars, tabVars, history
<1> HIDE DEF Typed
<1>13. ASSUME NEW t \in Tabs, NEW l \in Library, FetchedOffline(t, l) PROVE Typed'
  BY <1>4, <1>13 DEF FetchedOffline, Typed
<1> QED
  BY <1>1, <1>2, <1>3, <1>5, <1>6, <1>7, <1>8, <1>9, <1>10, <1>11, <1>12, <1>13, NextActs DEF Acts

---------------------------------------------------------------------------
(* Unsaved changes are due *)

LEMMA DueNext ==
  ASSUME Typed, SaveIsDue, [Next]_vars
  PROVE  SaveIsDue'
<1> USE DEF Typed, SaveIsDue
<1>1. ASSUME NEW t \in Tabs, NEW c, Mutate(t, c) PROVE SaveIsDue'
  BY <1>1 DEF Mutate
<1>2. ASSUME NEW t \in Tabs, Timer(t) \/ ReloadLibrary(t) PROVE SaveIsDue'
  <2>1. CASE Timer(t)
    BY <2>1 DEF Timer
  <2>2. CASE ReloadLibrary(t)
    BY <2>2 DEF ReloadLibrary
  <2> QED BY <1>2, <2>1, <2>2
<1>3. ASSUME NEW t \in Tabs, StartSync(t) \/ PanelReads(t) PROVE SaveIsDue'
  BY <1>3 DEF StartSync, PanelReads
<1>4. ASSUME NEW t \in Tabs, NEW l, Offline(t, l) PROVE SaveIsDue'
  BY <1>4 DEF Offline
<1>5. ASSUME NEW t \in Tabs, NEW l, FetchedPosts(t, l) \/ FetchedClean(t, l) PROVE SaveIsDue'
  <2>1. CASE FetchedPosts(t, l)
    BY <2>1 DEF FetchedPosts
  <2>2. CASE FetchedClean(t, l)
    BY <2>2 DEF FetchedClean
  <2> QED BY <1>5, <2>1, <2>2
<1>6. ASSUME NEW t \in Tabs, PanelStores(t) \/ Saved(t) PROVE SaveIsDue'
  BY <1>6 DEF PanelStores, Saved
<1>7. ASSUME NEW t \in Tabs, Reopen(t) PROVE SaveIsDue'
  BY <1>7 DEF Reopen
<1>8. CASE Tick
  BY <1>8 DEF Tick, tabVars
<1>9. CASE UNCHANGED vars
  BY <1>9 DEF vars, tabVars
<1> HIDE DEF Typed, SaveIsDue
<1> QED
  BY <1>1, <1>2, <1>3, <1>4, <1>5, <1>6, <1>7, <1>8, <1>9, NextActs DEF Acts, FetchedOffline, Fails

\* In any number of browsers, and whatever fails, a tab with unsaved changes has
\* a sync running, queued or timed, unless it says "offline".
THEOREM ChangesAreDue == Spec => []SaveIsDue
<1>1. Init => Typed /\ SaveIsDue
  BY TypedInit DEF Init, SaveIsDue
<1>2. (Typed /\ SaveIsDue) /\ [Next]_vars => (Typed /\ SaveIsDue)'
  BY TypedNext, DueNext
<1> QED BY <1>1, <1>2, PTL DEF Spec

---------------------------------------------------------------------------
(* A copy that cannot be read stays *)

\* No tab posts to a panel whose copy it has read as unreadable.
Untouched ==
  server.text = "unreadable" =>
    /\ server.items = Nothing
    /\ \A t \in Tabs : phase[t] # "posted" /\ (phase[t] = "told" => reply[t] = server)

\* The step of UnreadableKept.
Spared == server.text = "unreadable" => server' = server

LEMMA UntouchedNext ==
  ASSUME Typed, Untouched, [Next]_vars
  PROVE  Untouched' /\ Spared
<1> USE DEF Typed, Untouched, Spared
<1>1. ASSUME NEW t \in Tabs, NEW c, Mutate(t, c) PROVE Untouched' /\ Spared
  BY <1>1 DEF Mutate
<1>2. ASSUME NEW t \in Tabs, Timer(t) \/ ReloadLibrary(t) PROVE Untouched' /\ Spared
  BY <1>2 DEF Timer, ReloadLibrary
<1>3. ASSUME NEW t \in Tabs, StartSync(t) PROVE Untouched' /\ Spared
  BY <1>3 DEF StartSync
<1>4. ASSUME NEW t \in Tabs, PanelReads(t) PROVE Untouched' /\ Spared
  BY <1>4 DEF PanelReads
<1>5. ASSUME NEW t \in Tabs, NEW l, Offline(t, l) PROVE Untouched' /\ Spared
  BY <1>5 DEF Offline
<1>6. ASSUME NEW t \in Tabs, NEW l, FetchedPosts(t, l) PROVE Untouched' /\ Spared
  <2>1. server.text # "unreadable"
    BY <1>6 DEF FetchedPosts, Unreadable
  <2> QED BY <1>6, <2>1 DEF FetchedPosts
<1>7. ASSUME NEW t \in Tabs, NEW l, FetchedClean(t, l) PROVE Untouched' /\ Spared
  BY <1>7 DEF FetchedClean
<1>8. ASSUME NEW t \in Tabs, PanelStores(t) PROVE Untouched' /\ Spared
  BY <1>8 DEF PanelStores
<1>9. ASSUME NEW t \in Tabs, Saved(t) PROVE Untouched' /\ Spared
  BY <1>9 DEF Saved
<1>10. ASSUME NEW t \in Tabs, Reopen(t) PROVE Untouched' /\ Spared
  BY <1>10 DEF Reopen
<1>11. CASE Tick
  BY <1>11 DEF Tick, tabVars
<1>12. CASE UNCHANGED vars
  BY <1>12 DEF vars, tabVars
<1> HIDE DEF Typed, Untouched, Spared
<1> QED
  BY <1>1, <1>2, <1>3, <1>4, <1>5, <1>6, <1>7, <1>8, <1>9, <1>10, <1>11, <1>12, NextActs
     DEF Acts, FetchedOffline, Fails

\* No browser ever writes over a library it could not read, whatever its user does.
THEOREM UnreadableStays == Spec => UnreadableKept
<1>1. Init => Typed /\ Untouched
  <2> SUFFICES ASSUME Init PROVE Untouched
    BY TypedInit
  <2>1. \A t \in Tabs : phase[t] = "asked"
    BY DEF Init
  <2>2. PICK text \in {"none", "library", "unreadable"} :
          server = [text  |-> text,
                    items |-> IF text # "library" THEN Nothing
                              ELSE [i \in Originals |-> [at |-> 0, rev |-> 1, data |-> 0, dead |-> FALSE]]]
    BY DEF Init
  <2>3. server.text = "unreadable" => server.items = Nothing
    BY <2>2
  <2> QED BY <2>1, <2>3 DEF Untouched
<1>2. (Typed /\ Untouched) /\ [Next]_vars => (Typed /\ Untouched)'
  BY TypedNext, UntouchedNext
<1>3. Typed /\ Untouched /\ [Next]_vars => [server.text = "unreadable" => server' = server]_vars
  BY UntouchedNext DEF Spared
<1> QED BY <1>1, <1>2, <1>3, PTL DEF Spec, UnreadableKept

---------------------------------------------------------------------------
(* "Saved" is true *)

Held(S, l) == \A i \in DOMAIN l : << i, l[i] >> \in S

\* What a tab has read, what it has seen stored, and what it takes for saved are
\* versions the panel has held, or were made during a save; and until its post is
\* answered, it shows what it posted and what was made since.
SavedTab(t) ==
  /\ Held(stored, reply[t].items)
  /\ phase[t] = "stored" => Held(stored, out[t])
  /\ Saving(t) => \A i \in DOMAIN lib[t] :
       (i \in DOMAIN out[t] /\ lib[t][i] = out[t][i]) \/ << i, lib[t][i] >> \in late[t]
  /\ ~dirty[t] => Held(stored \cup late[t], lib[t])
  /\ ~cache[t].dirty => Held(stored \cup late[t], cache[t].lib)
  /\ status[t] = "saved" => ~dirty[t]

SavedInv == Held(stored, server.items) /\ \A t \in Tabs : SavedTab(t)

LEMMA HeldEmpty == \A S : Held(S, Nothing)
BY EmptyLibrary DEF Held

LEMMA HeldMerge ==
  ASSUME NEW S, NEW a \in Library, NEW b \in Library, now \in Nat, Held(S, a), Held(S, b)
  PROVE  Held(S, Merge(a, b))
BY MergeParts DEF Held

LEMMA HeldMore == ASSUME NEW S, NEW S2, NEW l, Held(S, l), S \subseteq S2 PROVE Held(S2, l)
BY DEF Held

LEMMA SavedInit == Init => SavedInv
<1> SUFFICES ASSUME Init PROVE SavedInv
  OBVIOUS
<1>1. stored = {<< i, server.items[i] >> : i \in DOMAIN server.items}
  BY DEF Init
<1>2. Held(stored, server.items)
  BY <1>1 DEF Held
<1>3. ASSUME NEW t \in Tabs PROVE SavedTab(t)
  <2>1. /\ reply[t].items = Nothing /\ phase[t] = "asked" /\ ~dirty[t]
        /\ lib[t] = Nothing /\ cache[t].lib = Nothing
    BY DEF Init, NoReply
  <2> QED BY <2>1, HeldEmpty DEF SavedTab, Saving
<1> QED BY <1>2, <1>3 DEF SavedInv

\* A tab that keeps what it has keeps what it knows to be saved, whatever the
\* panel and the histories gain.
LEMMA SavedStays ==
  ASSUME NEW t \in Tabs, SavedTab(t), stored \subseteq stored', late[t] \subseteq late'[t],
         reply'[t] = reply[t], phase'[t] = phase[t], lib'[t] = lib[t], out'[t] = out[t],
         dirty'[t] = dirty[t], cache'[t] = cache[t], status'[t] = status[t]
  PROVE  SavedTab(t)'
<1>1. stored \cup late[t] \subseteq stored' \cup late'[t]
  OBVIOUS
<1> QED BY <1>1, HeldMore DEF SavedTab, Saving, Held

LEMMA SavedMutate ==
  ASSUME Typed, SavedInv, NEW t \in Tabs, NEW c, Extends(c, lib[t]), Mutate(t, c)
  PROVE  SavedInv'
<1>m. /\ \A u \in Tabs : late[u] \subseteq late'[u]
      /\ made' \in [Tabs -> [Ids -> Version \cup {None}]]
      /\ \A i \in DOMAIN c : (i \in DOMAIN lib[t] /\ c[i] = lib[t][i]) \/
           (Saving(t) => << i, c[i] >> \in late'[t])
  BY MakesParts DEF Mutate
<1>c. /\ \A u \in Tabs : u # t => cache'[u] = cache[u]
      /\ cache'[t].dirty \/ cache'[t] = cache[t]
  <2>1. made'[t] \in [Ids -> Version \cup {None}] /\ c \in Library /\ WriteCache(t, c, TRUE, made'[t])
    BY <1>m DEF Mutate, Extends
  <2> QED BY <2>1, CacheParts
<1>1. UNCHANGED << server, phase, reply, out, stored >>
  BY DEF Mutate
<1>2. /\ lib' = [lib EXCEPT ![t] = c] /\ dirty' = [dirty EXCEPT ![t] = TRUE]
      /\ status' = [status EXCEPT ![t] = "saving"]
  BY DEF Mutate
<1>3. ASSUME NEW u \in Tabs, u # t PROVE SavedTab(u)'
  <2>1. lib'[u] = lib[u] /\ dirty'[u] = dirty[u] /\ status'[u] = status[u]
    BY <1>2, <1>3 DEF Typed
  <2> QED BY <1>m, <1>c, <1>1, <1>3, <2>1, SavedStays DEF SavedInv
<1>4. SavedTab(t)'
  <2>1. lib'[t] = c /\ dirty'[t] /\ status'[t] = "saving"
    BY <1>2 DEF Typed
  <2>2. SavedTab(t) /\ late[t] \subseteq late'[t]
    BY <1>m DEF SavedInv
  <2>3. Saving(t)' => \A i \in DOMAIN c :
          (i \in DOMAIN out'[t] /\ c[i] = out'[t][i]) \/ << i, c[i] >> \in late'[t]
    BY <1>m, <1>1, <2>2 DEF SavedTab, Saving
  <2>4. ~cache'[t].dirty => Held(stored' \cup late'[t], cache'[t].lib)
    <3> SUFFICES ASSUME ~cache'[t].dirty PROVE Held(stored' \cup late'[t], cache'[t].lib)
      OBVIOUS
    <3>1. cache'[t] = cache[t] /\ Held(stored \cup late[t], cache[t].lib)
      BY <1>c, <2>2 DEF SavedTab
    <3> QED BY <1>1, <2>2, <3>1 DEF Held
  <2> QED BY <1>1, <2>1, <2>2, <2>3, <2>4 DEF SavedTab
<1> QED BY <1>1, <1>3, <1>4 DEF SavedInv

\* A write of the cache, of a library of which it is true that it is saved, or
\* which is dirty.
LEMMA SavedCache ==
  ASSUME Typed, SavedInv, NEW t \in Tabs, NEW l \in Library, NEW d \in BOOLEAN,
         WriteCache(t, l, d, made[t]), ~d => Held(stored \cup late[t], l)
  PROVE  /\ \A u \in Tabs : u # t => cache'[u] = cache[u]
         /\ ~cache'[t].dirty => Held(stored \cup late[t], cache'[t].lib)
<1>1. made[t] \in [Ids -> Version \cup {None}]
  BY DEF Typed
<1>2. /\ \A u \in Tabs : u # t => cache'[u] = cache[u]
      /\ (cache'[t].lib = l /\ cache'[t].dirty = d) \/ cache'[t] = cache[t]
  BY <1>1, CacheParts
<1> QED BY <1>2 DEF SavedInv, SavedTab

LEMMA SavedNext ==
  ASSUME Typed, SavedInv, [Next]_vars
  PROVE  SavedInv'
<1>0. NoReply.items = Nothing /\ \A S : Held(S, Nothing)
  BY HeldEmpty DEF NoReply
<1>l. \A t \in Tabs : lib[t] \in Library /\ out[t] \in Library /\ reply[t].items \in Library
  BY DEF Typed, Copy
<1> USE DEF SavedInv
<1>2. ASSUME NEW t \in Tabs, Timer(t) \/ ReloadLibrary(t) \/ StartSync(t) PROVE SavedInv'
  <2>1. CASE Timer(t)
    BY <2>1 DEF Timer, SavedTab, Saving, history
  <2>2. CASE ReloadLibrary(t)
    BY <2>2 DEF ReloadLibrary, SavedTab, Saving, history
  <2>3. CASE StartSync(t)
    BY <2>3 DEF StartSync, Typed, SavedTab, Saving, history
  <2> QED BY <1>2, <2>1, <2>2, <2>3
<1>3. ASSUME NEW t \in Tabs, PanelReads(t) PROVE SavedInv'
  BY <1>3 DEF PanelReads, Typed, SavedTab, Saving, history
<1>4. ASSUME NEW t \in Tabs, NEW l \in Library, Offline(t, l),
             ~dirty[t] => Held(stored \cup late[t], l)
      PROVE  SavedInv'
  <2>1. /\ \A u \in Tabs : u # t => cache'[u] = cache[u]
        /\ ~cache'[t].dirty => Held(stored \cup late[t], cache'[t].lib)
    <3>1. dirty[t] \in BOOLEAN
      BY DEF Typed
    <3> QED BY <1>4, <3>1, SavedCache DEF Offline
  <2> QED BY <1>0, <1>4, <2>1 DEF Offline, Typed, SavedTab, Saving
<1>5. ASSUME NEW t \in Tabs, NEW l, FetchedPosts(t, l) PROVE SavedInv'
  BY <1>0, <1>5 DEF FetchedPosts, Typed, SavedTab, Saving, history
<1>6. ASSUME NEW t \in Tabs, NEW l \in Library, FetchedClean(t, l) PROVE SavedInv'
  <2>1. Held(stored \cup late[t], lib[t]) /\ Held(stored \cup late[t], reply[t].items)
    BY <1>6, HeldMore DEF FetchedClean, SavedTab
  <2>2. Held(stored \cup late[t], l)
    BY <1>6, <1>l, <2>1, HeldMerge DEF FetchedClean, Typed
  <2>3. /\ \A u \in Tabs : u # t => cache'[u] = cache[u]
        /\ ~cache'[t].dirty => Held(stored \cup late[t], cache'[t].lib)
    BY <1>6, <2>2, SavedCache DEF FetchedClean
  <2> QED BY <1>0, <1>6, <2>2, <2>3 DEF FetchedClean, Typed, SavedTab, Saving
<1>7. ASSUME NEW t \in Tabs, PanelStores(t) PROVE SavedInv'
  <2>1. Held(stored', out[t]) /\ stored \subseteq stored'
    BY <1>7 DEF PanelStores, Held
  <2>2. UNCHANGED << lib, dirty, status, reply, out, cache, late >>
    BY <1>7 DEF PanelStores, history
  <2>3. ASSUME NEW u \in Tabs, u # t PROVE SavedTab(u)'
    <3>1. phase'[u] = phase[u] /\ SavedTab(u)
      BY <1>7, <2>3 DEF PanelStores, Typed
    <3> QED BY <2>1, <2>2, <3>1, SavedStays
  <2>4. SavedTab(t)'
    <3>1. phase'[t] = "stored" /\ phase[t] = "posted" /\ SavedTab(t)
      BY <1>7 DEF PanelStores, Typed
    <3>2. \A l : Held(stored, l) => Held(stored', l)
      BY <2>1 DEF Held
    <3>3. \A l : Held(stored \cup late[t], l) => Held(stored' \cup late[t], l)
      BY <2>1 DEF Held
    <3> QED BY <2>1, <2>2, <3>1, <3>2, <3>3 DEF SavedTab, Saving
  <2>5. Held(stored', server'.items)
    BY <1>7, <2>1 DEF PanelStores
  <2> QED BY <2>3, <2>4, <2>5
<1>8. ASSUME NEW t \in Tabs, Saved(t) PROVE SavedInv'
  <2>1. Held(stored, out[t]) /\ Saving(t)
    BY <1>8 DEF Saved, SavedTab, Saving
  <2>2. Held(stored \cup late[t], lib[t])
    BY <2>1 DEF SavedTab, Held
  <2>3. /\ \A u \in Tabs : u # t => cache'[u] = cache[u]
        /\ ~cache'[t].dirty => Held(stored \cup late[t], cache'[t].lib)
    BY <1>8, <1>l, <2>2, SavedCache DEF Saved
  <2>4. Held(stored \cup late[t], out[t])
    BY <2>1, HeldMore
  <2> QED BY <1>0, <1>8, <2>3, <2>4 DEF Saved, Typed, SavedTab, Saving
<1>9. ASSUME NEW t \in Tabs, Fails(t) PROVE SavedInv'
  BY <1>4, <1>9, <1>l DEF Fails, SavedTab
<1>10. ASSUME NEW t \in Tabs, Reopen(t) PROVE SavedInv'
  BY <1>0, <1>10 DEF Reopen, Typed, SavedTab, Saving
<1>11. CASE Tick
  BY <1>11 DEF Tick, tabVars, SavedTab, Saving, history
<1>12. CASE UNCHANGED vars
  BY <1>12 DEF vars, tabVars, SavedTab, Saving, history
<1> HIDE DEF SavedInv
<1>13. ASSUME NEW t \in Tabs, NEW l \in Library, FetchedOffline(t, l) PROVE SavedInv'
  BY <1>4, <1>13 DEF FetchedOffline
<1> QED
  BY <1>2, <1>3, <1>5, <1>6, <1>7, <1>8, <1>9, <1>10, <1>11, <1>12, <1>13, NextActs, SavedMutate
     DEF Acts

\* Whatever fails: "saved" is never said of an item the panel has not held, unless
\* it was made while a save was on its way.
THEOREM SavedIsStored == Spec => []SavedMeansStored
<1>1. Init => Typed /\ SavedInv
  BY TypedInit, SavedInit
<1>2. (Typed /\ SavedInv) /\ [Next]_vars => (Typed /\ SavedInv)'
  BY TypedNext, SavedNext
<1>3. Typed /\ SavedInv => SavedMeansStored
  BY DEF Typed, SavedInv, SavedTab, SavedMeansStored, Held
<1> QED BY <1>1, <1>2, <1>3, PTL DEF Spec

---------------------------------------------------------------------------
(* Edits survive *)

\* What EditSurvives says of one item, of any library l: S is what the panel
\* has held, or was made during a save, and n the time.  And what is in l is the
\* user's version or is in S.
KeptIn(S, n, m, i, l) ==
  \/ m = None
  \/ i \in DOMAIN l /\ ~Newer(m, l[i])
  \/ \E v \in Version :
       (v = m \/ << i, v >> \in S) /\ v.dead /\ v.at < n - TombstoneAge /\ ~Newer(m, v)

Keeps(S, n, m, i, l) ==
  /\ KeptIn(S, n, m, i, l)
  /\ i \in DOMAIN l => l[i] = m \/ << i, l[i] >> \in S

\* The library keeps what its user has made, and so does what has been posted and
\* will replace it; the cache keeps what was made when it last took a write.
KeptTab(t) ==
  \A i \in Ids : /\ Keeps(stored \cup late[t], now, made[t][i], i, lib[t])
                 /\ Keeps(stored \cup late[t], now, kept[t][i], i, cache[t].lib)
                 /\ Saving(t) => Keeps(stored \cup late[t], now, made[t][i], i, out[t])

KeptInv == \A t \in Tabs : KeptTab(t)

\* A merge with what the panel has held keeps what the user has made.
LEMMA MergeKeeps ==
  ASSUME Typed, NEW S, NEW i \in Ids, NEW m \in Version \cup {None}, NEW l \in Library, NEW r \in Library,
         Keeps(S, now, m, i, l), Held(S, r)
  PROVE  Keeps(S, now, m, i, Merge(l, r))
<1>0. now \in Nat
  BY DEF Typed
<1>1. i \in DOMAIN l => l[i] = m \/ << i, l[i] >> \in S
  BY DEF Keeps
<1>2. i \in DOMAIN Merge(l, r) =>
        Merge(l, r)[i] = m \/ << i, Merge(l, r)[i] >> \in S
  BY <1>0, <1>1, MergeParts DEF Held
<1>3. ASSUME m \in Version, i \in DOMAIN l, ~Newer(m, l[i])
      PROVE  KeptIn(S, now, m, i, Merge(l, r))
  <2>1. PICK v \in Version :
          /\ v = l[i] \/ (i \in DOMAIN r /\ v = r[i])
          /\ ~Newer(l[i], v)
          /\ \/ i \in DOMAIN Merge(l, r) /\ Merge(l, r)[i] = v
             \/ Expired(v)
    BY <1>0, <1>3, MergeParts
  <2>2. l[i] \in Version
    BY <1>3, LibraryFields
  <2>3. ~Newer(m, v)
    BY <1>3, <2>1, <2>2, NewerOrder
  <2>4. v = m \/ << i, v >> \in S
    BY <1>1, <1>3, <2>1 DEF Held
  <2> QED BY <2>1, <2>3, <2>4 DEF KeptIn, Expired
<1>4. KeptIn(S, now, m, i, Merge(l, r))
  BY <1>3 DEF Keeps, KeptIn
<1> QED BY <1>2, <1>4 DEF Keeps

LEMMA KeptInit == Init => KeptInv
BY DEF Init, KeptInv, KeptTab, Keeps, KeptIn, Nothing, Saving

\* Time, the panel and the histories only add to what excuses a missing item.
LEMMA KeptStays ==
  ASSUME NEW S, NEW S2, S \subseteq S2, NEW n \in Nat, NEW n2 \in Nat, n <= n2,
         NEW m, NEW i, NEW l, Keeps(S, n, m, i, l)
  PROVE  Keeps(S2, n2, m, i, l)
<1>1. \A v \in Version : v.at \in Nat /\ (v.at < n - TombstoneAge => v.at < n2 - TombstoneAge)
  BY LibraryAssumption DEF Version
<1>2. KeptIn(S, n, m, i, l) => KeptIn(S2, n2, m, i, l)
  BY <1>1 DEF KeptIn
<1> QED BY <1>2 DEF Keeps

\* A tab that keeps what it has keeps what its user has made.
LEMMA KeptTabStays ==
  ASSUME NEW t \in Tabs, KeptTab(t), now \in Nat, now' \in Nat, now <= now',
         stored \subseteq stored', late[t] \subseteq late'[t],
         lib'[t] = lib[t], cache'[t] = cache[t], made'[t] = made[t], kept'[t] = kept[t],
         Saving(t)' => Saving(t) /\ out'[t] = out[t]
  PROVE  KeptTab(t)'
<1>1. stored \cup late[t] \subseteq stored' \cup late'[t]
  OBVIOUS
<1>2. ASSUME NEW i \in Ids
      PROVE  /\ Keeps(stored' \cup late'[t], now', made'[t][i], i, lib'[t])
             /\ Keeps(stored' \cup late'[t], now', kept'[t][i], i, cache'[t].lib)
             /\ Saving(t)' => Keeps(stored' \cup late'[t], now', made'[t][i], i, out'[t])
  <2>1. /\ Keeps(stored \cup late[t], now, made[t][i], i, lib[t])
        /\ Keeps(stored \cup late[t], now, kept[t][i], i, cache[t].lib)
        /\ Saving(t) => Keeps(stored \cup late[t], now, made[t][i], i, out[t])
    BY DEF KeptTab
  <2> QED BY <1>1, <2>1, KeptStays
<1> QED BY <1>2 DEF KeptTab

\* The version a change leaves behind is kept, whoever made it.
LEMMA ChangeKeeps ==
  ASSUME Typed, KeptInv, NEW t \in Tabs, NEW c, Extends(c, lib[t]), Makes(t, c), NEW i \in Ids
  PROVE  Keeps(stored \cup late'[t], now, made'[t][i], i, c)
<1> DEFINE S == stored \cup late'[t]
<1>1. /\ late[t] \subseteq late'[t] /\ (Saving(t) => made' = made)
      /\ \A j \in DOMAIN c :
           (j \in DOMAIN lib[t] /\ c[j] = lib[t][j]) \/
           IF Saving(t) THEN << j, c[j] >> \in late'[t] ELSE made'[t][j] = c[j]
      /\ made'[t][i] = made[t][i] \/ (i \in DOMAIN c /\ made'[t][i] = c[i])
  BY MakesParts
<1>2. now \in Nat /\ lib[t] \in Library /\ made[t][i] \in Version \cup {None}
  BY DEF Typed
<1>3. /\ DOMAIN lib[t] \subseteq DOMAIN c
      /\ \A j \in DOMAIN c : c[j] \in Version
      /\ \A j \in DOMAIN lib[t] : lib[t][j] \in Version /\ ~Newer(lib[t][j], c[j])
  BY <1>2, LibraryFields DEF Extends
<1>4. Keeps(S, now, made[t][i], i, lib[t])
  <2>1. Keeps(stored \cup late[t], now, made[t][i], i, lib[t])
    BY DEF KeptInv, KeptTab
  <2>2. stored \cup late[t] \subseteq S
    BY <1>1
  <2>3. now <= now
    BY <1>2
  <2> HIDE DEF S
  <2> QED BY <1>2, <2>1, <2>2, <2>3, KeptStays
<1>5. << i, c[i] >> \in late'[t] => << i, c[i] >> \in S
  OBVIOUS
<1> HIDE DEF S
<1>6. CASE i \in DOMAIN c /\ made'[t][i] = c[i]
  <2>1. ~Newer(c[i], c[i])
    BY <1>3, <1>6, NewerOrder
  <2> QED BY <1>6, <2>1 DEF Keeps, KeptIn, S
<1>7. CASE ~(i \in DOMAIN c /\ made'[t][i] = c[i])
  <2>1. made'[t][i] = made[t][i]
    BY <1>1, <1>7
  <2>2. i \in DOMAIN c =>
          (i \in DOMAIN lib[t] /\ c[i] = lib[t][i]) \/ << i, c[i] >> \in S
    BY <1>1, <1>5, <1>7
  <2>3. i \in DOMAIN c => c[i] = made[t][i] \/ << i, c[i] >> \in S
    BY <1>4, <2>2 DEF Keeps
  <2>4. ASSUME i \in DOMAIN lib[t], ~Newer(made[t][i], lib[t][i]), made[t][i] \in Version
        PROVE  i \in DOMAIN c /\ ~Newer(made[t][i], c[i])
    BY <1>3, <2>4, NewerOrder
  <2>5. KeptIn(S, now, made[t][i], i, c)
    BY <1>2, <1>4, <2>4 DEF Keeps, KeptIn
  <2> QED BY <2>1, <2>3, <2>5 DEF Keeps, S
<1> QED BY <1>6, <1>7 DEF S

LEMMA KeptMutate ==
  ASSUME Typed, KeptInv, NEW t \in Tabs, NEW c, Extends(c, lib[t]), Mutate(t, c)
  PROVE  KeptInv'
<1>0. now \in Nat /\ now <= now /\ now' = now /\ stored' = stored /\ UNCHANGED << phase, out >>
  BY DEF Mutate, Typed
<1>1. /\ made' \in [Tabs -> [Ids -> Version \cup {None}]]
      /\ \A u \in Tabs : late[u] \subseteq late'[u] /\ (u # t => made'[u] = made[u])
      /\ Saving(t) => made' = made
  BY MakesParts DEF Mutate
<1>2. /\ \A u \in Tabs : u # t => cache'[u] = cache[u] /\ kept'[u] = kept[u]
      /\ \/ cache'[t].lib = c /\ kept'[t] = made'[t]
         \/ cache'[t] = cache[t] /\ kept'[t] = kept[t]
  <2>1. made'[t] \in [Ids -> Version \cup {None}] /\ c \in Library /\ WriteCache(t, c, TRUE, made'[t])
    BY <1>1 DEF Mutate, Extends
  <2> QED BY <2>1, CacheParts
<1>3. lib'[t] = c /\ \A u \in Tabs : u # t => lib'[u] = lib[u]
  BY DEF Mutate, Typed
<1>4. ASSUME NEW u \in Tabs, u # t PROVE KeptTab(u)'
  <2>1. KeptTab(u) /\ (Saving(u)' => Saving(u) /\ out'[u] = out[u])
    BY <1>0 DEF KeptInv, Saving
  <2> QED BY <1>0, <1>1, <1>2, <1>3, <1>4, <2>1, KeptTabStays
<1>5. ASSUME NEW i \in Ids
      PROVE  /\ Keeps(stored' \cup late'[t], now', made'[t][i], i, lib'[t])
             /\ Keeps(stored' \cup late'[t], now', kept'[t][i], i, cache'[t].lib)
             /\ Saving(t)' => Keeps(stored' \cup late'[t], now', made'[t][i], i, out'[t])
  <2>1. Keeps(stored \cup late'[t], now, made'[t][i], i, c)
    BY ChangeKeeps DEF Mutate
  <2>2. /\ Keeps(stored \cup late[t], now, kept[t][i], i, cache[t].lib)
        /\ Saving(t) => Keeps(stored \cup late[t], now, made[t][i], i, out[t])
    BY DEF KeptInv, KeptTab
  <2>3. stored \cup late[t] \subseteq stored \cup late'[t]
    BY <1>1
  <2>4. /\ Keeps(stored \cup late'[t], now, kept[t][i], i, cache[t].lib)
        /\ Saving(t) => Keeps(stored \cup late'[t], now, made[t][i], i, out[t])
    BY <1>0, <2>2, <2>3, KeptStays
  <2>5. Saving(t)' => Saving(t) /\ made' = made /\ out' = out
    BY <1>0, <1>1 DEF Saving
  <2> QED BY <1>0, <1>2, <1>3, <2>1, <2>4, <2>5
<1>6. KeptTab(t)'
  BY <1>5 DEF KeptTab
<1> QED BY <1>4, <1>6 DEF KeptInv

\* A step of one tab that makes nothing: it may take a library that keeps, and
\* write it to the cache.
LEMMA KeptQuiet ==
  ASSUME Typed, KeptInv, NEW t \in Tabs, NEW l \in Library, now' = now, stored' = stored, late' = late,
         made' = made, \A i \in Ids : Keeps(stored \cup late[t], now, made[t][i], i, l),
         NEW l2 \in Library, \A i \in Ids : Keeps(stored \cup late[t], now, made[t][i], i, l2),
         lib' = [lib EXCEPT ![t] = l2],
         \/ \E d \in BOOLEAN : WriteCache(t, l, d, made[t])
         \/ UNCHANGED << cache, kept >>,
         \A u \in Tabs : Saving(u)' => (Saving(u) /\ out'[u] = out[u]) \/ (u = t /\ out'[u] = l2)
  PROVE  KeptInv'
<1>0. now \in Nat /\ now <= now /\ made[t] \in [Ids -> Version \cup {None}]
  BY DEF Typed
<1>1. /\ \A u \in Tabs : u # t => cache'[u] = cache[u] /\ kept'[u] = kept[u]
      /\ \/ cache'[t].lib = l /\ kept'[t] = made[t]
         \/ cache'[t] = cache[t] /\ kept'[t] = kept[t]
  BY <1>0, CacheParts
<1>2. lib'[t] = l2 /\ \A u \in Tabs : u # t => lib'[u] = lib[u]
  BY DEF Typed
<1>3. ASSUME NEW u \in Tabs, u # t PROVE KeptTab(u)'
  BY <1>0, <1>1, <1>2, <1>3, KeptTabStays DEF KeptInv
<1>4. ASSUME NEW i \in Ids
      PROVE  /\ Keeps(stored' \cup late'[t], now', made'[t][i], i, lib'[t])
             /\ Keeps(stored' \cup late'[t], now', kept'[t][i], i, cache'[t].lib)
             /\ Saving(t)' => Keeps(stored' \cup late'[t], now', made'[t][i], i, out'[t])
  <2>1. /\ Keeps(stored \cup late[t], now, kept[t][i], i, cache[t].lib)
        /\ Saving(t) => Keeps(stored \cup late[t], now, made[t][i], i, out[t])
    BY DEF KeptInv, KeptTab
  <2> QED BY <1>1, <1>2, <2>1
<1>5. KeptTab(t)'
  BY <1>4 DEF KeptTab
<1> QED BY <1>3, <1>5 DEF KeptInv

LEMMA KeptNext ==
  ASSUME Typed, SavedInv, KeptInv, [Next]_vars, Typed'
  PROVE  KeptInv'
<1>0. now \in Nat /\ now' \in Nat /\ now <= now
  BY DEF Typed
<1>l. \A t \in Tabs : lib[t] \in Library /\ reply[t].items \in Library /\ out[t] \in Library
                      /\ cache[t].lib \in Library /\ dirty[t] \in BOOLEAN
  BY DEF Typed, Copy
<1>1. \A t \in Tabs, i \in Ids :
        /\ Keeps(stored \cup late[t], now, made[t][i], i, lib[t])
        /\ Keeps(stored \cup late[t], now, kept[t][i], i, cache[t].lib)
        /\ Saving(t) => Keeps(stored \cup late[t], now, made[t][i], i, out[t])
  BY DEF KeptInv, KeptTab
<1>2. ASSUME NEW t \in Tabs, NEW l, l = lib[t] \/ l = Merge(lib[t], reply[t].items)
      PROVE  \A i \in Ids : Keeps(stored \cup late[t], now, made[t][i], i, l)
  <2>1. Held(stored \cup late[t], reply[t].items)
    BY HeldMore DEF SavedInv, SavedTab
  <2>2. \A i \in Ids : made[t][i] \in Version \cup {None}
    BY DEF Typed
  <2>3. \A i \in Ids :
          Keeps(stored \cup late[t], now, made[t][i], i, Merge(lib[t], reply[t].items))
    <3> TAKE i \in Ids
    <3>1. Keeps(stored \cup late[t], now, made[t][i], i, lib[t])
      BY <1>1
    <3>2. made[t][i] \in Version \cup {None} /\ lib[t] \in Library /\ reply[t].items \in Library
      BY <1>l, <2>2
    <3> DEFINE S == stored \cup late[t]
    <3> HIDE DEF S
    <3>3. Keeps(S, now, made[t][i], i, lib[t]) /\ Held(S, reply[t].items)
      BY <2>1, <3>1 DEF S
    <3>4. Keeps(S, now, made[t][i], i, Merge(lib[t], reply[t].items))
      BY <3>2, <3>3, MergeKeeps
    <3> QED BY <3>4 DEF S
  <2> QED BY <1>1, <1>2, <2>3
<1>3. ASSUME made' = made, kept' = kept, late' = late, now <= now', stored \subseteq stored',
             lib' = lib, cache' = cache, out' = out, \A t \in Tabs : Saving(t)' => Saving(t)
      PROVE  KeptInv'
  <2>1. ASSUME NEW t \in Tabs PROVE KeptTab(t)'
    BY <1>0, <1>3, KeptTabStays DEF KeptInv
  <2> QED BY <2>1 DEF KeptInv
<1>4. ASSUME NEW t \in Tabs, NEW l \in Library, Offline(t, l), l = lib[t] \/ l = Merge(lib[t], reply[t].items)
      PROVE  KeptInv'
  <2>1. /\ lib' = [lib EXCEPT ![t] = l] /\ WriteCache(t, l, dirty[t], made[t])
        /\ made' = made /\ now' = now /\ stored' = stored /\ late' = late
        /\ phase' = [phase EXCEPT ![t] = "idle"] /\ out' = [out EXCEPT ![t] = Nothing]
    BY <1>4 DEF Offline
  <2>2. \A u \in Tabs : Saving(u)' => Saving(u) /\ out'[u] = out[u]
    BY <2>1 DEF Saving, Typed
  <2>3. \E d \in BOOLEAN : WriteCache(t, l, d, made[t])
    BY <1>l, <2>1
  <2>4. \A i \in Ids : Keeps(stored \cup late[t], now, made[t][i], i, l)
    BY <1>2, <1>4
  <2> QED BY <2>1, <2>2, <2>3, <2>4, KeptQuiet
<1>5. ASSUME NEW t \in Tabs, NEW l \in Library, FetchedPosts(t, l) PROVE KeptInv'
  <2>1. /\ lib' = [lib EXCEPT ![t] = l] /\ l = Merge(lib[t], reply[t].items)
        /\ UNCHANGED << cache, kept, made, late, now, stored >>
        /\ phase' = [phase EXCEPT ![t] = "posted"] /\ out' = [out EXCEPT ![t] = l]
    BY <1>5 DEF FetchedPosts, history
  <2>2. \A u \in Tabs : Saving(u)' => (Saving(u) /\ out'[u] = out[u]) \/ (u = t /\ out'[u] = l)
    BY <2>1 DEF Saving, Typed
  <2> QED BY <1>2, <2>1, <2>2, KeptQuiet
<1>6. ASSUME NEW t \in Tabs, NEW l \in Library, FetchedClean(t, l) PROVE KeptInv'
  <2>1. /\ lib' = [lib EXCEPT ![t] = l] /\ WriteCache(t, l, FALSE, made[t])
        /\ l = Merge(lib[t], reply[t].items)
        /\ made' = made /\ now' = now /\ stored' = stored /\ late' = late
        /\ phase' = [phase EXCEPT ![t] = "idle"] /\ out' = out
    BY <1>6 DEF FetchedClean
  <2>2. \A u \in Tabs : Saving(u)' => Saving(u) /\ out'[u] = out[u]
    BY <2>1 DEF Saving, Typed
  <2>3. \E d \in BOOLEAN : WriteCache(t, l, d, made[t])
    BY <2>1
  <2>4. \A i \in Ids : Keeps(stored \cup late[t], now, made[t][i], i, l)
    BY <1>2, <2>1
  <2> QED BY <2>1, <2>2, <2>3, <2>4, KeptQuiet
<1>7. ASSUME NEW t \in Tabs, Saved(t) PROVE KeptInv'
  <2>1. /\ lib' = [lib EXCEPT ![t] = out[t]] /\ WriteCache(t, lib[t], FALSE, made[t])
        /\ made' = made /\ now' = now /\ stored' = stored /\ late' = late
        /\ phase' = [phase EXCEPT ![t] = "idle"] /\ out' = [out EXCEPT ![t] = Nothing]
        /\ Saving(t)
    BY <1>7 DEF Saved, Saving
  <2>2. \A u \in Tabs : Saving(u)' => Saving(u) /\ out'[u] = out[u]
    BY <2>1 DEF Saving, Typed
  <2>3. \E d \in BOOLEAN : WriteCache(t, lib[t], d, made[t])
    BY <2>1
  <2>4. \A i \in Ids : /\ Keeps(stored \cup late[t], now, made[t][i], i, lib[t])
                       /\ Keeps(stored \cup late[t], now, made[t][i], i, out[t])
    BY <1>1, <2>1
  <2>5. lib[t] \in Library /\ out[t] \in Library
    BY <1>l
  <2> QED BY <2>1, <2>2, <2>3, <2>4, <2>5, KeptQuiet
<1>8. ASSUME NEW t \in Tabs, Reopen(t) PROVE KeptInv'
  <2>1. /\ lib' = [lib EXCEPT ![t] = cache[t].lib] /\ made' = [made EXCEPT ![t] = kept[t]]
        /\ UNCHANGED << cache, kept, late, now, stored >>
        /\ phase' = [phase EXCEPT ![t] = "asked"] /\ out' = [out EXCEPT ![t] = Nothing]
    BY <1>8 DEF Reopen
  <2>2. /\ lib'[t] = cache[t].lib /\ made'[t] = kept[t]
        /\ \A u \in Tabs : u # t => lib'[u] = lib[u] /\ made'[u] = made[u]
        /\ \A u \in Tabs : Saving(u)' => u # t /\ Saving(u) /\ out'[u] = out[u]
    BY <2>1 DEF Saving, Typed
  <2>3. ASSUME NEW u \in Tabs, u # t PROVE KeptTab(u)'
    BY <1>0, <2>1, <2>2, <2>3, KeptTabStays DEF KeptInv
  <2>4. KeptTab(t)'
    BY <1>1, <2>1, <2>2 DEF KeptTab
  <2> QED BY <2>3, <2>4 DEF KeptInv
<1>9. CASE Tick
  BY <1>0, <1>3, <1>9 DEF Tick, tabVars, history, Saving
<1>10. ASSUME NEW t \in Tabs,
              Timer(t) \/ ReloadLibrary(t) \/ StartSync(t) \/ PanelReads(t) \/ PanelStores(t)
       PROVE  KeptInv'
  <2>1. /\ UNCHANGED << made, kept, late, now, lib, cache, out >> /\ stored \subseteq stored'
        /\ \A u \in Tabs : Saving(u)' => Saving(u)
    BY <1>10 DEF Timer, ReloadLibrary, StartSync, PanelReads, PanelStores, history, Saving, Typed
  <2> QED BY <1>0, <1>3, <2>1
<1>11. CASE UNCHANGED vars
  BY <1>0, <1>3, <1>11 DEF vars, tabVars, history, Saving
<1> QED
  BY <1>4, <1>5, <1>6, <1>7, <1>8, <1>9, <1>10, <1>11, <1>l, NextActs, KeptMutate
     DEF Acts, FetchedOffline, Fails

\* In any number of browsers, through merges, lost requests, edits at any time and
\* reloads, what a user has made of an item is in the browser's library, unless a
\* version that is not older replaced it.  Only what is made while a save is on its
\* way, and what a reload finds its browser has refused to store, may be missing.
THEOREM EditsSurvive == Spec => []EditSurvives
<1>1. Init => Typed /\ SavedInv /\ KeptInv
  BY TypedInit, SavedInit, KeptInit
<1>2. (Typed /\ SavedInv /\ KeptInv) /\ [Next]_vars => (Typed /\ SavedInv /\ KeptInv)'
  BY TypedNext, SavedNext, KeptNext
<1>3. Typed /\ SavedInv /\ KeptInv => EditSurvives
  <2> SUFFICES ASSUME KeptInv, NEW t \in Tabs, NEW i \in Ids
               PROVE  Survives(t, i, made[t][i])
    BY DEF EditSurvives
  <2>1. \A v : << i, v >> \in stored \cup late[t] =>
          v \in {s[2] : s \in {x \in stored \cup late[t] : x[1] = i}}
    OBVIOUS
  <2>2. KeptIn(stored \cup late[t], now, made[t][i], i, lib[t])
    BY DEF KeptInv, KeptTab, Keeps
  <2> QED BY <2>1, <2>2 DEF KeptIn, Survives, Expired
<1> QED BY <1>1, <1>2, <1>3, PTL DEF Spec

=============================================================================
