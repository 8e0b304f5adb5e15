-------------------------- MODULE DesignerLibrary --------------------------
(***************************************************************************)
(* The designer's library of saved elements and templates: the store of    *)
(* designer/useLibrary.ts and the merge of lib/subLayout/library.ts, in    *)
(* several browsers that share one document on the panel.  A tab keeps the *)
(* library in memory and in localStorage; a change makes it dirty and, a   *)
(* pause later, a sync reads the panel's copy, merges by id and writes the *)
(* result back.  The panel keeps whatever it is sent: there is no version  *)
(* check, and localStorage may refuse a write, which nobody notices.  An   *)
(* item's data is one number, its place in the history of edits.           *)
(***************************************************************************)
EXTENDS Integers, Functions

CONSTANTS
  Tabs,             \* one tab in each browser
  Ids,              \* item ids
  None,             \* no version
  Originals,        \* the panel's copy at first: a set of ids
  TombstoneAge,     \* TOMBSTONE_DAYS, in ticks of the clock
  MaxNow, MaxEdits, MaxFaults, MaxRefusals   \* bounds

ASSUME LibraryAssumption ==
  /\ Originals \subseteq Ids
  /\ {TombstoneAge, MaxNow, MaxEdits, MaxFaults, MaxRefusals} \subseteq Nat

VARIABLES
  server,     \* the panel: [text, items]; text is "none", "library" or "unreadable"
  lib,        \* snap.lib of each tab: a function on a set of ids
  dirty,      \* the flag of the same name
  status,     \* "saved", "saving" or "offline"
  timer,      \* is the debounce timer running?
  queue,      \* syncs chained behind the running one
  phase,      \* where the running sync is
  reply,      \* what its fetch has read
  out,        \* what it has posted
  cache,      \* localStorage: [lib, dirty]
  now,        \* Date.now()
  edits, faults, refusals,    \* counters, bounded
  made,       \* history: the last version each tab's user has made of an id, not
              \* while a save was on its way
  kept,       \* history: what `made` was when the cache last took a write
  late,       \* history: the versions made while a save was on its way
  stored      \* history: every version the panel has ever held

tabVars == << lib, dirty, status, timer, queue, phase, reply, out >>
history == << made, kept, late >>
vars == << server, tabVars, cache, now, edits, faults, refusals, history, stored >>

---------------------------------------------------------------------------
(* library.ts *)

Nothing == [i \in {} |-> None]
NoReply == [text |-> "none", items |-> Nothing]
Live(l) == {i \in DOMAIN l : ~l[i].dead}

\* touch and tombstone: the next version of an item.
Max2(a, b) == IF a > b THEN a ELSE b
Touched(v, n) ==
  [at |-> Max2(now, v.at + 1), rev |-> v.rev + 1, data |-> n, dead |-> v.dead]
Tombstone(v) ==
  [at |-> Max2(now, v.at + 1), rev |-> v.rev + 1, data |-> 0, dead |-> TRUE]
Fresh(n) == [at |-> now, rev |-> 1, data |-> n, dead |-> FALSE]

Newer(a, b) == IF a.at # b.at THEN a.at > b.at ELSE a.rev > b.rev

Expired(v) == v.dead /\ v.at < now - TombstoneAge

\* Fault: the panel's version of an item always wins.
MergeTheirs(local, remote) ==
  LET all  == DOMAIN local \cup DOMAIN remote
      pick == [i \in all |-> IF i \in DOMAIN remote THEN remote[i] ELSE local[i]]
  IN  Restrict(pick, {i \in all : ~Expired(pick[i])})

\* mergeLibraries: the newer version of each item; the remote one on a tie.
Merge(local, remote) ==
  LET all  == DOMAIN local \cup DOMAIN remote
      mine == {i \in DOMAIN local : i \notin DOMAIN remote \/ Newer(local[i], remote[i])}
      pick == [i \in all |-> IF i \in mine THEN local[i] ELSE remote[i]]
  IN  Restrict(pick, {i \in all : ~Expired(pick[i])})

---------------------------------------------------------------------------
Init ==
  /\ \E text \in {"none", "library", "unreadable"} :
       server = [text  |-> text,
                 items |-> IF text # "library" THEN Nothing
                           ELSE [i \in Originals |-> [at |-> 0, rev |-> 1, data |-> 0, dead |-> FALSE]]]
  /\ stored = {<< i, server.items[i] >> : i \in DOMAIN server.items}
  /\ lib = [t \in Tabs |-> Nothing]
  /\ dirty = [t \in Tabs |-> FALSE]
  /\ status = [t \in Tabs |-> "saved"]
  /\ timer = [t \in Tabs |-> FALSE]
  /\ queue = [t \in Tabs |-> 0]
  /\ phase = [t \in Tabs |-> "asked"]
  /\ reply = [t \in Tabs |-> NoReply]
  /\ out = [t \in Tabs |-> Nothing]
  /\ cache = [t \in Tabs |-> [lib |-> Nothing, dirty |-> FALSE]]
  /\ now = 1 /\ edits = 0 /\ faults = 0 /\ refusals = 0
  /\ made = [t \in Tabs |-> [i \in Ids |-> None]] /\ kept = made
  /\ late = [t \in Tabs |-> {}]

\* writeCache: a quota or a private window makes localStorage refuse, silently.
\* Bounded; with no fault left there is no reload that would show it.
WriteCache(t, l, d, mine) ==
  \/ /\ cache' = [cache EXCEPT ![t] = [lib |-> l, dirty |-> d]]
     /\ kept' = [kept EXCEPT ![t] = mine] /\ UNCHANGED refusals
  \/ /\ refusals < MaxRefusals /\ faults < MaxFaults
     /\ refusals' = refusals + 1 /\ UNCHANGED << cache, kept >>

\* A save is on its way: the answer will replace the library by what was posted.
Saving(t) == phase[t] \in {"posted", "stored"}

\* History: who has made which versions.
Makes(t, changed) ==
  LET new == {i \in DOMAIN changed : i \notin DOMAIN lib[t] \/ changed[i] # lib[t][i]} IN
  IF Saving(t)
    THEN late' = [late EXCEPT ![t] = @ \cup {<< i, changed[i] >> : i \in new}] /\ UNCHANGED made
    ELSE /\ made' = [made EXCEPT ![t] = [i \in Ids |-> IF i \in new THEN changed[i] ELSE @[i]]]
         /\ UNCHANGED late

\* Fault: a change while the timer runs does not start it again.
UnscheduledMutate(t, changed) ==
  /\ edits < MaxEdits /\ edits' = edits + 1
  /\ lib' = [lib EXCEPT ![t] = changed] /\ Makes(t, changed)
  /\ dirty' = [dirty EXCEPT ![t] = TRUE]
  /\ WriteCache(t, changed, TRUE, made'[t])
  /\ status' = [status EXCEPT ![t] = "saving"]
  /\ timer' = [timer EXCEPT ![t] = ~timer[t]]
  /\ UNCHANGED << server, queue, phase, reply, out, now, faults, stored >>

\* mutate: the change in memory and in the cache, the timer restarted.
Mutate(t, changed) ==
  /\ edits < MaxEdits /\ edits' = edits + 1
  /\ lib' = [lib EXCEPT ![t] = changed] /\ Makes(t, changed)
  /\ dirty' = [dirty EXCEPT ![t] = TRUE]
  /\ WriteCache(t, changed, TRUE, made'[t])
  /\ status' = [status EXCEPT ![t] = "saving"]
  /\ timer' = [timer EXCEPT ![t] = TRUE]
  /\ UNCHANGED << server, queue, phase, reply, out, now, faults, stored >>

With(l, i, v) == [j \in DOMAIN l \cup {i} |-> IF j = i THEN v ELSE l[j]]

\* libId() gives an id nobody has used.
Unused(i) ==
  /\ \A t \in Tabs : i \notin DOMAIN lib[t] \cup DOMAIN cache[t].lib /\ made[t][i] = None
  /\ \A s \in stored : s[1] # i

SaveItem(t) == \E i \in Ids : Unused(i) /\ Mutate(t, With(lib[t], i, Fresh(edits + 1)))

\* A dialog may have been opened before a sync deleted the item: then nothing
\* changes, but the library is dirty.
UpdateItem(t, i) ==
  /\ i \in DOMAIN lib[t]
  /\ Mutate(t, IF i \in Live(lib[t]) THEN With(lib[t], i, Touched(lib[t][i], edits + 1)) ELSE lib[t])

DeleteItem(t, i) ==
  /\ i \in DOMAIN lib[t]
  /\ Mutate(t, IF i \in Live(lib[t]) THEN With(lib[t], i, Tombstone(lib[t][i])) ELSE lib[t])

DuplicateItem(t, i) ==
  /\ i \in Live(lib[t])
  /\ \E j \in Ids : Unused(j) /\ Mutate(t, With(lib[t], j, Fresh(lib[t][i].data)))

\* A file holds an item under its own id, here of a higher revision; an id the
\* library already has gets a new one, like a saved item.
ImportItem(t, i) ==
  /\ i \notin DOMAIN lib[t]
  /\ Mutate(t, With(lib[t], i, [at |-> now, rev |-> 2, data |-> edits + 1, dead |-> FALSE]))

---------------------------------------------------------------------------
(* sync, one at a time in each tab *)

Timer(t) ==
  /\ timer[t]
  /\ timer' = [timer EXCEPT ![t] = FALSE]
  /\ queue' = [queue EXCEPT ![t] = @ + 1]
  /\ UNCHANGED << server, lib, dirty, status, phase, reply, out, cache, now, edits, faults, refusals, history, stored >>

\* reload() of the panel: an immediate sync; bounded with the faults.
ReloadLibrary(t) ==
  /\ faults < MaxFaults /\ faults' = faults + 1
  /\ timer' = [timer EXCEPT ![t] = FALSE]
  /\ queue' = [queue EXCEPT ![t] = @ + 1]
  /\ UNCHANGED << server, lib, dirty, status, phase, reply, out, cache, now, edits, refusals, history, stored >>

StartSync(t) ==
  /\ phase[t] = "idle" /\ queue[t] > 0
  /\ queue' = [queue EXCEPT ![t] = @ - 1]
  /\ phase' = [phase EXCEPT ![t] = "asked"]
  /\ status' = [status EXCEPT ![t] = IF dirty[t] THEN "saving" ELSE @]
  /\ UNCHANGED << server, lib, dirty, timer, reply, out, cache, now, edits, faults, refusals, history, stored >>

PanelReads(t) ==
  /\ phase[t] = "asked"
  /\ phase' = [phase EXCEPT ![t] = "told"]
  /\ reply' = [reply EXCEPT ![t] = server]
  /\ UNCHANGED << server, lib, dirty, status, timer, queue, out, cache, now, edits, faults, refusals, history, stored >>

\* The catch of sync: everything stays in memory and in the cache.
Offline(t, l) ==
  /\ phase' = [phase EXCEPT ![t] = "idle"]
  /\ lib' = [lib EXCEPT ![t] = l]
  /\ WriteCache(t, l, dirty[t], made[t])
  /\ status' = [status EXCEPT ![t] = "offline"]
  /\ reply' = [reply EXCEPT ![t] = NoReply] /\ out' = [out EXCEPT ![t] = Nothing]
  /\ UNCHANGED << server, dirty, timer, queue, now, edits, made, late, stored >>

\* Fault: the unreadable copy of the panel counts as an empty one.
NoUnreadable(remote) == FALSE

\* "the remote has content we could not parse -> never overwrite it"
Unreadable(remote) == remote.text # "none" /\ remote.items = Nothing

\* "refusing to save an empty library over a non-empty one".  A library that
\* is too large is posted and then Fails: memory and cache are left alike.
Refused(remote, merged) == Live(remote.items) # {} /\ DOMAIN merged = {}

\* The fetch has come back: merge with what is in memory now, and write back
\* if there is something to save.
Fetched(t) ==
  LET remote == reply[t]
      merged == Merge(lib[t], remote.items)
  IN
  /\ phase[t] = "told" /\ UNCHANGED faults
  /\ \/ Unreadable(remote) /\ dirty[t] /\ Offline(t, lib[t])
     \/ ~Unreadable(remote) /\ dirty[t] /\ Refused(remote, merged) /\ Offline(t, merged)
     \/ /\ dirty[t] /\ ~Unreadable(remote) /\ ~Refused(remote, merged)
        /\ lib' = [lib EXCEPT ![t] = merged]
        /\ out' = [out EXCEPT ![t] = merged]
        /\ phase' = [phase EXCEPT ![t] = "posted"]
        /\ reply' = [reply EXCEPT ![t] = NoReply]
        /\ UNCHANGED << server, dirty, status, timer, queue, cache, now, edits, refusals, history, stored >>
     \/ /\ ~dirty[t]
        /\ lib' = [lib EXCEPT ![t] = merged]
        /\ WriteCache(t, merged, FALSE, made[t])
        /\ phase' = [phase EXCEPT ![t] = "idle"]
        /\ status' = [status EXCEPT ![t] = "saved"]
        /\ reply' = [reply EXCEPT ![t] = NoReply]
        /\ UNCHANGED << server, dirty, timer, queue, out, now, edits, made, late, stored >>

PanelStores(t) ==
  /\ phase[t] = "posted"
  /\ phase' = [phase EXCEPT ![t] = "stored"]
  /\ server' = [text |-> "library", items |-> out[t]]
  /\ stored' = stored \cup {<< i, out[t][i] >> : i \in DOMAIN out[t]}
  /\ UNCHANGED << lib, dirty, status, timer, queue, reply, out, cache, now, edits, faults, refusals, history >>

\* `dirty = false; writeCache(); set({ lib: merged, ... })`
Saved(t) ==
  /\ phase[t] = "stored"
  /\ phase' = [phase EXCEPT ![t] = "idle"]
  /\ dirty' = [dirty EXCEPT ![t] = FALSE]
  /\ WriteCache(t, lib[t], FALSE, made[t])
  /\ lib' = [lib EXCEPT ![t] = out[t]]
  /\ status' = [status EXCEPT ![t] = "saved"]
  /\ out' = [out EXCEPT ![t] = Nothing]
  /\ UNCHANGED << server, timer, queue, reply, now, edits, faults, made, late, stored >>

\* A request or its answer is lost, or the panel refuses it.
Fails(t) ==
  /\ faults < MaxFaults /\ faults' = faults + 1
  /\ phase[t] # "idle"
  /\ Offline(t, lib[t])

\* Fault: a new page forgets that the cache is dirty.
ReopenClean(t) ==
  /\ faults < MaxFaults /\ faults' = faults + 1
  /\ lib' = [lib EXCEPT ![t] = cache[t].lib]
  /\ dirty' = [dirty EXCEPT ![t] = FALSE]
  /\ status' = [status EXCEPT ![t] = "saved"]
  /\ timer' = [timer EXCEPT ![t] = FALSE]
  /\ queue' = [queue EXCEPT ![t] = 0]
  /\ phase' = [phase EXCEPT ![t] = "asked"]
  /\ reply' = [reply EXCEPT ![t] = NoReply] /\ out' = [out EXCEPT ![t] = Nothing]
  /\ made' = [made EXCEPT ![t] = kept[t]]
  /\ UNCHANGED << server, cache, now, edits, refusals, kept, late, stored >>

\* The page is closed or reloaded and opened again: ensureStarted.
Reopen(t) ==
  /\ faults < MaxFaults /\ faults' = faults + 1
  /\ lib' = [lib EXCEPT ![t] = cache[t].lib]
  /\ dirty' = [dirty EXCEPT ![t] = cache[t].dirty]
  /\ status' = [status EXCEPT ![t] = IF cache[t].dirty THEN "saving" ELSE "saved"]
  /\ timer' = [timer EXCEPT ![t] = FALSE]
  /\ queue' = [queue EXCEPT ![t] = 0]
  /\ phase' = [phase EXCEPT ![t] = "asked"]
  /\ reply' = [reply EXCEPT ![t] = NoReply] /\ out' = [out EXCEPT ![t] = Nothing]
  /\ made' = [made EXCEPT ![t] = kept[t]]
  /\ UNCHANGED << server, cache, now, edits, refusals, kept, late, stored >>

Tick ==
  /\ now < MaxNow /\ now' = now + 1
  /\ UNCHANGED << server, tabVars, cache, edits, faults, refusals, history, stored >>

Edit(t) ==
  \/ SaveItem(t)
  \/ \E i \in Ids : UpdateItem(t, i) \/ DeleteItem(t, i) \/ DuplicateItem(t, i) \/ ImportItem(t, i)

Sync(t) == StartSync(t) \/ PanelReads(t) \/ Fetched(t) \/ PanelStores(t) \/ Saved(t)

Next ==
  \/ \E t \in Tabs : Edit(t) \/ Timer(t) \/ Sync(t) \/ ReloadLibrary(t) \/ Fails(t) \/ Reopen(t)
  \/ Tick

Spec == Init /\ [][Next]_vars

---------------------------------------------------------------------------
(* Properties *)

\* What a user has made of item i is in the library, unless a version that is not
\* older has replaced it or it is gone with an expired tombstone.
Survives(t, i, m) ==
  \/ m = None
  \/ i \in DOMAIN lib[t] /\ ~Newer(m, lib[t][i])
  \/ \E v \in {m} \cup {s[2] : s \in {x \in stored \cup late[t] : x[1] = i}} :
       Expired(v) /\ ~Newer(m, v)

\* "your changes are kept in this browser" (SubDesigner.tsx:395): what a user makes
\* of an item survives merges with other browsers, failed requests, later edits at
\* any time, and a reload if the browser has stored it.  It says nothing of what is
\* made while a save is on its way.
EditSurvives == \A t \in Tabs, i \in Ids : Survives(t, i, made[t][i])

\* The comment without the two exceptions.
KeptInThisBrowser ==
  [][\A t \in Tabs, i \in Ids :
       i \in DOMAIN lib[t] /\ << i, lib[t][i] >> \notin stored =>
         \A v \in {lib[t][i]} : Survives(t, i, v)']_vars

\* A tab that shows "saved" shows nothing the panel has not held, but for what
\* was made while a save was on its way.
SavedMeansStored ==
  \A t \in Tabs : status[t] = "saved" =>
    \A i \in DOMAIN lib[t] : << i, lib[t][i] >> \in stored \cup late[t]

\* A copy that cannot be read is never overwritten (useLibrary.ts, sync).
UnreadableKept == [][server.text = "unreadable" => server' = server]_vars

\* Unsaved changes wait for nobody: a sync is due, queued or running, or the
\* tab says that it is offline (nothing retries a sync that has failed).
SaveIsDue ==
  \A t \in Tabs :
    dirty[t] /\ status[t] # "offline" => timer[t] \/ queue[t] > 0 \/ phase[t] # "idle"

\* "Tombstone: kept for TOMBSTONE_DAYS so a deletion reaches other browsers"
\* (library.ts:35): a deletion the panel holds is not undone by an older version.
DeletionStays ==
  [][\A i \in DOMAIN server.items :
       LET v == server.items[i] IN
       v.dead /\ now < v.at + TombstoneAge =>
         i \in DOMAIN server'.items /\ ~Newer(v, server'.items[i])]_vars

=============================================================================
