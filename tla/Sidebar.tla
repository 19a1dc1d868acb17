------------------------------- MODULE Sidebar -------------------------------
(***************************************************************************)
(* The list of the sidebar (tui.go): rows that every message of the daemon *)
(* builds anew, an index into them that has to stay on the same entity,    *)
(* and four owners of the keyboard, the list itself, the prompt before a   *)
(* kill, the text field and the fuzzy finder.                              *)
(*                                                                         *)
(* A session or an agent is an id.  What rows look like, windows and their *)
(* frames, and the commands that keys send are left out: Billboards has    *)
(* the frames and commits, Dock the commands.                              *)
(***************************************************************************)
EXTENDS Naturals, Sequences, FiniteSets, FiniteSetsExt, SequencesExt

CONSTANTS
  Sessions, Agents,   \* ids
  Home,               \* the session of an agent
  Branched,           \* sessions whose card has a second line
  MaxWorlds,          \* bound: messages that change the world or its order
  MaxTyped,           \* bound: the length of a query
  MaxFound            \* bound: how many a query that is not empty finds

ASSUME IdsAssumption ==
  /\ IsFiniteSet(Sessions) /\ IsFiniteSet(Agents) /\ Sessions \cap Agents = {}
  /\ Branched \subseteq Sessions /\ Home \in [Agents -> Sessions]
ASSUME BoundsAssumption == {MaxWorlds, MaxTyped, MaxFound} \subseteq Nat

VARIABLES
  sessions,    \* those of the store in the order of sortSessions
  agents,      \* those of the store by attention
  worlds,      \* how many messages have changed these
  filtering,   \* the finder is open
  typed,       \* the length of its query: filterBuf
  found,       \* what it lists, best match first
  edit,        \* "none", "rename", "create": editWhat
  renSess,     \* the session that the field is about
  confirm,     \* confirmSess or confirmPane
  sel,         \* the selected row
  lastSess, lastAgent,   \* where the selection was in each of the two regions
  curSess,     \* the session its client is on
  esc          \* how much of an escape sequence has been read

store  == <<sessions, agents, worlds>>
finder == <<filtering, typed, found>>
field  == <<edit, renSess>>
keys   == <<lastSess, lastAgent, curSess, esc>>
vars   == <<store, finder, field, confirm, sel, keys>>

Nobody == "nobody"

-----------------------------------------------------------------------------
(* Rows.                                                                     *)

Row(kind, id) == [kind |-> kind, id |-> id]

SessionCard(s) ==
  <<Row("gap", s), Row("session", s)>> \o (IF s \in Branched THEN <<Row("cont", s)>> ELSE <<>>)
AgentCard(a) == <<Row("agap", a), Row("agent", a), Row("acont", a)>>
FoundRow(x) == Row(IF x \in Sessions THEN "session" ELSE "found", x)

Tree(ss, as, creating) ==
  <<Row("head", Nobody)>> \o (IF creating THEN <<Row("create", Nobody)>> ELSE <<>>)
    \o FlattenSeq([i \in DOMAIN ss |-> SessionCard(ss[i])])
    \o FlattenSeq([i \in DOMAIN as |-> AgentCard(as[i])])
Finds(f) ==
  <<Row("head", Nobody), Row("field", Nobody)>> \o [i \in DOMAIN f |-> FoundRow(f[i])]

rows == IF filtering THEN Finds(found) ELSE Tree(sessions, agents, edit = "create")

Inert(r) == r.kind \notin {"session", "agent", "found"}
InAgents(r) == r.kind \in {"agap", "agent", "acont"}

Where(rs, Test(_)) == {j \in DOMAIN rs : Test(rs[j])}

\* The rows of the same entity, as every rebuild looks for it.
Same(p, r) == p.kind \in {"session", "agent"} /\ p.kind = r.kind /\ p.id = r.id

Clamp(i, rs) ==
  LET low  == IF i < 1 THEN 1 ELSE IF i > Len(rs) THEN Len(rs) ELSE i
      down == Min({j \in low..Len(rs) : j = Len(rs) \/ ~Inert(rs[j])})
  IN  Max({j \in 1..down : j = 1 \/ ~Inert(rs[j])})

\* Mutant: the index stays.
RefindNot(p, i, rs) == Clamp(i, rs)

\* rebuild, and what messages do: row p was at i.
Refind(p, i, rs) ==
  LET same == Where(rs, LAMBDA r : Same(p, r))
  IN  Clamp(IF same = {} THEN i ELSE Min(same), rs)

-----------------------------------------------------------------------------
(* What the finder lists.                                                    *)

Live == Range(sessions) \union Range(agents)

\* With a query some of the live ones, by a score that titles change; without
\* one all of them, agents that tie in the order of a map.
Ranked(n, f) ==
  IF n = 0 THEN \E some \in SetToSeqs(Range(agents')) : f = sessions' \o some
  ELSE \E some \in SUBSET (Range(sessions') \union Range(agents')) :
         Cardinality(some) <= MaxFound /\ f \in SetToSeqs(some)

\* Where the selection is while nothing is typed: on the client's own session.
Opened(ss, as) ==
  LET rs   == Finds(ss \o as)
      here == Where(rs, LAMBDA r : r = Row("session", curSess))
  IN  Clamp(IF here # {} THEN Min(here) ELSE 1, rs)

\* refilter: with a query the selection is on the best match.
Refiltered(n) ==
  /\ typed' = n
  /\ Ranked(n, found')
  /\ sel' = IF n = 0 THEN Opened(sessions', agents') ELSE Clamp(1, Finds(found'))

\* exitFilter, with row r selected, at i.
ExitFrom(r, i) ==
  /\ filtering' = FALSE /\ typed' = 0 /\ found' = <<>>
  /\ sel' = Refind(r, i, Tree(sessions, agents, FALSE))

-----------------------------------------------------------------------------
(* Messages of the daemon.                                                   *)

\* What is left of a sequence without some of its elements, place by place.
Rest(q, gone) ==
  LET upto[i \in 0..Len(q)] ==
        IF i = 0 THEN <<>>
        ELSE IF q[i] \in gone THEN upto[i - 1] ELSE Append(upto[i - 1], q[i])
  IN  upto
Without(q, gone) == Rest(q, gone)[Len(q)]

Comes(s) == s \notin Range(sessions) /\ sessions' = Append(sessions, s) /\ UNCHANGED agents
Goes(s) ==
  /\ s \in Range(sessions) /\ Len(sessions) > 1
  /\ sessions' = Without(sessions, {s})
  /\ agents' = Without(agents, {a \in Agents : Home[a] = s})
Starts(a) ==
  /\ a \notin Range(agents) /\ Home[a] \in Range(sessions)
  /\ \E i \in 0..Len(agents) : agents' = InsertAt(agents, i + 1, a)
  /\ UNCHANGED sessions
Exits(a) == a \in Range(agents) /\ agents' = Without(agents, {a}) /\ UNCHANGED sessions

\* One session or agent more or less, or agents that change places.
WorldChanges ==
  \/ \E s \in Sessions : Comes(s) \/ Goes(s)
  \/ \E a \in Agents : Starts(a) \/ Exits(a)
  \/ agents' = Reverse(agents) /\ UNCHANGED sessions

Relisted ==
  /\ UNCHANGED <<filtering, typed, field, keys>>
  /\ IF filtering THEN Ranked(typed, found') ELSE UNCHANGED found
  /\ sel' = Refind(rows[sel], sel, rows')

Targets(r) == confirm # Nobody /\ r.kind \in {"session", "agent"} /\ r.id = confirm

\* Mutant: an armed prompt stays armed.
DiffArmed ==
  /\ worlds < MaxWorlds /\ worlds' = worlds + 1
  /\ WorldChanges
  /\ Relisted
  /\ UNCHANGED confirm

\* snapshot, diff.
Diff ==
  /\ worlds < MaxWorlds /\ worlds' = worlds + 1
  /\ WorldChanges
  /\ Relisted
  /\ confirm' = IF \E r \in Range(rows') : Targets(r) THEN confirm ELSE Nobody

\* order: a rename has moved the names of the order.
Order ==
  /\ worlds < MaxWorlds /\ worlds' = worlds + 1
  /\ sessions' = Reverse(sessions) /\ UNCHANGED agents
  /\ Relisted
  /\ UNCHANGED confirm

\* select: the daemon names a window, or an agent's pane in it.
Select ==
  /\ \E s \in Range(sessions) :
       /\ curSess' = s
       /\ \E x \in {s} \union Range(agents) :
            LET hits == Where(rows, LAMBDA r : r = Row(IF x = s THEN "session" ELSE "agent", x))
            IN  sel' = Clamp(IF hits = {} THEN sel ELSE Min(hits), rows)
  /\ UNCHANGED <<store, finder, field, confirm, lastSess, lastAgent, esc>>

\* Mutant: it opens whatever else is open.
FindAnyhow ==
  /\ ~filtering
  /\ filtering' = TRUE
  /\ UNCHANGED <<store, field, confirm, keys>>
  /\ Refiltered(0)

\* filter: winch find.
Find ==
  /\ edit = "none" /\ confirm = Nobody /\ ~filtering
  /\ filtering' = TRUE
  /\ UNCHANGED <<store, field, confirm, keys>>
  /\ Refiltered(0)

-----------------------------------------------------------------------------
(* Keys.                                                                     *)

\* In the list, no sequence half read that would take the key.
Listens == esc # 2 /\ confirm = Nobody /\ edit = "none" /\ ~filtering

\* moveSel, from row i of rs.
Stepped(rs, i, up) ==
  LET ahead == {j \in Where(rs, LAMBDA r : ~Inert(r)) : IF up THEN j < i ELSE j > i}
  IN  IF ahead = {} THEN i ELSE IF up THEN Max(ahead) ELSE Min(ahead)

\* j, k in the list, ctrl-n, ctrl-p in the finder.
Steps ==
  /\ Listens \/ (filtering /\ esc = 0)
  /\ \E up \in BOOLEAN : sel' = Stepped(rows, sel, up)
  /\ UNCHANGED <<store, finder, field, confirm, keys>>

\* An ESC, alone or as the head of a sequence, cancels the prompt and the field.
Cancels ==
  /\ confirm' = Nobody /\ edit' = "none" /\ renSess' = Nobody
  /\ UNCHANGED <<store, lastSess, lastAgent, curSess>>
Uncreated == IF edit = "create" THEN Refind(rows[sel], sel, Tree(sessions, agents, FALSE)) ELSE sel

Escape ==
  /\ esc # 2 /\ Cancels
  /\ \/ filtering /\ esc' = 0 /\ ExitFrom(rows[sel], sel)
     \/ ~filtering /\ esc' = 1 /\ UNCHANGED finder /\ sel' = Uncreated

\* An arrow, or the wheel, over whatever owns the keyboard.
Arrows ==
  /\ esc # 2 /\ esc' = 0 /\ Cancels /\ UNCHANGED finder
  /\ \E up \in BOOLEAN : sel' = Stepped(rows', Uncreated, up)

\* A press on a row of the list: on the selected one it is an Enter.
Clicks ==
  /\ esc # 2 /\ esc' = 0 /\ Cancels /\ UNCHANGED finder
  /\ sel' \in Where(rows', LAMBDA r : ~Inert(r))

\* An arrow whose bytes come apart.
Brackets ==
  /\ esc = 1 /\ esc' = 2
  /\ UNCHANGED <<store, finder, field, confirm, sel, lastSess, lastAgent, curSess>>
Finishes ==
  /\ esc = 2 /\ esc' = 0
  /\ sel' \in {sel, Stepped(rows, sel, TRUE), Stepped(rows, sel, FALSE)}
  /\ UNCHANGED <<store, finder, field, confirm, lastSess, lastAgent, curSess>>

\* Any key that means nothing.
OtherKey ==
  /\ Listens /\ esc' = 0
  /\ UNCHANGED <<store, finder, field, confirm, sel, lastSess, lastAgent, curSess>>

\* x, and the answer to it.
Arms ==
  /\ Listens /\ rows[sel].kind \in {"session", "agent"}
  /\ confirm' = rows[sel].id
  /\ UNCHANGED <<store, finder, field, sel, keys>>
Confirms ==
  /\ esc # 2 /\ confirm # Nobody
  /\ confirm' = Nobody
  /\ UNCHANGED <<store, finder, field, sel, keys>>

\* r, n.
Edits ==
  /\ Listens /\ rows[sel].kind = "session"
  /\ \E what \in {"rename", "create"} : edit' = what
  /\ renSess' = rows[sel].id
  /\ UNCHANGED <<store, finder, confirm, keys>>
  /\ sel' = IF edit' = "create" THEN Refind(rows[sel], sel, rows') ELSE sel

\* Enter in the field.
Submits ==
  /\ esc # 2 /\ confirm = Nobody /\ edit # "none"
  /\ edit' = "none" /\ renSess' = Nobody
  /\ sel' = Uncreated
  /\ UNCHANGED <<store, finder, confirm, keys>>

\* J, K: the session and its neighbour change places.
Swapped(i, j) == [sessions EXCEPT ![i] = sessions[j], ![j] = sessions[i]]
Reorders ==
  /\ Listens /\ rows[sel].kind = "session"
  /\ \E i, j \in DOMAIN sessions :
       /\ sessions[i] = rows[sel].id /\ (j = i + 1 \/ i = j + 1)
       /\ sessions' = Swapped(i, j)
  /\ UNCHANGED <<agents, worlds, finder, field, confirm, keys>>
  /\ sel' = Refind(rows[sel], sel, rows')

\* jumpRegion: the keys that move between panes.
Jumps ==
  /\ Listens
  /\ \E toAgents \in BOOLEAN :
       LET here  == rows[sel]
           there == Where(rows, LAMBDA r : ~Inert(r) /\ InAgents(r) = toAgents)
           last  == there \cap Where(rows, LAMBDA r : r.id = IF toAgents THEN lastAgent ELSE lastSess)
       IN  /\ InAgents(here) # toAgents
           /\ lastAgent' = IF InAgents(here) THEN here.id ELSE lastAgent
           /\ lastSess'  = IF InAgents(here) THEN lastSess ELSE here.id
           /\ sel' = IF last # {} THEN Min(last) ELSE IF there # {} THEN Min(there) ELSE sel
  /\ UNCHANGED <<store, finder, field, confirm, curSess, esc>>

\* The slash.  What is left of an ESC closes the finder again.
Slash ==
  /\ Listens /\ esc' = 0
  /\ UNCHANGED <<store, field, confirm, lastSess, lastAgent, curSess>>
  /\ \/ esc = 0 /\ filtering' = TRUE /\ Refiltered(0)
     \/ /\ esc = 1 /\ UNCHANGED finder
        /\ LET i == Opened(sessions, agents)
           IN  sel' = Refind(Finds(sessions \o agents)[i], i, rows)

\* A character, backspace, ctrl-u.
Types ==
  /\ filtering /\ esc = 0
  /\ \E n \in {0, typed + 1} \union (IF typed > 0 THEN {typed - 1} ELSE {}) :
       n <= MaxTyped /\ UNCHANGED <<store, filtering, field, confirm, keys>> /\ Refiltered(n)

\* Enter, and a backspace past the empty query.
LeavesFinder ==
  /\ filtering /\ esc = 0
  /\ ExitFrom(rows[sel], sel)
  /\ UNCHANGED <<store, field, confirm, keys>>

\* The finder was opened for a user whose last key was an ESC: any key closes it,
\* after it has moved the selection or changed the query.
Slips ==
  /\ filtering /\ esc = 1 /\ esc' = 0
  /\ \/ \E i \in {sel, Stepped(rows, sel, TRUE), Stepped(rows, sel, FALSE)} : ExitFrom(rows[i], i)
     \/ LET i == Opened(sessions, agents) IN ExitFrom(Finds(sessions \o agents)[i], i)
     \/ \E x \in Live : ExitFrom(FoundRow(x), 3)
     \/ ExitFrom(Row("head", Nobody), 1)
  /\ UNCHANGED <<store, field, confirm, lastSess, lastAgent, curSess>>

-----------------------------------------------------------------------------
\* A sidebar with its first snapshot, some row of which is selected.
Init ==
  /\ \E ss \in SUBSET Sessions \ {{}} : sessions \in SetToSeqs(ss)
  /\ \E as \in SUBSET {a \in Agents : Home[a] \in Range(sessions)} : agents \in SetToSeqs(as)
  /\ worlds = 0
  /\ filtering = FALSE /\ typed = 0 /\ found = <<>>
  /\ edit = "none" /\ renSess = Nobody /\ confirm = Nobody
  /\ sel \in Where(rows, LAMBDA r : ~Inert(r))
  /\ lastSess = Nobody /\ lastAgent = Nobody
  /\ curSess \in Range(sessions) /\ esc = 0

Message == Diff \/ Order \/ Select \/ Find
Key == \/ Steps \/ Escape \/ Arrows \/ Clicks \/ Brackets \/ Finishes \/ OtherKey
       \/ Arms \/ Confirms \/ Edits \/ Submits \/ Reorders \/ Jumps
       \/ Slash \/ Types \/ LeavesFinder \/ Slips
Next == Message \/ Key

Spec == Init /\ [][Next]_vars

-----------------------------------------------------------------------------
(* Properties.                                                               *)

\* Every variable has its type.
TypeOK ==
  /\ sessions \in Seq(Sessions) /\ agents \in Seq(Agents)
  /\ worlds \in 0..MaxWorlds /\ filtering \in BOOLEAN /\ typed \in 0..MaxTyped
  /\ found \in Seq(Sessions \union Agents)
  /\ edit \in {"none", "rename", "create"} /\ renSess \in Sessions \union {Nobody}
  /\ confirm \in Sessions \union Agents \union {Nobody}
  /\ sel \in DOMAIN rows
  /\ lastSess \in Sessions \union {Nobody} /\ lastAgent \in Agents \union {Nobody}
  /\ curSess \in Sessions /\ esc \in 0..2

\* One thing owns the keyboard, and a prompt that does is on the screen, on the
\* row of what it would kill, however sessions and agents come and go under it
\* (tui.go:295-303, 1412-1426).
OwnerIsDrawn ==
  /\ Cardinality({o \in {1, 2, 3} : \/ o = 1 /\ confirm # Nobody
                                    \/ o = 2 /\ edit # "none"
                                    \/ o = 3 /\ filtering}) <= 1
  /\ confirm # Nobody => \E r \in Range(rows) : Targets(r)

\* The selection is on something that can be entered as long as there is
\* anything, after every message and every key (tui.go:111-115, 1012-1027).
OnSomething ==
  (\E r \in Range(rows) : ~Inert(r)) => ~Inert(rows[sel])

Kept(x) == rows[sel].id = x /\ ~Inert(rows[sel])
Listed(x) == \E r \in Range(rows) : r.id = x /\ ~Inert(r)

\* Whatever rebuilds the rows leaves the selection on its session or agent, if
\* that is still there (tui.go:1098-1103, 1391-1411): messages, the field that
\* comes and goes, a session that is moved.
Rebuilds == Diff \/ Order \/ Edits \/ Submits \/ Reorders \/ (Escape /\ ~filtering)
SelectionSticks ==
  [][\A x \in {rows[sel].id} :
       rows[sel].kind \in {"session", "agent"} /\ Listed(x)' /\ ~Kept(x)' => ~Rebuilds]_vars

\* The same for every row that can be selected, those of the finder included,
\* and for the way out of it (tui.go:1144-1145, 1391-1394).
SelectionAlwaysSticks ==
  [][\A x \in {rows[sel].id} :
       ~Inert(rows[sel]) /\ Listed(x)' /\ ~Kept(x)' => ~(Rebuilds \/ LeavesFinder \/ Escape)]_vars

\* A slash opens the finder (tui.go:1889-1898, 1937-1940).
SlashOpens == [][Slash => filtering']_vars
=============================================================================
