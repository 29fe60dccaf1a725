--------------------------- MODULE DataPageProofs ---------------------------
(***************************************************************************)
(* Proofs about the data page, for any tables, rows, keys, columns and     *)
(* bounds: the types of the list, of the ticked rows, of a reading in      *)
(* pages, of the row editor and of the board; that the list shows the      *)
(* user's own writes, that a save goes to the table its editor was opened  *)
(* on, that the report of a bulk delete adds up, that a reading in pages   *)
(* misses no row, that a save leaves alone the links the user did not      *)
(* toggle, and that the board's columns show the server's rows; and that   *)
(* the parts, composed into a page, run as they do alone.                  *)
(***************************************************************************)
EXTENDS MCDataPage, OrderedProofs
-----------------------------------------------------------------------------
(* The list.  An answer that is kept, or on its way, for the current       *)
(* dataVersion was read after every change the page had been told of, for  *)
(* the page raises dataVersion with each: this is what the invariant says, *)
(* of requests that were overtaken too.  It says so of what this visit     *)
(* asked for; where an earlier visit left rows under the key on screen, a  *)
(* request of this visit is to renew them, unless one was missed.          *)

UpToDate(f) == known[f.key.table] <= f.seen

FreshAnswers ==
  /\ \A t \in Tables : known[t] <= changes
  /\ \A c \in calls : c.phase = "ok" => c.at \in Nat /\ c.at <= changes
  /\ \A f \in fetches : ~f.old => f.key.version <= dataVersion
  /\ \A f \in fetches : ~f.old /\ f.key.version = dataVersion /\ f.seen # Nothing => UpToDate(f)
  /\ \A a \in cache : ~a.old => a.key.version = dataVersion /\ UpToDate(a)

\* Old rows on screen, or on their way to it, are being read again unless that was missed.
Renewed ==
  (\E x \in cache \cup fetches : x.old /\ x.key = CurrentKey) =>
    missed \/ \E f \in fetches : f.key = CurrentKey /\ ~f.old

\* An editor is about the table on screen.
FormOnScreen == form \in {Nothing, shown.table} /\ FormWritesItsTable

GridInv == GridTypeOK /\ FreshAnswers /\ Renewed /\ FormOnScreen

LEMMA RowsKeyType ==
  ASSUME NEW s \in [table : Tables, query : Queries], NEW v \in Nat
  PROVE  /\ RowsKey(s, v) \in RowsKeys /\ RowsKey(s, v).version = v
         /\ NewFetch(RowsKey(s, v)) \in Fetch
BY DEF RowsKey, RowsKeys, NewFetch, Fetch

\* Asking for k leaves one request for each key, which is new if it was not there.
LEMMA AskedIs ==
  ASSUME NEW F \in SUBSET Fetch, \A f, g \in F : f.key = g.key => f = g,
         NEW k \in RowsKeys
  PROVE  /\ Asked(k, F) \subseteq Fetch /\ \A f, g \in Asked(k, F) : f.key = g.key => f = g
         /\ \A f \in Asked(k, F) : f \in F \/ f = NewFetch(k)
         /\ \E f \in Asked(k, F) : f.key = k
         /\ ~JoinsOld(k, F) => \E f \in Asked(k, F) : f.key = k /\ ~f.old
         /\ F \subseteq Asked(k, F)
<1>1. /\ NewFetch(k) \in Fetch /\ NewFetch(k).key = k /\ ~NewFetch(k).old
      /\ NewFetch(k).seen = Nothing
  BY DEF NewFetch, Fetch
<1> HIDE DEF NewFetch
<1>2. CASE \E f \in F : f.key = k
  <2>1. Asked(k, F) = F
    BY <1>2 DEF Asked
  <2> QED
    BY <1>2, <2>1 DEF JoinsOld
<1>3. CASE ~\E f \in F : f.key = k
  <2>1. Asked(k, F) = F \cup {NewFetch(k)}
    BY <1>3 DEF Asked
  <2> QED
    BY <1>1, <1>3, <2>1
<1> QED
  BY <1>2, <1>3

\* An answer that arrives is one.
LEMMA ServedIsAnswer ==
  ASSUME NEW f \in Fetch, f.seen # Nothing
  PROVE  f \in Answer
BY DEF Fetch, Answer

LEMMA GridInvInit == GridInit => GridInv
<1> SUFFICES ASSUME GridInit PROVE GridInv
  OBVIOUS
<1>1. PICK t \in Tables : shown = [table |-> t, query |-> Home]
  BY DEF GridInit
<1>2. shown \in [table : Tables, query : Queries] /\ dataVersion = 0
  BY <1>1, GridAssumption DEF GridInit
<1>3. CurrentKey \in RowsKeys /\ CurrentKey.version = 0
  BY <1>2, RowsKeyType DEF CurrentKey
<1> HIDE DEF CurrentKey
<1>4. cache \subseteq Answer /\ \A a \in cache : a.old = TRUE /\ a.seen = 0
  <2>1. cache \in SUBSET [key : LeftOver, seen : {0}, old : {TRUE}]
    BY DEF GridInit
  <2>2. LeftOver \subseteq RowsKeys
    BY GridAssumption
  <2> SUFFICES ASSUME NEW a \in cache PROVE a \in Answer /\ a.old = TRUE /\ a.seen = 0
    OBVIOUS
  <2>3. a \in [key : LeftOver, seen : {0}, old : {TRUE}]
    BY <2>1
  <2>4. a = [key |-> a.key, seen |-> a.seen, old |-> a.old] /\ a.key \in LeftOver /\ a.seen = 0 /\ a.old = TRUE
    BY <2>3
  <2>5. a.key \in RowsKeys /\ a.seen \in Nat /\ a.old \in BOOLEAN
    <3>1. a.old \in BOOLEAN
      BY <2>4, Zenon
    <3>2. a.seen \in Nat
      BY <2>4
    <3> QED
      BY <2>2, <2>4, <3>1, <3>2, Zenon
  <2>6. a \in [key : RowsKeys, seen : Nat, old : BOOLEAN]
    BY <2>4, <2>5, Zenon
  <2> QED
    BY <2>4, <2>6 DEF Answer
<1>5. PICK F \in SUBSET [key : LeftOver, seen : {Nothing, 0}, old : {TRUE}] :
        /\ \A f, g \in F : f.key = g.key => f = g
        /\ fetches = Asked(CurrentKey, F) /\ missed = JoinsOld(CurrentKey, F)
  BY DEF GridInit
<1>6. F \subseteq Fetch /\ \A f \in F : f.old = TRUE
  <2>1. LeftOver \subseteq RowsKeys
    BY GridAssumption
  <2> SUFFICES ASSUME NEW f \in F PROVE f \in Fetch /\ f.old = TRUE
    OBVIOUS
  <2>2. f \in [key : LeftOver, seen : {Nothing, 0}, old : {TRUE}]
    OBVIOUS
  <2>3. /\ f = [key |-> f.key, seen |-> f.seen, old |-> f.old]
        /\ f.key \in LeftOver /\ f.seen \in {Nothing, 0} /\ f.old = TRUE
    BY <2>2
  <2>4. f.key \in RowsKeys /\ f.seen \in Nat \cup {Nothing} /\ f.old \in BOOLEAN
    <3>1. f.old \in BOOLEAN
      BY <2>3, Zenon
    <3>2. f.seen \in Nat \cup {Nothing}
      BY <2>3
    <3> QED
      BY <2>1, <2>3, <3>1, <3>2, Zenon
  <2>5. f \in [key : RowsKeys, seen : Nat \cup {Nothing}, old : BOOLEAN]
    BY <2>3, <2>4, Zenon
  <2> QED
    BY <2>3, <2>5 DEF Fetch
<1>7. /\ fetches \subseteq Fetch /\ \A f, g \in fetches : f.key = g.key => f = g
      /\ \A f \in fetches : f \in F \/ f = NewFetch(CurrentKey)
      /\ ~missed => \E f \in fetches : f.key = CurrentKey /\ ~f.old
  BY <1>3, <1>5, <1>6, AskedIs
<1>8. missed \in BOOLEAN
  BY <1>5 DEF JoinsOld
<1>9. GridTypeOK
  <2>1. changes \in Nat /\ known \in [Tables -> Nat] /\ dataVersion \in Nat
    BY DEF GridInit
  <2>2. \A a, b \in cache : a.key = b.key => a = b
    <3>1. cache \in SUBSET [key : LeftOver, seen : {0}, old : {TRUE}]
      BY DEF GridInit
    <3> SUFFICES ASSUME NEW a \in cache, NEW b \in cache, a.key = b.key PROVE a = b
      OBVIOUS
    <3>2. a \in [key : LeftOver, seen : {0}, old : {TRUE}] /\ b \in [key : LeftOver, seen : {0}, old : {TRUE}]
      BY <3>1
    <3>3. /\ a = [key |-> a.key, seen |-> a.seen, old |-> a.old]
          /\ b = [key |-> b.key, seen |-> b.seen, old |-> b.old]
      BY <3>2
    <3>4. a.seen = b.seen /\ a.old = b.old
      BY <1>4
    <3> QED
      BY <3>3, <3>4, Zenon
  <2>3. form = Nothing /\ autoEdit = FALSE /\ calls = {}
    BY DEF GridInit
  <2> QED
    BY <1>2, <1>4, <1>7, <1>8, <2>1, <2>2, <2>3 DEF GridTypeOK
<1>10. FreshAnswers
  <2>1. changes = 0 /\ calls = {} /\ \A t1 \in Tables : known[t1] = 0
    BY DEF GridInit
  <2>2. \A f \in fetches : ~f.old => f.key.version = 0 /\ f.seen = Nothing
    BY <1>3, <1>6, <1>7 DEF NewFetch
  <2> QED
    BY <1>2, <1>4, <2>1, <2>2 DEF FreshAnswers
<1>11. Renewed
  BY <1>7 DEF Renewed
<1>12. FormOnScreen
  BY DEF GridInit, FormOnScreen, FormWritesItsTable
<1> QED
  BY <1>9, <1>10, <1>11, <1>12 DEF GridInv
-------------------------------------------------------------------------------
(* Reading.                                                                *)

\* What is shown next is fetched for its own version; a new version keeps of the cache
\* only what earlier visits left.
LEMMA ShowKeeps ==
  ASSUME GridInv, NEW s \in [table : Tables, query : Queries], NEW v \in {dataVersion, dataVersion + 1},
         Show(s, v)
  PROVE  /\ shown' = s /\ dataVersion' = v /\ v \in Nat /\ missed' \in BOOLEAN
         /\ fetches' \subseteq Fetch /\ cache' \subseteq Answer
         /\ \A a, b \in cache' : a.key = b.key => a = b
         /\ \A f, g \in fetches' : f.key = g.key => f = g
         /\ \A f \in fetches' : ~f.old => f.key.version <= v
         /\ \A f \in fetches' : ~f.old /\ f.key.version = v /\ f.seen # Nothing =>
                                 v = dataVersion /\ f \in fetches
         /\ \A a \in cache' : ~a.old => v = dataVersion /\ a \in cache
         /\ Renewed'
<1>0. /\ dataVersion \in Nat /\ fetches \subseteq Fetch /\ cache \subseteq Answer
      /\ \A a, b \in cache : a.key = b.key => a = b
      /\ \A f, g \in fetches : f.key = g.key => f = g
      /\ \A f \in fetches : ~f.old => f.key.version <= dataVersion
      /\ \A a \in cache : ~a.old => a.key.version = dataVersion
  BY DEF GridInv, GridTypeOK, FreshAnswers
<1> DEFINE k == RowsKey(s, v)
<1>1. v \in Nat /\ k \in RowsKeys /\ k.version = v
  BY <1>0, RowsKeyType
<1>2. /\ shown' = s /\ dataVersion' = v
      /\ fetches' = Asked(k, fetches) /\ missed' = JoinsOld(k, fetches)
      /\ cache' = {a \in cache : a.key.version >= v}
  BY DEF Show
<1>3. CurrentKey' = k
  BY <1>2 DEF CurrentKey
<1>4. NewFetch(k).key = k /\ NewFetch(k).seen = Nothing
  BY DEF NewFetch
<1> HIDE DEF k
<1>5. /\ fetches' \subseteq Fetch /\ \A f, g \in fetches' : f.key = g.key => f = g
      /\ \A f \in fetches' : f \in fetches \/ f = NewFetch(k)
      /\ ~missed' => \E f \in fetches' : f.key = k /\ ~f.old
  BY <1>0, <1>1, <1>2, AskedIs
<1>6. \A f \in fetches : f.key.version \in Nat
  BY <1>0 DEF Fetch, RowsKeys
<1>7. \A f \in fetches' : ~f.old => f.key.version <= v
  BY <1>0, <1>1, <1>4, <1>5, <1>6
<1>8. \A f \in fetches' : ~f.old /\ f.key.version = v /\ f.seen # Nothing =>
                          v = dataVersion /\ f \in fetches
  BY <1>0, <1>1, <1>4, <1>5, <1>6
<1>9. \A a \in cache' : ~a.old => v = dataVersion /\ a \in cache
  BY <1>0, <1>1, <1>2
<1>10. missed' \in BOOLEAN
  BY <1>2 DEF JoinsOld
<1>11. Renewed'
  BY <1>3, <1>5 DEF Renewed
<1>12. cache' \subseteq Answer /\ \A a, b \in cache' : a.key = b.key => a = b
  BY <1>0, <1>2
<1> QED
  BY <1>1, <1>2, <1>5, <1>7, <1>8, <1>9, <1>10, <1>11, <1>12

\* Steps of requests for rows: some are replaced or gone, the rest of the page stays.
LEMMA FetchesChange ==
  ASSUME GridInv, UNCHANGED <<changes, shown, dataVersion, form, autoEdit, calls, known>>,
         fetches' \subseteq Fetch, \A f, g \in fetches' : f.key = g.key => f = g,
         cache' \subseteq Answer, \A a, b \in cache' : a.key = b.key => a = b,
         missed' \in BOOLEAN,
         \A f \in fetches' : ~f.old => f.key.version <= dataVersion,
         \A f \in fetches' : ~f.old /\ f.key.version = dataVersion /\ f.seen # Nothing => UpToDate(f),
         \A a \in cache' : ~a.old => a.key.version = dataVersion /\ UpToDate(a),
         (\E x \in cache' \cup fetches' : x.old /\ x.key = CurrentKey) =>
           missed' \/ \E f \in fetches' : f.key = CurrentKey /\ ~f.old
  PROVE  GridInv'
<1>1. CurrentKey' = CurrentKey
  BY DEF CurrentKey
<1>2. Renewed'
  BY <1>1 DEF Renewed
<1>3. GridTypeOK' /\ FreshAnswers' /\ FormOnScreen'
  BY DEF GridInv, GridTypeOK, FreshAnswers, UpToDate, FormOnScreen, FormWritesItsTable
<1> QED
  BY <1>2, <1>3 DEF GridInv

LEMMA ServeRowsKeeps ==
  ASSUME GridInv, NEW f \in fetches, ServeRows(f) \/ RowsArrive(f) \/ RowsFail(f)
  PROVE  GridInv'
<1>0. /\ GridTypeOK /\ FreshAnswers /\ changes \in Nat /\ dataVersion \in Nat /\ missed \in BOOLEAN
      /\ f \in Fetch /\ f.key \in RowsKeys /\ f.key.table \in Tables
  BY DEF GridInv, GridTypeOK, Fetch, RowsKeys
<1>r. (\E x \in cache \cup fetches : x.old /\ x.key = CurrentKey) =>
        missed \/ \E g \in fetches : g.key = CurrentKey /\ ~g.old
  BY DEF GridInv, Renewed
<1>k. \A g \in fetches : g.key = f.key => g = f
  BY <1>0 DEF GridTypeOK
<1> HIDE DEF CurrentKey
<1>1. CASE ServeRows(f)
  <2> DEFINE g == [f EXCEPT !.seen = changes]
  <2>1. g \in Fetch /\ g.key = f.key /\ g.seen = changes /\ g.old = f.old
    BY <1>0 DEF Fetch
  <2>2. fetches' = (fetches \ {f}) \cup {g}
    BY <1>1 DEF ServeRows
  <2>3. UpToDate(g)
    BY <1>0, <2>1 DEF UpToDate, FreshAnswers
  <2> HIDE DEF g
  <2>4. /\ fetches' \subseteq Fetch /\ \A h, i \in fetches' : h.key = i.key => h = i
        /\ \A h \in fetches' : ~h.old => h.key.version <= dataVersion
        /\ \A h \in fetches' : ~h.old /\ h.key.version = dataVersion /\ h.seen # Nothing => UpToDate(h)
    BY <1>0, <2>1, <2>2, <2>3 DEF GridTypeOK, FreshAnswers
  <2>5. /\ cache' = cache /\ missed' = missed
        /\ UNCHANGED <<changes, shown, dataVersion, form, autoEdit, calls, known>>
    BY <1>1 DEF ServeRows
  <2>6. (\E x \in cache' \cup fetches' : x.old /\ x.key = CurrentKey) =>
          missed' \/ \E h \in fetches' : h.key = CurrentKey /\ ~h.old
    BY <1>r, <2>1, <2>2, <2>5
  <2> QED
    BY <1>0, <2>4, <2>5, <2>6, FetchesChange DEF GridTypeOK, FreshAnswers
<1>2. CASE RowsArrive(f)
  <2>1. f.seen # Nothing /\ f \in Answer
    BY <1>0, <1>2, ServedIsAnswer DEF RowsArrive
  <2>2. /\ fetches' = fetches \ {f} /\ missed' = missed
        /\ cache' = IF f.key.version >= dataVersion THEN (cache \ Cached(f.key)) \cup {f} ELSE cache
        /\ UNCHANGED <<changes, shown, dataVersion, form, autoEdit, calls, known>>
    BY <1>2 DEF RowsArrive
  <2>3. f.key.version \in Nat
    BY <1>0 DEF RowsKeys
  <2>4. cache' \subseteq Answer /\ \A a, b \in cache' : a.key = b.key => a = b
    BY <1>0, <2>1, <2>2 DEF GridTypeOK, Cached
  <2>5. \A a \in cache' : ~a.old => a.key.version = dataVersion /\ UpToDate(a)
    BY <1>0, <2>1, <2>2, <2>3 DEF FreshAnswers
  <2>6. /\ fetches' \subseteq Fetch /\ \A h, i \in fetches' : h.key = i.key => h = i
        /\ \A h \in fetches' : ~h.old => h.key.version <= dataVersion
        /\ \A h \in fetches' : ~h.old /\ h.key.version = dataVersion /\ h.seen # Nothing => UpToDate(h)
    BY <1>0, <2>2 DEF GridTypeOK, FreshAnswers
  <2>7. (\E x \in cache' \cup fetches' : x.old /\ x.key = CurrentKey) =>
          missed' \/ \E h \in fetches' : h.key = CurrentKey /\ ~h.old
    <3>1. CASE f.key # CurrentKey
      BY <1>r, <2>2, <3>1
    <3>2. CASE f.key = CurrentKey /\ f.old
      BY <1>r, <1>k, <2>2, <3>2
    <3>3. CASE f.key = CurrentKey /\ ~f.old
      <4>1. CurrentKey.version = dataVersion
        BY DEF CurrentKey, RowsKey
      <4>2. cache' = (cache \ Cached(f.key)) \cup {f}
        BY <1>0, <2>2, <3>3, <4>1
      <4> QED
        BY <1>k, <2>2, <3>3, <4>2 DEF Cached
    <3> QED
      BY <3>1, <3>2, <3>3
  <2> QED
    BY <1>0, <2>2, <2>4, <2>5, <2>6, <2>7, FetchesChange
<1>3. CASE RowsFail(f)
  <2>1. /\ fetches' = fetches \ {f} /\ cache' = cache /\ missed' = (missed \/ f.key = CurrentKey)
        /\ UNCHANGED <<changes, shown, dataVersion, form, autoEdit, calls, known>>
    BY <1>3 DEF RowsFail
  <2>2. (\E x \in cache' \cup fetches' : x.old /\ x.key = CurrentKey) =>
          missed' \/ \E h \in fetches' : h.key = CurrentKey /\ ~h.old
    BY <1>r, <2>1
  <2>3. missed' \in BOOLEAN
    BY <2>1
  <2> QED
    BY <1>0, <2>1, <2>2, <2>3, FetchesChange DEF GridTypeOK, FreshAnswers
<1> QED
  BY <1>1, <1>2, <1>3

LEMMA RefreshKeeps == GridInv /\ Refresh => GridInv'
<1> SUFFICES ASSUME GridInv, Refresh PROVE GridInv'
  OBVIOUS
<1>0. GridTypeOK /\ FreshAnswers /\ Renewed
  BY DEF GridInv
<1>1. /\ CurrentKey \in RowsKeys /\ CurrentKey.version = dataVersion
      /\ NewFetch(CurrentKey) \in Fetch
      /\ NewFetch(CurrentKey).key = CurrentKey /\ NewFetch(CurrentKey).seen = Nothing
      /\ ~NewFetch(CurrentKey).old
  BY <1>0, RowsKeyType DEF CurrentKey, NewFetch, GridTypeOK
<1>2. /\ \/ fetches' = fetches /\ missed' = missed
         \/ /\ fetches' = {f \in fetches : f.key # CurrentKey} \cup {NewFetch(CurrentKey)}
            /\ missed' = FALSE
      /\ UNCHANGED <<changes, shown, dataVersion, cache, form, autoEdit, calls, known>>
  BY DEF Refresh
<1>3. dataVersion \in Nat /\ missed \in BOOLEAN
  BY <1>0 DEF GridTypeOK
<1>r. (\E x \in cache \cup fetches : x.old /\ x.key = CurrentKey) =>
        missed \/ \E g \in fetches : g.key = CurrentKey /\ ~g.old
  BY <1>0 DEF Renewed
<1> HIDE DEF CurrentKey
<1>4. /\ fetches' \subseteq Fetch /\ \A h, i \in fetches' : h.key = i.key => h = i
      /\ \A h \in fetches' : ~h.old => h.key.version <= dataVersion
      /\ \A h \in fetches' : ~h.old /\ h.key.version = dataVersion /\ h.seen # Nothing => UpToDate(h)
  BY <1>0, <1>1, <1>2, <1>3 DEF GridTypeOK, FreshAnswers
<1>5. (\E x \in cache' \cup fetches' : x.old /\ x.key = CurrentKey) =>
        missed' \/ \E h \in fetches' : h.key = CurrentKey /\ ~h.old
  BY <1>r, <1>1, <1>2
<1>6. missed' \in BOOLEAN
  BY <1>2, <1>3
<1> QED
  BY <1>0, <1>2, <1>4, <1>5, <1>6, FetchesChange DEF GridTypeOK, FreshAnswers

\* Another query, or another table, whose opening closes the editor.
LEMMA NavigationKeeps ==
  ASSUME GridInv,
         \/ \E q \in Queries : ChangeQuery(q)
         \/ \E t \in Tables, edit \in BOOLEAN : OpenTable(t, edit)
  PROVE  GridInv'
<1>0. GridTypeOK /\ FreshAnswers /\ FormOnScreen /\ dataVersion \in Nat
  BY DEF GridInv, GridTypeOK
<1>1. PICK s \in [table : Tables, query : Queries] :
        /\ Show(s, dataVersion)
        /\ \/ s.table = shown.table /\ form' = form /\ autoEdit' = autoEdit
           \/ form' = Nothing /\ autoEdit' \in BOOLEAN
        /\ UNCHANGED <<changes, calls, known>>
  <2>1. ASSUME NEW q \in Queries, ChangeQuery(q)
        PROVE  /\ [shown EXCEPT !.query = q] \in [table : Tables, query : Queries]
               /\ [shown EXCEPT !.query = q].table = shown.table
    BY <1>0 DEF GridTypeOK
  <2>2. ASSUME NEW t \in Tables
        PROVE  [table |-> t, query |-> Home] \in [table : Tables, query : Queries]
    BY GridAssumption
  <2> QED
    BY <2>1, <2>2 DEF ChangeQuery, OpenTable
<1>2. /\ shown' = s /\ dataVersion' = dataVersion /\ missed' \in BOOLEAN
      /\ fetches' \subseteq Fetch /\ cache' \subseteq Answer
      /\ \A a, b \in cache' : a.key = b.key => a = b
      /\ \A f, g \in fetches' : f.key = g.key => f = g
      /\ \A f \in fetches' : ~f.old => f.key.version <= dataVersion
      /\ \A f \in fetches' : ~f.old /\ f.key.version = dataVersion /\ f.seen # Nothing => f \in fetches
      /\ \A a \in cache' : ~a.old => a \in cache
      /\ Renewed'
  BY <1>0, <1>1, ShowKeeps
<1>3. GridTypeOK'
  BY <1>0, <1>1, <1>2 DEF GridTypeOK
<1>4. FreshAnswers'
  BY <1>0, <1>1, <1>2 DEF FreshAnswers, UpToDate
<1>5. FormOnScreen'
  BY <1>0, <1>1, <1>2 DEF FormOnScreen, FormWritesItsTable
<1> QED
  BY <1>2, <1>3, <1>4, <1>5 DEF GridInv
-------------------------------------------------------------------------------
(* Writing.                                                                *)

LEMMA EditorKeeps == GridInv /\ (OpenForm \/ CloseForm \/ AutoEdit) => GridInv'
<1> SUFFICES ASSUME GridInv, OpenForm \/ CloseForm \/ AutoEdit PROVE GridInv'
  OBVIOUS
<1>1. /\ UNCHANGED <<changes, shown, dataVersion, cache, fetches, calls, known, missed>>
      /\ form' \in {Nothing, shown.table} /\ autoEdit' \in BOOLEAN /\ shown.table \in Tables
  BY DEF OpenForm, CloseForm, AutoEdit, listVars, GridInv, GridTypeOK
<1> QED
  BY <1>1 DEF GridInv, GridTypeOK, FreshAnswers, UpToDate, Renewed, CurrentKey, FormOnScreen, FormWritesItsTable

\* A new call goes to the table on screen, on which a save's editor was opened.
LEMMA SendKeeps ==
  ASSUME GridInv, NEW op \in Ops, NEW on \in Tables, Send(op, on), op = "save" => on = shown.table
  PROVE  GridInv'
<1> DEFINE c == [op |-> op, table |-> shown.table, madeOn |-> on, phase |-> "sent", at |-> Nothing]
<1>1. c \in Call /\ c.phase = "sent" /\ c.op = op /\ c.table = shown.table /\ c.madeOn = on
  BY DEF GridInv, GridTypeOK, Call
<1>2. /\ calls' = calls \cup {c}
      /\ UNCHANGED <<changes, shown, dataVersion, cache, fetches, form, autoEdit, known, missed>>
  BY DEF Send, listVars
<1> HIDE DEF c
<1> QED
  BY <1>1, <1>2 DEF GridInv, GridTypeOK, FreshAnswers, UpToDate, Renewed, CurrentKey, FormOnScreen, FormWritesItsTable

LEMMA ServeCallKeeps ==
  ASSUME GridInv, NEW c \in calls, ServeCall(c) \/ RefuseCall(c)
  PROVE  GridInv'
<1>0. GridTypeOK /\ FreshAnswers /\ FormOnScreen /\ changes \in Nat /\ c \in Call
      /\ known \in [Tables -> Nat]
  BY DEF GridInv, GridTypeOK
<1>1. CASE ServeCall(c)
  <2> DEFINE d == [c EXCEPT !.phase = "ok", !.at = changes + 1]
  <2>1. /\ changes' = changes + 1 /\ calls' = (calls \ {c}) \cup {d}
        /\ UNCHANGED <<shown, dataVersion, cache, fetches, form, autoEdit, known, missed>>
    BY <1>1 DEF ServeCall, listVars
  <2>2. d \in Call /\ d.at = changes + 1 /\ d.op = c.op /\ d.table = c.table /\ d.madeOn = c.madeOn
    <3>1. changes + 1 \in Nat
      BY <1>0
    <3> DEFINE b == [c EXCEPT !.phase = "ok"]
    <3>2. b \in Call /\ b.op = c.op /\ b.table = c.table /\ b.madeOn = c.madeOn
      BY <1>0 DEF Call
    <3>3. d = [b EXCEPT !.at = changes + 1]
      OBVIOUS
    <3> HIDE DEF b
    <3> QED
      BY <3>1, <3>2, <3>3 DEF Call
  <2> HIDE DEF d
  <2>3. GridTypeOK'
    BY <1>0, <2>1, <2>2 DEF GridTypeOK
  <2>4. FreshAnswers'
    BY <1>0, <2>1, <2>2 DEF FreshAnswers, UpToDate
  <2>5. FormOnScreen'
    BY <1>0, <2>1, <2>2 DEF FormOnScreen, FormWritesItsTable
  <2>6. Renewed'
    BY <2>1 DEF GridInv, Renewed, CurrentKey
  <2> QED
    BY <2>3, <2>4, <2>5, <2>6 DEF GridInv
<1>2. CASE RefuseCall(c)
  BY <1>0, <1>2 DEF RefuseCall, listVars, GridInv, GridTypeOK, FreshAnswers, UpToDate, Renewed,
                    CurrentKey, FormOnScreen, FormWritesItsTable
<1> QED
  BY <1>1, <1>2

\* With what the page is told now it raises dataVersion, so that nothing it holds counts.
LEMMA AcknowledgeKeeps ==
  ASSUME GridInv, NEW c \in calls, Acknowledge(c)
  PROVE  GridInv'
<1>0. /\ GridTypeOK /\ FreshAnswers /\ FormOnScreen /\ dataVersion \in Nat /\ changes \in Nat
      /\ known \in [Tables -> Nat] /\ shown \in [table : Tables, query : Queries]
      /\ c \in Call /\ c.table \in Tables
  BY DEF GridInv, GridTypeOK, Call
<1>1. c.at \in Nat /\ c.at <= changes
  BY <1>0 DEF Acknowledge, Acknowledged, FreshAnswers
<1>2. /\ calls' = calls \ {c} /\ UNCHANGED <<changes, autoEdit>>
      /\ known' = [known EXCEPT ![c.table] = IF c.at > @ THEN c.at ELSE @]
      /\ form' \in {form, Nothing} /\ Show(shown, dataVersion + 1)
  BY DEF Acknowledge, Acknowledged
<1>3. known' \in [Tables -> Nat] /\ \A t \in Tables : known'[t] <= changes
  BY <1>0, <1>1, <1>2 DEF FreshAnswers
<1>4. /\ shown' = shown /\ dataVersion' = dataVersion + 1
      /\ fetches' \subseteq Fetch /\ cache' \subseteq Answer /\ missed' \in BOOLEAN
      /\ \A a, b \in cache' : a.key = b.key => a = b
      /\ \A f, g \in fetches' : f.key = g.key => f = g
      /\ \A f \in fetches' : ~f.old => f.key.version <= dataVersion + 1
      /\ \A f \in fetches' : ~f.old /\ f.key.version = dataVersion + 1 => f.seen = Nothing
      /\ \A a \in cache' : a.old
      /\ Renewed'
  <2>1. dataVersion + 1 # dataVersion
    BY <1>0
  <2> QED
    BY <1>0, <1>2, <2>1, ShowKeeps
<1>5. GridTypeOK'
  BY <1>0, <1>2, <1>3, <1>4 DEF GridTypeOK
<1>6. FreshAnswers'
  BY <1>0, <1>2, <1>3, <1>4 DEF FreshAnswers
<1>7. FormOnScreen'
  BY <1>0, <1>2, <1>4 DEF FormOnScreen, FormWritesItsTable
<1> QED
  BY <1>4, <1>5, <1>6, <1>7 DEF GridInv
-------------------------------------------------------------------------------
LEMMA GridInvStep == GridInv /\ [GridNext]_gridVars => GridInv'
<1> SUFFICES ASSUME GridInv, [GridNext]_gridVars PROVE GridInv'
  OBVIOUS
<1>1. CASE \E f \in fetches : ServeRows(f) \/ RowsArrive(f) \/ RowsFail(f)
  BY <1>1, ServeRowsKeeps
<1>2. CASE Refresh
  BY <1>2, RefreshKeeps
<1>3. CASE \/ \E q \in Queries : ChangeQuery(q)
           \/ \E t \in Tables, edit \in BOOLEAN : OpenTable(t, edit)
  BY <1>3, NavigationKeeps
<1>4. CASE OpenForm \/ CloseForm \/ AutoEdit
  BY <1>4, EditorKeeps
<1>5. CASE Save
  <2>1. Send("save", form) /\ form = shown.table /\ form \in Tables /\ "save" \in Ops
    BY <1>5 DEF Save, Ops, GridInv, GridTypeOK, FormOnScreen
  <2> QED
    BY <2>1, SendKeeps
<1>6. CASE Press
  <2>1. Send("button", shown.table) /\ shown.table \in Tables /\ "button" \in Ops
    BY <1>6 DEF Press, Ops, GridInv, GridTypeOK
  <2> QED
    BY <2>1, SendKeeps
<1>7. ASSUME NEW c \in calls, ServeCall(c) \/ RefuseCall(c) PROVE GridInv'
  BY <1>7, ServeCallKeeps
<1>8. ASSUME NEW c \in calls, Acknowledge(c) PROVE GridInv'
  BY <1>8, AcknowledgeKeeps
<1>9. CASE UNCHANGED gridVars
  BY <1>9 DEF gridVars, GridInv, GridTypeOK, FreshAnswers, UpToDate, Renewed, CurrentKey, FormOnScreen,
              FormWritesItsTable
<1> QED
  BY <1>1, <1>2, <1>3, <1>4, <1>5, <1>6, <1>7, <1>8, <1>9 DEF GridNext

\* The types of the page and of its requests; one request and one answer for a key.
THEOREM GridTypesHold == GridSpec => []GridTypeOK
<1>1. GridInv => GridTypeOK
  BY DEF GridInv
<1> QED
  BY <1>1, GridInvInit, GridInvStep, PTL DEF GridSpec

\* The list shows the user's own writes, however late the answers to earlier requests
\* are, except for rows of an earlier visit that it missed to read again.
THEOREM OwnWritesAreShown == GridSpec => []OwnWritesShow
<1>1. GridInv => OwnWritesShow
  <2> SUFFICES ASSUME GridInv, ~InFlight(CurrentKey), NEW a \in Cached(CurrentKey)
               PROVE  known[shown.table] <= a.seen \/ (a.old /\ missed)
    BY DEF OwnWritesShow
  <2>1. a \in cache /\ a.key = CurrentKey
    BY DEF Cached
  <2>2. CASE ~a.old
    <3>1. a.key.table = shown.table
      BY <2>1 DEF CurrentKey, RowsKey
    <3> QED
      BY <2>1, <2>2, <3>1 DEF GridInv, FreshAnswers, UpToDate
  <2>3. CASE a.old
    <3>1. missed \/ \E f \in fetches : f.key = CurrentKey
      BY <2>1, <2>3 DEF GridInv, Renewed
    <3> QED
      BY <2>3, <3>1 DEF InFlight
  <2> QED
    BY <2>2, <2>3
<1> QED
  BY <1>1, GridInvInit, GridInvStep, PTL DEF GridSpec

\* What the row editor sends goes to the table it was opened on.
THEOREM FormWritesToItsTable == GridSpec => []FormWritesItsTable
<1>1. GridInv => FormWritesItsTable
  BY DEF GridInv, FormOnScreen
<1> QED
  BY <1>1, GridInvInit, GridInvStep, PTL DEF GridSpec
-----------------------------------------------------------------------------
(* Ticked rows and the bulk delete.                                        *)

\* Between two requests of a bulk delete every chosen key was counted or is still to be
\* asked for, and the rows that are gone were counted as deleted.
Settled(b) ==
  /\ b.todo \subseteq KeysOf(b.chosen)
  /\ b.deleted + b.failed + Cardinality(b.todo) = Cardinality(KeysOf(b.chosen))
  /\ b.gone = b.deleted

\* While a request is under way, the keys it asks for and the rows it took are not counted yet.
Accounted(b) ==
  /\ b.todo \subseteq KeysOf(b.chosen) /\ b.took \subseteq b.asked
  /\ b.reply = "none" => b.took = {}
  /\ b.deleted + b.failed + Cardinality(b.asked) + Cardinality(b.todo) = Cardinality(KeysOf(b.chosen))
  /\ b.gone = b.deleted + Cardinality(b.took)

BulkInv == BulkTypeOK /\ (bulk # Nothing => Accounted(bulk)) /\ BulkReportAddsUp

LEMMA SomeKeys ==
  ASSUME NEW K \in SUBSET Keys
  PROVE  IsFiniteSet(K) /\ Cardinality(K) \in Nat
<1>1. IsFiniteSet(K)
  BY BulkAssumption, FS_Subset DEF BulkAssumption
<1> QED
  BY <1>1, FS_CardinalityType

\* What is taken from a set and what is left of it.
LEMMA Parted ==
  ASSUME NEW T \in SUBSET Keys, NEW K \in SUBSET T
  PROVE  Cardinality(K) + Cardinality(T \ K) = Cardinality(T)
<1>1. /\ IsFiniteSet(K) /\ Cardinality(K) \in Nat
      /\ IsFiniteSet(T \ K) /\ Cardinality(T \ K) \in Nat
  BY SomeKeys
<1>2. K \cup (T \ K) = T /\ K \cap (T \ K) = {}
  OBVIOUS
<1>3. Cardinality(K \cup (T \ K)) =
        Cardinality(K) + Cardinality(T \ K) - Cardinality(K \cap (T \ K))
  BY <1>1, FS_Union
<1>4. Cardinality(T) = Cardinality(K) + Cardinality(T \ K) - 0
  BY <1>2, <1>3, FS_EmptySet
<1> QED
  BY <1>1, <1>4

LEMMA KeysOfChosen ==
  ASSUME NEW S \in SUBSET (Tables \X Keys)
  PROVE  KeysOf(S) \in SUBSET Keys /\ Cardinality(KeysOf(S)) \in Nat
<1>1. KeysOf(S) \in SUBSET Keys
  BY DEF KeysOf
<1> QED
  BY <1>1, SomeKeys

LEMMA AskingAccounts ==
  ASSUME NEW b \in Run, Settled(b), NEW K \in SUBSET b.todo, NEW c,
         c = [b EXCEPT !.todo = @ \ K, !.asked = K, !.reply = "none", !.took = {}]
  PROVE  c \in Run /\ Accounted(c)
<1>1. b.todo \in SUBSET Keys /\ K \in SUBSET Keys
  BY DEF Run
<1>2. c \in Run
  BY <1>1 DEF Run
<1>3. Cardinality(K) + Cardinality(b.todo \ K) = Cardinality(b.todo)
  BY <1>1, Parted
<1>4. /\ Cardinality(K) \in Nat /\ Cardinality(b.todo \ K) \in Nat /\ Cardinality(b.todo) \in Nat
  BY <1>1, SomeKeys
<1>5. b.deleted \in Nat /\ b.failed \in Nat /\ Cardinality({}) = 0
  BY FS_EmptySet DEF Run
<1>6. /\ c.todo = b.todo \ K /\ c.asked = K /\ c.reply = "none" /\ c.took = {}
      /\ c.chosen = b.chosen /\ c.deleted = b.deleted /\ c.failed = b.failed /\ c.gone = b.gone
  BY DEF Run
<1> QED
  BY <1>2, <1>3, <1>4, <1>5, <1>6 DEF Settled, Accounted

LEMMA CountingSettles ==
  ASSUME NEW b \in Run, Accounted(b)
  PROVE  /\ Counted(b) \in Run /\ Settled(Counted(b))
         /\ Counted(b).todo = b.todo /\ Counted(b).chosen = b.chosen
<1>1. b.asked \in SUBSET Keys /\ b.took \in SUBSET b.asked /\ b.todo \in SUBSET Keys
  BY DEF Run, Accounted
<1>2. /\ Cardinality(b.took) \in Nat /\ Cardinality(b.asked \ b.took) \in Nat
      /\ Cardinality(b.asked) \in Nat /\ Cardinality(b.todo) \in Nat
  BY <1>1, SomeKeys
<1>3. Cardinality(b.took) + Cardinality(b.asked \ b.took) = Cardinality(b.asked)
  BY <1>1, Parted
<1>4. b.deleted \in Nat /\ b.failed \in Nat
  BY DEF Run
<1>5. Counted(b) \in Run
  <2> DEFINE d == b.deleted + Cardinality(b.took)
             f == b.failed + Cardinality(b.asked \ b.took)
  <2>1. d \in Nat /\ f \in Nat /\ Counted(b) = [b EXCEPT !.deleted = d, !.failed = f]
    BY <1>2, <1>4 DEF Counted
  <2> HIDE DEF d, f
  <2> QED
    BY <2>1 DEF Run
<1>6. /\ Counted(b).deleted = b.deleted + Cardinality(b.took)
      /\ Counted(b).failed = b.failed + Cardinality(b.asked \ b.took)
      /\ Counted(b).todo = b.todo /\ Counted(b).chosen = b.chosen /\ Counted(b).gone = b.gone
  BY DEF Counted, Run
<1> QED
  BY <1>2, <1>3, <1>4, <1>5, <1>6 DEF Settled, Accounted

LEMMA ReportIsReport ==
  ASSUME NEW b \in Run, NEW ok \in BOOLEAN
  PROVE  Reported(b, ok) \in Report
<1>1. Cardinality(KeysOf(b.chosen)) \in Nat
  BY KeysOfChosen DEF Run
<1> QED
  BY <1>1 DEF Reported, Report, Run

LEMMA BulkInvInit == BulkInit => BulkInv
BY DEF BulkInit, BulkInv, BulkTypeOK, BulkReportAddsUp

\* Ticking, turning to another table and what others delete.
LEMMA TickingKeeps ==
  BulkInv /\ ( \/ \E t \in Tables : GoTo(t) \/ \E k \in Keys : RowVanishes(t, k)
               \/ \E k \in Keys : ToggleSel(k)
               \/ \E K \in SUBSET Keys : TogglePage(K)
               \/ ClearSel )
    => BulkInv'
<1> SUFFICES ASSUME BulkInv,
                    \/ \E t \in Tables : GoTo(t) \/ \E k \in Keys : RowVanishes(t, k)
                    \/ \E k \in Keys : ToggleSel(k)
                    \/ \E K \in SUBSET Keys : TogglePage(K)
                    \/ ClearSel
             PROVE  BulkInv'
  OBVIOUS
<1>1. /\ rowsOf \in [Tables -> SUBSET Keys] /\ open \in Tables
      /\ sel \subseteq Tables \X Keys /\ \A p, q \in sel : p[2] = q[2] => p = q
  BY DEF BulkInv, BulkTypeOK
<1>2. /\ bulk' = bulk /\ bulkMsg' \in {bulkMsg, Nothing}
      /\ rowsOf' \in [Tables -> SUBSET Keys] /\ open' \in Tables
  BY <1>1 DEF GoTo, RowVanishes, ToggleSel, TogglePage, ClearSel
<1>3. ASSUME NEW K \in SUBSET Keys, Untick(K) \/ Tick(K)
      PROVE  sel' \subseteq Tables \X Keys /\ \A p, q \in sel' : p[2] = q[2] => p = q
  <2>1. CASE Untick(K)
    BY <1>1, <2>1 DEF Untick
  <2>2. CASE Tick(K)
    <3>1. \A p \in {open} \X (K \ KeysOf(sel)) :
            p \in Tables \X Keys /\ p = <<open, p[2]>> /\ p[2] \notin KeysOf(sel)
      BY <1>1
    <3>2. sel' = sel \cup ({open} \X (K \ KeysOf(sel)))
      BY <2>2 DEF Tick
    <3>3. \A p \in sel : p[2] \in KeysOf(sel)
      BY DEF KeysOf
    <3>4. sel' \subseteq Tables \X Keys
      BY <1>1, <3>1, <3>2
    <3>5. ASSUME NEW p \in sel', NEW q \in sel', p[2] = q[2] PROVE p = q
      <4>1. CASE p \in sel /\ q \in sel
        BY <1>1, <3>5, <4>1
      <4>2. CASE p \notin sel \/ q \notin sel
        BY <3>1, <3>2, <3>3, <3>5, <4>2
      <4> QED
        BY <4>1, <4>2
    <3> QED
      BY <3>4, <3>5
  <2> QED
    BY <1>3, <2>1, <2>2
<1>4. sel' \in {sel, {}} \/ \E K \in SUBSET Keys : Untick(K) \/ Tick(K)
  <2>1. \A k \in Keys : {k} \in SUBSET Keys
    OBVIOUS
  <2> QED
    BY <2>1 DEF GoTo, RowVanishes, ToggleSel, TogglePage, ClearSel
<1>5. sel' \subseteq Tables \X Keys /\ \A p, q \in sel' : p[2] = q[2] => p = q
  <2>1. CASE sel' \in {sel, {}}
    BY <1>1, <2>1
  <2>2. CASE \E K \in SUBSET Keys : Untick(K) \/ Tick(K)
    BY <1>3, <2>2
  <2> QED
    BY <1>4, <2>1, <2>2
<1> QED
  BY <1>2, <1>5 DEF BulkInv, BulkTypeOK, BulkReportAddsUp, Accounted

LEMMA RunKeeps ==
  ASSUME BulkInv, NEW K \in SUBSET Keys, RunBulkDelete(K) \/ NextChunk(K)
  PROVE  BulkInv'
<1>1. /\ sel \in SUBSET (Tables \X Keys) /\ open \in Tables
      /\ bulk # Nothing => bulk \in Run /\ Accounted(bulk)
  BY DEF BulkInv, BulkTypeOK
<1>2. PICK b : /\ b \in Run /\ Settled(b) /\ K \in SUBSET b.todo
               /\ bulk' = [b EXCEPT !.todo = @ \ K, !.asked = K, !.reply = "none", !.took = {}]
  <2>1. CASE RunBulkDelete(K)
    <3> DEFINE b == [table |-> open, chosen |-> sel, todo |-> KeysOf(sel), asked |-> {},
                     reply |-> "none", took |-> {}, deleted |-> 0, failed |-> 0, gone |-> 0]
    <3>1. KeysOf(sel) \in SUBSET Keys /\ Cardinality(KeysOf(sel)) \in Nat
      BY <1>1, KeysOfChosen
    <3>2. b \in Run
      BY <1>1, <3>1 DEF Run
    <3>3. Settled(b)
      BY <3>1 DEF Settled
    <3>4. K \in SUBSET b.todo /\
          bulk' = [b EXCEPT !.todo = @ \ K, !.asked = K, !.reply = "none", !.took = {}]
      BY <2>1 DEF RunBulkDelete, Asking
    <3> HIDE DEF b
    <3> QED
      BY <3>2, <3>3, <3>4
  <2>2. CASE NextChunk(K)
    <3>1. Counted(bulk) \in Run /\ Settled(Counted(bulk))
      BY <1>1, <2>2, CountingSettles DEF NextChunk
    <3>2. K \in SUBSET Counted(bulk).todo /\
          bulk' = [Counted(bulk) EXCEPT !.todo = @ \ K, !.asked = K, !.reply = "none", !.took = {}]
      BY <2>2 DEF NextChunk, Asking
    <3> QED
      BY <3>1, <3>2
  <2> QED
    BY <2>1, <2>2
<1>3. PICK c : c = bulk'
  OBVIOUS
<1>4. c \in Run /\ Accounted(c)
  <2>1. c = [b EXCEPT !.todo = @ \ K, !.asked = K, !.reply = "none", !.took = {}]
    BY <1>2, <1>3
  <2> QED
    BY <1>2, <2>1, AskingAccounts
<1>5. bulk' \in Run /\ Accounted(bulk')
  BY <1>3, <1>4
<1>6. UNCHANGED <<rowsOf, open, sel>> /\ bulkMsg' \in {bulkMsg, Nothing}
  BY DEF RunBulkDelete, NextChunk
<1> QED
  BY <1>5, <1>6 DEF BulkInv, BulkTypeOK, BulkReportAddsUp, Accounted

LEMMA ServeChunkKeeps ==
  ASSUME BulkInv, NEW K \in SUBSET Keys, NEW said \in {"done", "error"}, ServeChunk(K, said)
  PROVE  BulkInv'
<1>1. PICK b : b = bulk /\ b \in Run /\ Accounted(b) /\ b.reply = "none" /\ K \subseteq b.asked
  BY DEF BulkInv, BulkTypeOK, ServeChunk
<1>2. PICK c : c = bulk'
  OBVIOUS
<1>3. c = [b EXCEPT !.reply = said, !.took = K, !.gone = @ + Cardinality(K)]
  BY <1>1, <1>2 DEF ServeChunk
<1>4. Cardinality(K) \in Nat /\ Cardinality({}) = 0
  BY SomeKeys, FS_EmptySet
<1>5. c \in Run
  <2> DEFINE g == b.gone + Cardinality(K)
  <2>1. g \in Nat /\ c = [b EXCEPT !.reply = said, !.took = K, !.gone = g]
    BY <1>1, <1>3, <1>4 DEF Run
  <2> HIDE DEF g
  <2> QED
    BY <1>1, <2>1 DEF Run
<1>6. /\ c.todo = b.todo /\ c.asked = b.asked /\ c.reply = said /\ c.took = K
      /\ c.chosen = b.chosen /\ c.deleted = b.deleted /\ c.failed = b.failed
      /\ c.gone = b.gone + Cardinality(K) /\ b.deleted \in Nat
  BY <1>1, <1>3 DEF Run
<1>7. Accounted(c)
  <2>1. b.took = {} /\ b.gone = b.deleted + 0
    BY <1>1, <1>4 DEF Accounted
  <2>2. c.gone = c.deleted + Cardinality(c.took)
    BY <1>4, <1>6, <2>1
  <2>3. c.reply # "none" /\ c.took \subseteq c.asked /\ c.todo \subseteq KeysOf(c.chosen)
    BY <1>1, <1>6 DEF Accounted
  <2>4. c.deleted + c.failed + Cardinality(c.asked) + Cardinality(c.todo) =
          Cardinality(KeysOf(c.chosen))
    BY <1>1, <1>6 DEF Accounted
  <2> QED
    BY <2>2, <2>3, <2>4 DEF Accounted
<1>8. bulk' \in Run /\ Accounted(bulk')
  BY <1>2, <1>5, <1>7
<1>9. /\ rowsOf' \in [Tables -> SUBSET Keys] /\ UNCHANGED <<open, sel, bulkMsg>>
  BY DEF ServeChunk, BulkInv, BulkTypeOK
<1> QED
  BY <1>8, <1>9 DEF BulkInv, BulkTypeOK, BulkReportAddsUp, Accounted

LEMMA BulkEndKeeps == BulkInv /\ (BulkDone \/ BulkFails) => BulkInv'
<1> SUFFICES ASSUME BulkInv, BulkDone \/ BulkFails PROVE BulkInv'
  OBVIOUS
<1>1. PICK b : b = bulk /\ b \in Run /\ Accounted(b)
  BY DEF BulkInv, BulkTypeOK, BulkDone, BulkFails
<1>2. bulk' = Nothing /\ sel' \in {sel, {}} /\ UNCHANGED <<rowsOf, open>>
  BY DEF BulkDone, BulkFails
<1>3. CASE BulkDone
  <2>1. PICK c : c = Counted(b) /\ c \in Run /\ Settled(c) /\ c.todo = {}
    BY <1>1, <1>3, CountingSettles DEF BulkDone
  <2>2. bulkMsg' = Reported(c, TRUE) /\ Reported(c, TRUE) \in Report
    <3>1. TRUE \in BOOLEAN
      OBVIOUS
    <3>2. Reported(c, TRUE) \in Report
      BY <2>1, <3>1, ReportIsReport
    <3> QED
      BY <1>1, <1>3, <2>1, <3>2 DEF BulkDone
  <2>3. c.deleted + c.failed = Cardinality(KeysOf(c.chosen)) /\ c.gone = c.deleted
    <3>1. c.deleted \in Nat /\ c.failed \in Nat /\ Cardinality({}) = 0
      BY <2>1, FS_EmptySet DEF Run
    <3> QED
      BY <2>1, <3>1 DEF Settled
  <2>4. BulkReportAddsUp'
    BY <2>2, <2>3 DEF BulkReportAddsUp, Reported
  <2> QED
    BY <1>2, <2>2, <2>4 DEF BulkInv, BulkTypeOK
<1>4. CASE BulkFails
  <2>1. FALSE \in BOOLEAN
    OBVIOUS
  <2>2. Reported(b, FALSE) \in Report /\ Reported(b, FALSE).ok = FALSE
    BY <1>1, <2>1, ReportIsReport DEF Reported
  <2>3. bulkMsg' = Reported(b, FALSE)
    BY <1>1, <1>4 DEF BulkFails
  <2> QED
    BY <1>2, <2>2, <2>3 DEF BulkInv, BulkTypeOK, BulkReportAddsUp
<1> QED
  BY <1>3, <1>4

LEMMA BulkInvStep == BulkInv /\ [BulkNext]_bulkVars => BulkInv'
<1> SUFFICES ASSUME BulkInv, [BulkNext]_bulkVars PROVE BulkInv'
  OBVIOUS
<1>1. CASE \/ \E t \in Tables : GoTo(t) \/ \E k \in Keys : RowVanishes(t, k)
           \/ \E k \in Keys : ToggleSel(k)
           \/ \E K \in SUBSET Keys : TogglePage(K)
           \/ ClearSel
  BY <1>1, TickingKeeps
<1>2. CASE \E K \in SUBSET Keys : RunBulkDelete(K) \/ NextChunk(K)
  BY <1>2, RunKeeps
<1>3. CASE \E K \in SUBSET Keys, said \in {"done", "error"} : ServeChunk(K, said)
  BY <1>3, ServeChunkKeeps
<1>4. CASE BulkDone \/ BulkFails
  BY <1>4, BulkEndKeeps
<1>5. CASE UNCHANGED bulkVars
  BY <1>5 DEF bulkVars, BulkInv, BulkTypeOK, BulkReportAddsUp, Accounted
<1> QED
  BY <1>1, <1>2, <1>3, <1>4, <1>5 DEF BulkNext

LEMMA BulkInvHolds == BulkSpec => []BulkInv
<1> QED
  BY BulkInvInit, BulkInvStep, PTL DEF BulkSpec

\* The ticked rows and a bulk delete under way have their types, and no key is ticked twice,
\* whichever tables the user visits (Data.tsx).
THEOREM BulkTypesHold == BulkSpec => []BulkTypeOK
<1>1. BulkInv => BulkTypeOK
  BY DEF BulkInv
<1> QED
  BY BulkInvHolds, <1>1, PTL

\* What a finished bulk delete reports accounts for every key that was ticked, and says
\* deleted of as many rows as were, for any number of keys and any size of its requests
\* (Data.tsx runBulkDelete).
THEOREM BulkReportAlwaysAddsUp == BulkSpec => []BulkReportAddsUp
<1>1. BulkInv => BulkReportAddsUp
  BY DEF BulkInv
<1> QED
  BY BulkInvHolds, <1>1, PTL
-----------------------------------------------------------------------------
(* Reading in pages.  Of a reading that nothing disturbed, the rows of all *)
(* pages before the one that is asked for were read, and the page on its   *)
(* way is the next one.                                                    *)

NoRowTwice(s) == \A i, j \in 1..Len(s) : s[i] = s[j] => i = j

RowsBefore(n) == SubSeq(store, 1, (n - 1) * pageRows)

\* Between two pages of a reading that nothing disturbed, the rows of all pages before
\* were read, and there are more.
ReadSoFar ==
  readPc \in {"asking", "counting", "answered"} =>
    /\ (readPage - 1) * pageRows <= Len(store) /\ gathered = RowsBefore(readPage)
    /\ reader = "calendar" /\ readPage > 1 => want = Len(store)

AnswerIsPage ==
  /\ readPc \in {"counting", "answered"} => reply.rows = PageOf(store, readPage)
  /\ readPc = "answered" => reply.total = Len(store)

ChunkInv ==
  /\ ChunkTypeOK /\ store \in Seq(RowIds) /\ NoRowTwice(store)
  /\ readPc = "idle" => gathered = <<>> /\ ~disturbed
  /\ readPc \in {"asking", "counting", "answered"} => readPage >= 1
  /\ ~disturbed => ReadSoFar /\ AnswerIsPage /\ AllRowsRead

-----------------------------------------------------------------------------
(***************************************************************************)
(* Sequences without repetition.                                           *)
(***************************************************************************)
LEMMA EmptyHasNoRowTwice == NoRowTwice(<<>>)
BY DEF NoRowTwice

\* A finite set can be listed, each element once.
LEMMA RowsInSomeOrder ==
  ASSUME NEW S \in SUBSET RowIds
  PROVE  SetToSeq(S) \in Seq(RowIds) /\ NoRowTwice(SetToSeq(S))
<1> DEFINE n == Cardinality(S)
           Listing(f) == f \in [1..n -> S] /\ IsInjective(f)
<1>1. IsFiniteSet(S)
  BY ChunkAssumption, FS_Subset DEF ChunkAssumption
<1>2. n \in Nat /\ ExistsBijection(1..n, S)
  BY <1>1, FS_CardinalityType
<1>3. \E f : Listing(f)
  BY <1>2 DEF ExistsBijection, Bijection, Injection, IsInjective
<1>4. SetToSeq(S) = CHOOSE f \in [1..n -> S] : IsInjective(f)
  BY DEF SetToSeq
<1>5. Listing(SetToSeq(S))
  BY <1>3, <1>4
<1> HIDE DEF n
<1>6. SetToSeq(S) \in Seq(RowIds) /\ Len(SetToSeq(S)) = n
  BY <1>2, <1>5
<1> QED
  BY <1>5, <1>6, <1>2 DEF NoRowTwice, IsInjective

LEMMA NoMoreRowsThanThereAre ==
  ASSUME NEW s \in Seq(RowIds), NoRowTwice(s)
  PROVE  Len(s) <= LastPage
<1>1. Len(s) \in Nat /\ s \in [1..Len(s) -> RowIds]
  BY LenProperties
<1>2. s \in Injection(1..Len(s), RowIds)
  BY <1>1 DEF NoRowTwice, Injection, IsInjective
<1>3. IsFiniteSet(RowIds) /\ Cardinality(RowIds) <= LastPage /\ LastPage \in Nat
  BY ChunkAssumption DEF ChunkAssumption
<1>4. Cardinality(1..Len(s)) <= Cardinality(RowIds)
  BY <1>2, <1>3, FS_Injection
<1>5. Cardinality(1..Len(s)) = Len(s)
  BY <1>1, FS_Interval
<1>6. Cardinality(RowIds) \in Nat
  BY <1>3, FS_CardinalityType
<1> QED
  BY <1>1, <1>3, <1>4, <1>5, <1>6

\* A row inserted at i pushes the rows from i on one further.
LEMMA InsertedRow ==
  ASSUME NEW s \in Seq(RowIds), NEW r \in RowIds, NEW i \in 1..Len(s) + 1
  PROVE  /\ InsertAt(s, i, r) \in Seq(RowIds) /\ Len(InsertAt(s, i, r)) = Len(s) + 1
         /\ \A j \in 1..Len(s) + 1 :
              InsertAt(s, i, r)[j] = IF j < i THEN s[j] ELSE IF j = i THEN r ELSE s[j - 1]
<1> DEFINE before == SubSeq(s, 1, i - 1)
           after == SubSeq(s, i, Len(s))
<1>1. Len(s) \in Nat /\ i \in Nat /\ \A j \in 1..Len(s) : s[j] \in RowIds
  BY LenProperties, ElementOfSeq
<1>2. /\ before \in Seq(RowIds) /\ Len(before) = i - 1
      /\ \A j \in 1..i - 1 : before[j] = s[j]
  <2>1. \A j \in 1..i - 1 : s[j] \in RowIds
    BY <1>1
  <2>2. 1 \in Int /\ i - 1 \in Int
    BY <1>1
  <2> QED
    BY <1>1, <2>1, <2>2, SubSeqProperties
<1>3. /\ after \in Seq(RowIds) /\ Len(after) = Len(s) - i + 1
      /\ \A j \in 1..Len(s) - i + 1 : after[j] = s[i + j - 1]
  <2>1. \A j \in i..Len(s) : s[j] \in RowIds
    BY <1>1
  <2> QED
    BY <1>1, <2>1, SubSeqProperties
<1> HIDE DEF before, after
<1>4. <<r>> \in Seq(RowIds) /\ Len(<<r>>) = 1 /\ <<r>>[1] = r
  OBVIOUS
<1>5. /\ before \o <<r>> \in Seq(RowIds) /\ Len(before \o <<r>>) = i
      /\ \A j \in 1..i : (before \o <<r>>)[j] = IF j < i THEN s[j] ELSE r
  <2>1. /\ before \o <<r>> \in Seq(RowIds) /\ Len(before \o <<r>>) = i - 1 + 1
        /\ \A j \in 1..i - 1 + 1 :
             (before \o <<r>>)[j] = IF j <= i - 1 THEN before[j] ELSE <<r>>[j - (i - 1)]
    BY <1>2, <1>4, ConcatProperties
  <2> QED
    BY <1>1, <1>2, <1>4, <2>1
<1>6. /\ before \o <<r>> \o after \in Seq(RowIds)
      /\ Len(before \o <<r>> \o after) = i + (Len(s) - i + 1)
      /\ \A j \in 1..i + (Len(s) - i + 1) : (before \o <<r>> \o after)[j] =
           IF j <= i THEN (before \o <<r>>)[j] ELSE after[j - i]
  <2> DEFINE upToRow == before \o <<r>>
  <2> HIDE DEF upToRow
  <2>1. upToRow \in Seq(RowIds) /\ Len(upToRow) = i
    BY <1>5 DEF upToRow
  <2>2. /\ upToRow \o after \in Seq(RowIds) /\ Len(upToRow \o after) = Len(upToRow) + Len(after)
        /\ \A j \in 1..Len(upToRow) + Len(after) : (upToRow \o after)[j] =
             IF j <= Len(upToRow) THEN upToRow[j] ELSE after[j - Len(upToRow)]
    BY <1>3, <2>1, ConcatProperties
  <2>3. /\ upToRow \o after \in Seq(RowIds)
        /\ Len(upToRow \o after) = i + (Len(s) - i + 1)
        /\ \A j \in 1..i + (Len(s) - i + 1) : (upToRow \o after)[j] =
             IF j <= i THEN upToRow[j] ELSE after[j - i]
    BY <1>3, <2>1, <2>2
  <2> QED
    BY <2>3 DEF upToRow
<1>7. InsertAt(s, i, r) = before \o <<r>> \o after
  BY DEF InsertAt, before, after
<1> DEFINE upToRow == before \o <<r>>
           t == before \o <<r>> \o after
<1> HIDE DEF upToRow, t
<1>8. \A j \in 1..Len(s) + 1 : t[j] = IF j < i THEN s[j] ELSE IF j = i THEN r ELSE s[j - 1]
  <2> SUFFICES ASSUME NEW j \in 1..Len(s) + 1
               PROVE  t[j] = IF j < i THEN s[j] ELSE IF j = i THEN r ELSE s[j - 1]
    OBVIOUS
  <2>1. t[j] = IF j <= i THEN upToRow[j] ELSE after[j - i]
    <3>1. j \in 1..i + (Len(s) - i + 1)
      BY <1>1
    <3> QED
      BY <1>6, <3>1 DEF t, upToRow
  <2>2. j <= i => upToRow[j] = IF j < i THEN s[j] ELSE r
    BY <1>1, <1>5 DEF upToRow
  <2>3. j > i => after[j - i] = s[i + (j - i) - 1]
    BY <1>1, <1>3
  <2>4. i + (j - i) - 1 = j - 1
    BY <1>1
  <2> QED
    BY <1>1, <2>1, <2>2, <2>3, <2>4
<1> QED
  BY <1>1, <1>6, <1>7, <1>8 DEF t

LEMMA RemovedRow ==
  ASSUME NEW s \in Seq(RowIds), NEW i \in 1..Len(s)
  PROVE  /\ RemoveAt(s, i) \in Seq(RowIds) /\ Len(RemoveAt(s, i)) = Len(s) - 1
         /\ \A j \in 1..Len(s) - 1 : RemoveAt(s, i)[j] = IF j < i THEN s[j] ELSE s[j + 1]
<1> DEFINE before == SubSeq(s, 1, i - 1)
           after == SubSeq(s, i + 1, Len(s))
<1>1. Len(s) \in Nat /\ i \in Nat /\ \A j \in 1..Len(s) : s[j] \in RowIds
  BY LenProperties, ElementOfSeq
<1>2. /\ before \in Seq(RowIds) /\ Len(before) = i - 1
      /\ \A j \in 1..i - 1 : before[j] = s[j]
  <2>1. \A j \in 1..i - 1 : s[j] \in RowIds
    BY <1>1
  <2>2. 1 \in Int /\ i - 1 \in Int
    BY <1>1
  <2> QED
    BY <1>1, <2>1, <2>2, SubSeqProperties
<1>3. /\ after \in Seq(RowIds) /\ Len(after) = Len(s) - i
      /\ \A j \in 1..Len(s) - i : after[j] = s[i + j]
  <2>1. \A j \in i + 1..Len(s) : s[j] \in RowIds
    BY <1>1
  <2>2. i + 1 \in Int /\ Len(s) \in Int
    BY <1>1
  <2>3. /\ after \in Seq(RowIds)
        /\ Len(after) = IF i + 1 <= Len(s) THEN Len(s) - (i + 1) + 1 ELSE 0
        /\ \A j \in 1..Len(s) - (i + 1) + 1 : after[j] = s[i + 1 + j - 1]
    BY <2>1, <2>2, SubSeqProperties
  <2> QED
    BY <1>1, <2>3
<1> HIDE DEF before, after
<1>4. /\ before \o after \in Seq(RowIds) /\ Len(before \o after) = i - 1 + (Len(s) - i)
      /\ \A j \in 1..i - 1 + (Len(s) - i) :
           (before \o after)[j] = IF j <= i - 1 THEN before[j] ELSE after[j - (i - 1)]
  <2>1. /\ before \o after \in Seq(RowIds) /\ Len(before \o after) = Len(before) + Len(after)
        /\ \A j \in 1..Len(before) + Len(after) : (before \o after)[j] =
             IF j <= Len(before) THEN before[j] ELSE after[j - Len(before)]
    BY <1>2, <1>3, ConcatProperties
  <2> QED
    BY <1>2, <1>3, <2>1
<1>5. RemoveAt(s, i) = before \o after
  BY DEF RemoveAt, before, after
<1>6. \A j \in 1..Len(s) - 1 : (before \o after)[j] = IF j < i THEN s[j] ELSE s[j + 1]
  <2> SUFFICES ASSUME NEW j \in 1..Len(s) - 1
               PROVE  (before \o after)[j] = IF j < i THEN s[j] ELSE s[j + 1]
    OBVIOUS
  <2>1. (before \o after)[j] = IF j <= i - 1 THEN before[j] ELSE after[j - (i - 1)]
    BY <1>1, <1>4
  <2>2. j < i => before[j] = s[j]
    BY <1>1, <1>2
  <2>3. j >= i => after[j - (i - 1)] = s[i + (j - (i - 1))]
    BY <1>1, <1>3
  <2>4. i + (j - (i - 1)) = j + 1
    BY <1>1
  <2> QED
    BY <1>1, <2>1, <2>2, <2>3, <2>4
<1> QED
  BY <1>1, <1>4, <1>5, <1>6

LEMMA InsertAddsNoneTwice ==
  ASSUME NEW s \in Seq(RowIds), NoRowTwice(s), NEW r \in RowIds \ Range(s), NEW i \in 1..Len(s) + 1
  PROVE  NoRowTwice(InsertAt(s, i, r))
<1> DEFINE t == InsertAt(s, i, r)
<1>1. /\ Len(t) = Len(s) + 1
      /\ \A j \in 1..Len(s) + 1 : t[j] = IF j < i THEN s[j] ELSE IF j = i THEN r ELSE s[j - 1]
  BY InsertedRow, SMTT(20)
<1>2. Len(s) \in Nat /\ \A j \in 1..Len(s) : s[j] # r
  BY LenProperties, RangeEquality
<1> HIDE DEF t
<1> SUFFICES ASSUME NEW j \in 1..Len(t), NEW k \in 1..Len(t), t[j] = t[k]
             PROVE  j = k
  BY DEF NoRowTwice, t
<1> QED
  BY <1>1, <1>2 DEF NoRowTwice

LEMMA RemovalLeavesNoneTwice ==
  ASSUME NEW s \in Seq(RowIds), NoRowTwice(s), NEW i \in 1..Len(s)
  PROVE  NoRowTwice(RemoveAt(s, i))
<1> DEFINE t == RemoveAt(s, i)
<1>1. Len(t) = Len(s) - 1 /\ \A j \in 1..Len(s) - 1 : t[j] = IF j < i THEN s[j] ELSE s[j + 1]
  BY RemovedRow
<1>2. Len(s) \in Nat
  BY LenProperties
<1> HIDE DEF t
<1> SUFFICES ASSUME NEW j \in 1..Len(t), NEW k \in 1..Len(t), t[j] = t[k]
             PROVE  j = k
  BY DEF NoRowTwice, t
<1> QED
  BY <1>1, <1>2, SMTT(20) DEF NoRowTwice
-----------------------------------------------------------------------------
(***************************************************************************)
(* The rows of the pages before page n, and of page n.                     *)
(***************************************************************************)
LEMMA PageIsRows ==
  ASSUME pageRows \in Nat \ {0}, NEW s \in Seq(RowIds), NEW n \in Nat \ {0}
  PROVE  PageOf(s, n) \in Seq(RowIds)
<1> DEFINE lo == (n - 1) * pageRows + 1
           hi == IF n * pageRows < Len(s) THEN n * pageRows ELSE Len(s)
<1>1. Len(s) \in Nat /\ \A j \in 1..Len(s) : s[j] \in RowIds
  BY LenProperties, ElementOfSeq
<1>2. (n - 1) * pageRows \in Nat /\ n * pageRows \in Nat
  OBVIOUS
<1>3. lo \in Int /\ hi \in Int /\ \A j \in lo..hi : s[j] \in RowIds
  BY <1>1, <1>2
<1>4. PageOf(s, n) = SubSeq(s, lo, hi)
  BY DEF PageOf
<1> HIDE DEF lo, hi
<1> QED
  BY <1>3, <1>4, SubSeqProperties

LEMMA PagesJoin ==
  ASSUME pageRows \in Nat \ {0}, NEW s \in Seq(RowIds), NEW n \in Nat \ {0},
         (n - 1) * pageRows <= Len(s)
  PROVE  LET upTo(k) == SubSeq(s, 1, k)
             read == upTo((n - 1) * pageRows) \o PageOf(s, n)
         IN  \/ n * pageRows >= Len(s) /\ read = s
             \/ /\ n * pageRows < Len(s) /\ n <= n * pageRows
                /\ read = upTo(n * pageRows) /\ Len(read) = n * pageRows /\ PageOf(s, n) # <<>>
<1> DEFINE lo == (n - 1) * pageRows
           hi == IF n * pageRows < Len(s) THEN n * pageRows ELSE Len(s)
           upTo(k) == SubSeq(s, 1, k)
           read == upTo(lo) \o PageOf(s, n)
<1>1. Len(s) \in Nat /\ \A j \in 1..Len(s) : s[j] \in RowIds
  BY LenProperties, ElementOfSeq
<1>2. lo \in Nat /\ n * pageRows \in Nat /\ n * pageRows = lo + pageRows /\ n <= n * pageRows
  OBVIOUS
<1>3. PageOf(s, n) = SubSeq(s, lo + 1, hi) /\ lo <= Len(s)
  BY DEF PageOf
<1>4. 1 \in 1..Len(s) + 1 /\ lo \in (1 - 1)..Len(s) /\ hi \in lo..Len(s)
  BY <1>1, <1>2, <1>3
<1> HIDE DEF lo, hi
<1>5. read = upTo(hi)
  BY <1>3, <1>4, ConcatAdjacentSubSeq
<1>6. CASE n * pageRows >= Len(s)
  <2>1. hi = Len(s)
    BY <1>1, <1>2, <1>6 DEF hi
  <2>2. upTo(Len(s)) = s
    BY SubSeqFull
  <2> QED
    BY <1>5, <1>6, <2>1, <2>2 DEF lo
<1>7. CASE n * pageRows < Len(s)
  <2>1. hi = n * pageRows
    BY <1>7 DEF hi
  <2>2. \A j \in 1..n * pageRows : s[j] \in RowIds
    BY <1>1, <1>2, <1>7
  <2>3. Len(upTo(n * pageRows)) = n * pageRows
    <3>1. 1 \in Int /\ n * pageRows \in Int
      BY <1>2
    <3>2. Len(upTo(n * pageRows)) = IF 1 <= n * pageRows THEN n * pageRows - 1 + 1 ELSE 0
      BY <2>2, <3>1, SubSeqProperties
    <3> QED
      BY <1>2, <3>2
  <2>4. PageOf(s, n) # <<>>
    <3>1. \A j \in lo + 1..hi : s[j] \in RowIds
      BY <1>1, <1>2, <1>7, <2>1
    <3>2. lo + 1 \in Int /\ hi \in Int /\ lo + 1 <= hi
      BY <1>2, <2>1
    <3>3. Len(PageOf(s, n)) = hi - (lo + 1) + 1
      BY <1>3, <3>1, <3>2, SubSeqProperties
    <3>4. Len(PageOf(s, n)) > 0
      BY <1>2, <2>1, <3>3
    <3> QED
      BY <3>4
  <2> QED
    BY <1>2, <1>5, <1>7, <2>1, <2>3, <2>4 DEF lo
<1> QED
  BY <1>1, <1>2, <1>6, <1>7
-----------------------------------------------------------------------------
(***************************************************************************)
(* The reading.                                                            *)
(***************************************************************************)
LEMMA ChunkInvInit == ChunkInit => ChunkInv
<1> SUFFICES ASSUME ChunkInit PROVE ChunkInv
  OBVIOUS
<1>1. PICK S \in SUBSET RowIds : store = SetToSeq(S)
  BY DEF ChunkInit
<1>2. store \in Seq(RowIds) /\ NoRowTwice(store)
  BY <1>1, RowsInSomeOrder
<1>3. Range(store) \subseteq RowIds
  BY <1>2, RangeOfSeq
<1>4. <<>> \in Seq(RowIds) /\ LastPage \in Nat
  BY ChunkAssumption DEF ChunkAssumption
<1>5. reply \in [rows : Seq(RowIds), total : Nat]
  BY <1>4 DEF ChunkInit, NoReply
<1>6. ChunkTypeOK
  <2>1. readPage \in 0..LastPage + 1 /\ want \in Nat /\ gathered \in Seq(RowIds)
    BY <1>4 DEF ChunkInit
  <2> QED
    BY <1>3, <1>5, <2>1 DEF ChunkInit, ChunkTypeOK
<1> QED
  BY <1>2, <1>6 DEF ChunkInit, ChunkInv, ReadSoFar, AnswerIsPage, AllRowsRead

\* The first page comes after no rows.
LEMMA FirstPage ==
  ASSUME pageRows \in Nat \ {0}
  PROVE  (1 - 1) * pageRows = 0 /\ RowsBefore(1) = <<>>
<1>1. (1 - 1) * pageRows = 0
  OBVIOUS
<1>2. SubSeq(store, 1, 0) = <<>>
  BY SubSeqEmpty
<1> QED
  BY <1>1, <1>2 DEF RowsBefore

LEMMA PageRowsPositive == ChunkInv => pageRows \in Nat \ {0} /\ LastPage \in Nat
BY ChunkAssumption DEF ChunkInv, ChunkTypeOK, ChunkAssumption

LEMMA StartKeeps == ChunkInv /\ (StartReading \/ PageFails) => ChunkInv'
<1> SUFFICES ASSUME ChunkInv, StartReading \/ PageFails PROVE ChunkInv'
  OBVIOUS
<1>1. pageRows \in Nat \ {0} /\ LastPage \in Nat
  BY PageRowsPositive
<1>2. /\ UNCHANGED <<store, pageRows, reader, reply, want>>
      /\ \/ readPc' = "failed" /\ UNCHANGED <<readPage, disturbed>>
         \/ readPc' = "asking" /\ readPage' = 1
      /\ gathered' = <<>> /\ retried' \in BOOLEAN /\ disturbed' \in BOOLEAN
  BY DEF StartReading, PageFails, ChunkInv, ChunkTypeOK
<1>3. ChunkTypeOK'
  <2>1. <<>> \in Seq(RowIds)
    OBVIOUS
  <2>2. readPage' \in 0..LastPage + 1
    BY <1>1, <1>2 DEF ChunkInv, ChunkTypeOK
  <2> QED
    BY <1>2, <2>1, <2>2 DEF ChunkInv, ChunkTypeOK
<1>4. store' \in Seq(RowIds) /\ NoRowTwice(store)'
  BY <1>2 DEF ChunkInv, NoRowTwice
<1>5. CASE readPc' = "failed"
  BY <1>3, <1>4, <1>5 DEF ChunkInv, ReadSoFar, AnswerIsPage, AllRowsRead
<1>6. CASE readPc' = "asking" /\ readPage' = 1
  <2>1. (readPage' - 1) * pageRows' = 0 /\ SubSeq(store', 1, (readPage' - 1) * pageRows') = <<>>
    BY <1>1, <1>2, <1>6, FirstPage DEF RowsBefore
  <2>2. Len(store') \in Nat
    BY <1>4, LenProperties
  <2>3. ReadSoFar'
    BY <1>2, <1>6, <2>1, <2>2 DEF ReadSoFar, RowsBefore
  <2> QED
    BY <1>3, <1>4, <1>6, <2>3 DEF ChunkInv, AnswerIsPage, AllRowsRead
<1> QED
  BY <1>2, <1>5, <1>6

LEMMA ServeKeeps == ChunkInv /\ (ServePage \/ CountRows) => ChunkInv'
<1> SUFFICES ASSUME ChunkInv, ServePage \/ CountRows PROVE ChunkInv'
  OBVIOUS
<1>1. pageRows \in Nat \ {0} /\ readPage \in Nat \ {0} /\ Len(store) \in Nat
  BY PageRowsPositive, LenProperties DEF ServePage, CountRows, ChunkInv, ChunkTypeOK
<1>2. PageOf(store, readPage) \in Seq(RowIds)
  BY <1>1, PageIsRows DEF ChunkInv
<1>3. reply' \in [rows : Seq(RowIds), total : Nat]
  BY <1>1, <1>2 DEF ServePage, CountRows, ChunkInv, ChunkTypeOK
<1>4. /\ UNCHANGED <<store, pageRows, reader, readPage, gathered, want, retried, disturbed>>
      /\ readPc \in {"asking", "counting"} /\ readPc' \in {"counting", "answered"}
  BY DEF ServePage, CountRows
<1>5. ChunkTypeOK'
  BY <1>3, <1>4 DEF ChunkInv, ChunkTypeOK
<1>6. ASSUME ~disturbed PROVE AnswerIsPage'
  <2>1. PageOf(store, readPage)' = PageOf(store, readPage)
    BY <1>4 DEF PageOf
  <2>2. CASE ServePage
    BY <2>1, <2>2 DEF ServePage, AnswerIsPage
  <2>3. CASE CountRows
    <3>1. reply.rows = PageOf(store, readPage)
      BY <1>6, <2>3 DEF CountRows, ChunkInv, AnswerIsPage
    <3>2. reply'.rows = reply.rows /\ reply'.total = Len(store)
      BY <2>3 DEF CountRows, ChunkInv, ChunkTypeOK
    <3> QED
      BY <1>4, <2>1, <3>1, <3>2 DEF AnswerIsPage
  <2> QED
    BY <2>2, <2>3
<1> QED
  BY <1>4, <1>5, <1>6 DEF ChunkInv, ReadSoFar, RowsBefore, AllRowsRead, NoRowTwice

\* What a page that arrives undisturbed leads to: every row is read, or the next page is
\* asked for.
LEMMA PageTaken ==
  ASSUME ChunkInv, TakeRows
  PROVE  /\ gathered' \in Seq(RowIds) /\ Len(gathered') \in Nat
         /\ ~disturbed =>
              \/ gathered' = store /\ Len(gathered') >= reply.total
              \/ /\ gathered' = SubSeq(store, 1, readPage * pageRows)
                 /\ readPage * pageRows <= Len(store) /\ Len(gathered') < reply.total
                 /\ reply.rows # <<>> /\ readPage <= LastPage
<1>1. pageRows \in Nat \ {0} /\ LastPage \in Nat /\ readPage \in Nat \ {0} /\ Len(store) \in Nat
  BY PageRowsPositive, LenProperties DEF TakeRows, ChunkInv, ChunkTypeOK
<1>2. gathered' \in Seq(RowIds)
  BY ConcatProperties DEF TakeRows, ChunkInv, ChunkTypeOK
<1>3. Len(gathered') \in Nat
  BY <1>2, LenProperties
<1>4. ASSUME ~disturbed
      PROVE  \/ gathered' = store /\ Len(gathered') >= reply.total
             \/ /\ gathered' = SubSeq(store, 1, readPage * pageRows)
                /\ readPage * pageRows <= Len(store) /\ Len(gathered') < reply.total
                /\ reply.rows # <<>> /\ readPage <= LastPage
  <2>1. /\ gathered = SubSeq(store, 1, (readPage - 1) * pageRows)
        /\ (readPage - 1) * pageRows <= Len(store)
        /\ reply.rows = PageOf(store, readPage) /\ reply.total = Len(store)
    BY <1>4 DEF TakeRows, ChunkInv, ReadSoFar, RowsBefore, AnswerIsPage
  <2>2. gathered' = SubSeq(store, 1, (readPage - 1) * pageRows) \o PageOf(store, readPage)
    BY <2>1 DEF TakeRows
  <2>3. store \in Seq(RowIds)
    BY DEF ChunkInv
  <2>4. \/ gathered' = store
        \/ /\ readPage * pageRows < Len(store) /\ readPage <= readPage * pageRows
           /\ gathered' = SubSeq(store, 1, readPage * pageRows)
           /\ Len(gathered') = readPage * pageRows /\ PageOf(store, readPage) # <<>>
    BY <1>1, <2>1, <2>2, <2>3, PagesJoin
  <2>5. readPage * pageRows \in Nat /\ Len(store) <= LastPage
    BY <1>1, <2>3, NoMoreRowsThanThereAre DEF ChunkInv
  <2> QED
    BY <1>1, <2>1, <2>4, <2>5
<1> QED
  BY <1>2, <1>3, <1>4

LEMMA TakeKeeps == ChunkInv /\ (GroupedPage \/ CalendarPage) => ChunkInv'
<1> SUFFICES ASSUME ChunkInv, GroupedPage \/ CalendarPage PROVE ChunkInv'
  OBVIOUS
<1>1. TakeRows /\ UNCHANGED <<store, pageRows, reader, retried, disturbed>> /\ reply' = NoReply
  BY DEF GroupedPage, CalendarPage, TakeRows
<1>2. pageRows \in Nat \ {0} /\ LastPage \in Nat /\ readPage \in Nat \ {0} /\ Len(store) \in Nat
  BY <1>1, PageRowsPositive, LenProperties DEF TakeRows, ChunkInv, ChunkTypeOK
<1>3. /\ gathered' \in Seq(RowIds) /\ Len(gathered') \in Nat
      /\ reply.total \in Nat /\ want' \in Nat
  BY <1>1, PageTaken DEF GroupedPage, CalendarPage, ChunkInv, ChunkTypeOK
<1>4. Finish \/ Turn
  BY DEF GroupedPage, CalendarPage
<1>5. /\ readPage' \in 0..LastPage + 1 /\ readPage' >= 1 /\ readPc' \in {"asking", "done"}
  BY <1>2, <1>4 DEF Finish, Turn, ChunkInv, ChunkTypeOK
<1>6. ChunkTypeOK'
  <2>1. reply' \in [rows : Seq(RowIds), total : Nat]
    <3>1. <<>> \in Seq(RowIds)
      OBVIOUS
    <3> QED
      BY <1>1, <3>1 DEF NoReply
  <2> QED
    BY <1>1, <1>3, <1>5, <2>1 DEF ChunkInv, ChunkTypeOK
<1>7. ASSUME ~disturbed PROVE ReadSoFar' /\ AllRowsRead'
  <2>1. CASE gathered' = store /\ Len(gathered') >= reply.total
    <3>1. reply.total = Len(store) /\ (readPage > 1 /\ reader = "calendar" => want = Len(store))
      BY <1>1, <1>7 DEF TakeRows, ChunkInv, ReadSoFar, AnswerIsPage
    <3>2. readPage = 1 \/ readPage > 1
      BY <1>2
    <3>3. Finish
      BY <1>3, <2>1, <3>1, <3>2 DEF GroupedPage, CalendarPage, Over
    <3> QED
      BY <1>1, <2>1, <3>3 DEF Finish, ReadSoFar, AllRowsRead
  <2>2. CASE /\ gathered' = SubSeq(store, 1, readPage * pageRows)
             /\ readPage * pageRows <= Len(store) /\ Len(gathered') < reply.total
             /\ reply.rows # <<>> /\ readPage <= LastPage
    <3>1. reply.total = Len(store) /\ (readPage > 1 /\ reader = "calendar" => want = Len(store))
      BY <1>1, <1>7 DEF TakeRows, ChunkInv, ReadSoFar, AnswerIsPage
    <3>2. readPage = 1 \/ readPage > 1
      BY <1>2
    <3>3. reader = "calendar" => Turn /\ want' = Len(store)
      BY <1>2, <1>3, <2>2, <3>1, <3>2 DEF GroupedPage, CalendarPage
    <3>4. reader = "grouped" => Turn \/ (Finish /\ Len(gathered') >= Cap)
      BY <1>2, <1>3, <2>2, <3>1 DEF GroupedPage, CalendarPage, Over
    <3>5. CASE Turn
      <4>1. readPage' = readPage + 1 /\ readPage' - 1 = readPage /\ readPc' = "asking"
        BY <1>2, <2>2, <3>5 DEF Turn
      <4>2. reader' = "calendar" => want' = Len(store)
        BY <1>1, <3>3
      <4> QED
        BY <1>1, <2>2, <4>1, <4>2 DEF ReadSoFar, RowsBefore, AllRowsRead
    <3>6. CASE Finish /\ reader = "grouped" /\ Len(gathered') >= Cap
      BY <1>1, <3>6 DEF Finish, ReadSoFar, AllRowsRead, Truncated
    <3> QED
      BY <3>3, <3>4, <3>5, <3>6 DEF ChunkInv, ChunkTypeOK
  <2> QED
    BY <1>1, <1>7, <2>1, <2>2, PageTaken
<1>8. store' \in Seq(RowIds) /\ NoRowTwice(store)'
  BY <1>1 DEF ChunkInv, NoRowTwice
<1> QED
  BY <1>1, <1>5, <1>6, <1>7, <1>8 DEF ChunkInv, AnswerIsPage

LEMMA ChangeKeeps == ChunkInv /\ RowsChange => ChunkInv'
<1> SUFFICES ASSUME ChunkInv, RowsChange PROVE ChunkInv'
  OBVIOUS
<1>1. store \in Seq(RowIds) /\ NoRowTwice(store)
  BY DEF ChunkInv
<1>2. PICK t : t = store'
  OBVIOUS
<1>3. t \in Seq(RowIds) /\ NoRowTwice(t)
  <2>1. CASE \E r \in RowIds \ Range(store), i \in 1..Len(store) + 1 : store' = InsertAt(store, i, r)
    <3>1. PICK r \in RowIds \ Range(store), i \in 1..Len(store) + 1 : t = InsertAt(store, i, r)
      BY <1>2, <2>1
    <3>2. InsertAt(store, i, r) \in Seq(RowIds)
      BY <1>1, InsertedRow
    <3>3. NoRowTwice(InsertAt(store, i, r))
      BY <1>1, InsertAddsNoneTwice
    <3> QED
      BY <3>1, <3>2, <3>3
  <2>2. CASE \E i \in 1..Len(store) : store' = RemoveAt(store, i)
    <3>1. PICK i \in 1..Len(store) : t = RemoveAt(store, i)
      BY <1>2, <2>2
    <3>2. RemoveAt(store, i) \in Seq(RowIds)
      BY <1>1, RemovedRow
    <3>3. NoRowTwice(RemoveAt(store, i))
      BY <1>1, RemovalLeavesNoneTwice
    <3> QED
      BY <3>1, <3>2, <3>3
  <2> QED
    BY <2>1, <2>2 DEF RowsChange
<1>4. Range(t) \subseteq RowIds
  BY <1>3, RangeOfSeq
<1>5. store' \in Seq(RowIds) /\ NoRowTwice(store)' /\ Range(store') \subseteq RowIds
  BY <1>2, <1>3, <1>4 DEF NoRowTwice
<1> QED
  BY <1>5 DEF RowsChange, ChunkInv, ChunkTypeOK

LEMMA ChunkInvStep == ChunkInv /\ [ChunkNext]_chunkVars => ChunkInv'
<1> SUFFICES ASSUME ChunkInv, [ChunkNext]_chunkVars PROVE ChunkInv'
  OBVIOUS
<1>1. CASE StartReading \/ PageFails
  BY <1>1, StartKeeps
<1>2. CASE ServePage \/ CountRows
  BY <1>2, ServeKeeps
<1>3. CASE GroupedPage \/ CalendarPage
  BY <1>3, TakeKeeps
<1>4. CASE RowsChange
  BY <1>4, ChangeKeeps
<1>5. CASE UNCHANGED chunkVars
  BY <1>5 DEF chunkVars, ChunkInv, ChunkTypeOK, NoRowTwice, ReadSoFar, RowsBefore, AnswerIsPage,
      PageOf, AllRowsRead, Truncated
<1> QED
  BY <1>1, <1>2, <1>3, <1>4, <1>5 DEF ChunkNext

LEMMA ChunkInvHolds == ChunkSpec => []ChunkInv
<1> QED
  BY ChunkInvInit, ChunkInvStep, PTL DEF ChunkSpec

\* The variables of a reading have their types: what was gathered and the page on its way
\* hold rows that there may be, and the page asked for stays within the bound.
THEOREM ChunkTypesHold == ChunkSpec => []ChunkTypeOK
<1>1. ChunkInv => ChunkTypeOK
  BY DEF ChunkInv
<1> QED
  BY ChunkInvHolds, <1>1, PTL

\* A reading in pages that no change of the rows came between ends with every row, once and
\* in the order of the server, unless the grouped grid says that rows are missing; this is
\* for any page size, cap and number of rows (Data.tsx, CalendarView.tsx).
THEOREM AllRowsAreRead == ChunkSpec => []AllRowsRead
<1>1. ChunkInv => AllRowsRead
  BY DEF ChunkInv, AllRowsRead
<1> QED
  BY ChunkInvHolds, <1>1, PTL
-----------------------------------------------------------------------------
(***************************************************************************)
(* How long a reading can take.                                            *)
(***************************************************************************)
Reading == {"asking", "counting", "answered"}

\* What is left of a reading: the second try, pages, and the steps of this page.
Left ==
  (IF retried THEN 0 ELSE 3 * LastPage + 6) + 3 * (LastPage + 1 - readPage)
    + (IF readPc = "asking" THEN 3 ELSE IF readPc = "counting" THEN 2
       ELSE IF readPc = "answered" THEN 1 ELSE 0)

WearsOut == readPc \in Reading => Left' < Left \/ (RowsChange /\ Left' = Left)

\* The pages past the last are empty whatever becomes of the rows, for there are never
\* more rows than fill the pages before.
PastTheEnd ==
  /\ readPc \in {"counting", "answered"} /\ readPage > LastPage => reply.rows = <<>>
  /\ readPc = "answered" => reply.total <= LastPage

LEMMA NoPageBeyondRows ==
  ASSUME ChunkInv, NEW n \in Nat \ {0}, n > LastPage
  PROVE  PageOf(store, n) = <<>>
<1> DEFINE lo == (n - 1) * pageRows
           hi == IF n * pageRows < Len(store) THEN n * pageRows ELSE Len(store)
<1>1. pageRows \in Nat \ {0} /\ LastPage \in Nat /\ Len(store) \in Nat /\ Len(store) <= LastPage
  BY PageRowsPositive, LenProperties, NoMoreRowsThanThereAre DEF ChunkInv
<1>2. lo \in Nat /\ n * pageRows = lo + pageRows /\ n - 1 <= lo
  BY <1>1
<1>3. hi = Len(store) /\ hi < lo + 1
  BY <1>1, <1>2
<1>4. PageOf(store, n) = SubSeq(store, lo + 1, hi)
  BY DEF PageOf
<1> HIDE DEF lo, hi
<1>5. lo + 1 \in Int /\ hi \in Int
  BY <1>1, <1>2, <1>3
<1> QED
  BY <1>3, <1>4, <1>5, SubSeqEmpty

LEMMA PastTheEndStep == ChunkInv /\ PastTheEnd /\ [ChunkNext]_chunkVars => PastTheEnd'
<1> SUFFICES ASSUME ChunkInv, PastTheEnd, [ChunkNext]_chunkVars PROVE PastTheEnd'
  OBVIOUS
<1>1. CASE ServePage
  <2>1. readPage \in Nat \ {0}
    BY <1>1, PageRowsPositive DEF ServePage, ChunkInv, ChunkTypeOK
  <2>2. readPage > LastPage => PageOf(store, readPage) = <<>>
    BY <2>1, NoPageBeyondRows
  <2> QED
    BY <1>1, <2>2 DEF ServePage, PastTheEnd
<1>2. CASE CountRows
  <2>1. Len(store) <= LastPage
    BY NoMoreRowsThanThereAre DEF ChunkInv
  <2>2. reply'.rows = reply.rows /\ reply'.total = Len(store)
    BY <1>2 DEF CountRows, ChunkInv, ChunkTypeOK
  <2> QED
    BY <1>2, <2>1, <2>2 DEF CountRows, PastTheEnd
<1>3. CASE StartReading \/ PageFails \/ GroupedPage \/ CalendarPage
  <2>1. readPc' \in {"asking", "done", "failed"}
    BY <1>3 DEF StartReading, PageFails, GroupedPage, CalendarPage, Finish, Turn
  <2> QED
    BY <2>1 DEF PastTheEnd
<1>4. CASE RowsChange
  BY <1>4 DEF RowsChange, PastTheEnd
<1>5. CASE UNCHANGED chunkVars
  BY <1>5 DEF chunkVars, PastTheEnd
<1> QED
  BY <1>1, <1>2, <1>3, <1>4, <1>5 DEF ChunkNext

\* A loop that goes on asks for the page that follows, and one there may be.
LEMMA TurnAdvances ==
  ASSUME ChunkInv, PastTheEnd, GroupedPage \/ CalendarPage
  PROVE  Finish \/ (readPc' = "asking" /\ readPage <= LastPage /\ readPage' = readPage + 1)
<1>1. /\ LastPage \in Nat /\ readPage \in Nat \ {0} /\ reply.total \in Nat /\ want \in Nat
      /\ readPc = "answered" /\ TakeRows
  BY PageRowsPositive DEF GroupedPage, CalendarPage, TakeRows, ChunkInv, ChunkTypeOK
<1>2. Len(gathered') \in Nat
  BY <1>1, PageTaken
<1>3. CASE readPage <= LastPage
  BY <1>1, <1>3 DEF GroupedPage, CalendarPage, Turn
<1>4. CASE readPage > LastPage
  <2>1. reply.rows = <<>> /\ reply.total <= LastPage
    BY <1>1, <1>4 DEF PastTheEnd
  <2>2. readPage = 1 => reply.total = 0
    BY <1>1, <1>4, <2>1
  <2>3. readPage = 1 \/ readPage > 1
    BY <1>1
  <2>4. GroupedPage => Finish
    BY <2>1 DEF GroupedPage, Over
  <2>5. CalendarPage => Finish
    BY <1>2, <2>1, <2>2, <2>3 DEF CalendarPage
  <2> QED
    BY <2>4, <2>5
<1> QED
  BY <1>1, <1>3, <1>4

LEMMA LeftStep ==
  ASSUME ChunkInv, PastTheEnd, readPc \in Reading, ChunkNext
  PROVE  WearsOut
<1>1. LastPage \in Nat /\ readPage \in 1..LastPage + 1 /\ retried \in BOOLEAN
  BY PageRowsPositive DEF Reading, ChunkInv, ChunkTypeOK
<1>2. CASE ServePage \/ CountRows
  BY <1>1, <1>2 DEF ServePage, CountRows, Left, WearsOut
<1>3. CASE PageFails
  <2>1. CASE retried
    BY <1>1, <1>3, <2>1 DEF PageFails, Left, WearsOut
  <2>2. CASE ~retried
    BY <1>1, <1>3, <2>2 DEF PageFails, Left, WearsOut
  <2> QED
    BY <2>1, <2>2
<1>4. CASE GroupedPage \/ CalendarPage
  <2>1. Finish \/ (readPc' = "asking" /\ readPage <= LastPage /\ readPage' = readPage + 1)
    BY <1>4, TurnAdvances
  <2>2. readPc = "answered" /\ retried' = retried
    BY <1>4 DEF GroupedPage, CalendarPage, TakeRows
  <2> QED
    BY <1>1, <2>1, <2>2 DEF Finish, Left, WearsOut
<1>5. CASE RowsChange
  BY <1>5 DEF RowsChange, Left, WearsOut
<1>6. ~StartReading
  BY DEF StartReading, Reading
<1> QED
  BY <1>2, <1>3, <1>4, <1>5, <1>6 DEF ChunkNext, WearsOut

\* Every step of a reading brings it nearer to its end, those of the rows excepted, which
\* do not put it off: so it takes no more requests than there can be pages, twice, whatever
\* totals the server reports meanwhile (Data.tsx, CalendarView.tsx).  This is the half of
\* ReadingEnds that does not speak of fairness.
THEOREM ReadingWearsOut ==
  ChunkSpec =>
    /\ [](Left \in Nat)
    /\ [][WearsOut]_chunkVars
<1>1. ChunkInit => PastTheEnd
  BY DEF ChunkInit, PastTheEnd
<1>2. ChunkSpec => []PastTheEnd
  BY <1>1, PastTheEndStep, ChunkInvHolds, PTL DEF ChunkSpec
<1>3. ChunkInv => Left \in Nat
  <2> SUFFICES ASSUME ChunkInv PROVE Left \in Nat
    OBVIOUS
  <2>1. LastPage \in Nat /\ readPage \in 0..LastPage + 1 /\ retried \in BOOLEAN
    BY PageRowsPositive DEF ChunkInv, ChunkTypeOK
  <2> QED
    BY <2>1 DEF Left
<1>4. ChunkInv /\ PastTheEnd /\ [ChunkNext]_chunkVars
      => [WearsOut]_chunkVars
  BY LeftStep DEF WearsOut
<1> QED
  BY <1>2, <1>3, <1>4, ChunkInvHolds, PTL DEF ChunkSpec
-----------------------------------------------------------------------------
(* The m2m fields of the row editor.  A field differs from the links it    *)
(* was read to have by what the user toggled, unless another column's      *)
(* effect undid it.                                                        *)

\* A field, in an opening of the editor in which no other column's effect undid its value,
\* differs from the links it was last read to have by targets the user toggled only; and
\* so it does from the links in the cache.
FieldShows(c) ==
  /\ opening.base[c] \in {Nothing, linksCache[c]}
  /\ c \notin opening.lost /\ linksCache[c] # Nothing =>
       SymDiff(linksCache[c], Picked(editor, c)) \subseteq opening.toggled[c]

\* What a save keeps of a column's links is as it was read.
SaveKeeps(s, c) ==
  /\ s.base[c] = Nothing => s.keeps[c] = {}
  /\ s.base[c] # Nothing /\ s.values[c] # Nothing => SymDiff(s.base[c], s.values[c]) \cap s.keeps[c] = {}

FormInv ==
  /\ FormTypeOK
  /\ editor # Nothing => \A c \in M2MCols : FieldShows(c)
  /\ saving # Nothing => \A c \in M2MCols : SaveKeeps(saving, c)

\* Some columns of the form have a last one among them.
LEMMA LastColumn ==
  ASSUME NEW S \in SUBSET M2MCols, S # {}
  PROVE  Max(S) \in S
<1> DEFINE Bounded(T) == \E x \in T : \A y \in T : x >= y
           Bad(n) == \E T \in SUBSET M2MCols : T # {} /\ Cardinality(T) = n /\ ~Bounded(T)
           R == {p \in Nat \X Nat : p[1] < p[2]}
           N == {n \in Nat : Bad(n)}
<1>0. M2MCols \subseteq Nat /\ IsFiniteSet(M2MCols)
  BY FormAssumption DEF FormAssumption
<1>1. ASSUME NEW T \in SUBSET M2MCols, T # {} PROVE Bounded(T)
  <2> SUFFICES ASSUME ~Bounded(T) PROVE FALSE
    OBVIOUS
  <2>1. \A U \in SUBSET M2MCols : IsFiniteSet(U) /\ Cardinality(U) \in Nat
    BY <1>0, FS_Subset, FS_CardinalityType
  <2>2. Cardinality(T) \in N
    BY <1>1, <2>1
  <2>3. IsWellFoundedOn(R, Nat)
    BY NatLessThanWellFounded DEF OpToRel
  <2>4. PICK n \in N : \A m \in N : <<m, n>> \notin R
    <3> HIDE DEF R, Bad
    <3> QED
      BY <2>2, <2>3, WFMin
  <2>5. \A m \in N : n <= m
    <3>1. \A m \in Nat : <<m, n>> \notin R => n <= m
      BY <2>4
    <3> HIDE DEF R, Bad
    <3> QED
      BY <2>4, <3>1
  <2>6. PICK U \in SUBSET M2MCols : U # {} /\ Cardinality(U) = n /\ ~Bounded(U)
    BY <2>4
  <2>7. PICK x \in U : TRUE
    BY <2>6
  <2>8. U \ {x} \in SUBSET M2MCols /\ Cardinality(U \ {x}) = n - 1 /\ n - 1 \in Nat
    <3>1. IsFiniteSet(U) /\ Cardinality(U) = n
      BY <2>1, <2>6
    <3>2. Cardinality(U \ {x}) = Cardinality(U) - 1
      BY <2>7, <3>1, FS_RemoveElement
    <3>3. U \ {x} \in SUBSET M2MCols /\ Cardinality(U \ {x}) \in Nat
      BY <2>1
    <3> QED
      BY <3>1, <3>2, <3>3
  <2>9. n - 1 \notin N
    BY <2>5, <2>8
  <2>10. U \ {x} = {} \/ Bounded(U \ {x})
    BY <2>8, <2>9
  <2>11. Bounded(U)
    <3>1. \A y \in U : y \in Nat
      BY <1>0
    <3>2. CASE U \ {x} = {}
      BY <2>7, <3>1, <3>2
    <3>3. CASE Bounded(U \ {x})
      <4>1. PICK z \in U \ {x} : \A y \in U \ {x} : z >= y
        BY <3>3
      <4>2. CASE z >= x
        BY <4>1, <4>2
      <4>3. CASE ~(z >= x)
        <5>1. \A y \in U : x >= y
          BY <2>7, <3>1, <4>1, <4>3
        <5> QED
          BY <2>7, <5>1
      <4> QED
        BY <4>2, <4>3
    <3> QED
      BY <2>10, <3>2, <3>3
  <2> QED
    BY <2>6, <2>11
<1>2. Bounded(S)
  BY <1>1
<1> QED
  BY <1>2 DEF Max

LEMMA FormInvInit == FormInit => FormInv
<1> SUFFICES ASSUME FormInit PROVE FormInv
  OBVIOUS
<1>1. None \in FieldValues /\ NoLinks \in [M2MCols -> Links]
  BY DEF None, NoLinks, FieldValues, Links
<1>2. Fresh \in Opening
  BY <1>1 DEF Fresh, Opening
<1> QED
  BY <1>1, <1>2 DEF FormInit, FormInv, FormTypeOK, None

\* The values of fields, and a toggled one, are links.
LEMMA PickedLinks ==
  ASSUME NEW v \in FieldValues, NEW c \in M2MCols
  PROVE  Picked(v, c) \in Links
BY DEF Picked, FieldValues, Links

\* What the effects of a rendering leave in the fields, when the fields of other columns
\* showed what is cached.
LEMMA InitialiseShows ==
  ASSUME NEW v \in FieldValues, NEW o \in Opening, NEW d \in FieldValues, NEW S \in SUBSET M2MCols,
         Initialise(v, o, d, S),
         \A c \in M2MCols : o.base[c] \in {Nothing, d[c]},
         \A c \in M2MCols \ S : c \notin o.lost /\ d[c] # Nothing =>
           SymDiff(d[c], Picked(v, c)) \subseteq o.toggled[c]
  PROVE  /\ editor' \in FieldValues /\ opening' \in Opening
         /\ \A c \in M2MCols :
              /\ opening'.base[c] \in {Nothing, d[c]}
              /\ c \notin opening'.lost /\ d[c] # Nothing =>
                   SymDiff(d[c], Picked(editor', c)) \subseteq opening'.toggled[c]
<1> DEFINE unlike == {c \in S : d[c] # Nothing /\ d[c] # Picked(v, c)}
<1>1. \A c \in M2MCols : Picked(v, c) \in Links /\ o.toggled[c] \in Links
  BY PickedLinks DEF Opening
<1>2. CASE unlike = {}
  <2>1. editor' = v /\ opening' = o
    BY <1>2 DEF Initialise
  <2>2. \A c \in S : d[c] # Nothing => d[c] = Picked(v, c)
    BY <1>2
  <2>3. \A c \in S : d[c] # Nothing => SymDiff(d[c], Picked(v, c)) = {}
    BY <2>2 DEF SymDiff
  <2> QED
    BY <2>1, <2>3
<1>3. CASE unlike # {}
  <2>1. PICK last : last = Max(unlike) /\ last \in unlike
    <3>1. unlike \in SUBSET M2MCols
      OBVIOUS
    <3> HIDE DEF unlike
    <3> QED
      BY <1>3, <3>1, LastColumn
  <2>2. /\ editor' = [v EXCEPT ![last] = d[last]]
        /\ opening' = [o EXCEPT !.lost = (@ \cup unlike) \ {last}]
    BY <1>3, <2>1 DEF Initialise
  <2>3. last \in M2MCols /\ d[last] # Nothing /\ d[last] \in Links
    BY <2>1 DEF FieldValues
  <2>4. editor' \in FieldValues
    BY <2>2, <2>3 DEF FieldValues
  <2>5. /\ opening' \in Opening /\ opening'.base = o.base /\ opening'.toggled = o.toggled
        /\ opening'.lost = (o.lost \cup unlike) \ {last}
    BY <2>2 DEF Opening
  <2>6. ASSUME NEW c \in M2MCols, c \notin opening'.lost, d[c] # Nothing
        PROVE  SymDiff(d[c], Picked(editor', c)) \subseteq opening'.toggled[c]
    <3>1. CASE c = last
      <4>1. Picked(editor', c) = d[c]
        BY <2>2, <2>3, <3>1 DEF Picked, FieldValues
      <4> QED
        BY <4>1 DEF SymDiff
    <3>2. CASE c # last
      <4>1. c \notin unlike /\ c \notin o.lost
        BY <2>5, <2>6, <3>2
      <4>2. Picked(editor', c) = Picked(v, c)
        BY <2>2, <3>2 DEF Picked, FieldValues
      <4>3. CASE c \in S
        <5>1. d[c] = Picked(editor', c)
          BY <2>6, <4>1, <4>2, <4>3
        <5> QED
          BY <5>1 DEF SymDiff
      <4>4. CASE c \notin S
        BY <2>5, <2>6, <4>1, <4>2, <4>4
      <4> QED
        BY <4>3, <4>4
    <3> QED
      BY <3>1, <3>2
  <2>7. \A c \in M2MCols : opening'.base[c] \in {Nothing, d[c]}
    BY <2>5
  <2> QED
    BY <2>4, <2>5, <2>6, <2>7
<1> QED
  BY <1>2, <1>3

LEMMA OpenEditorKeeps == FormInv /\ OpenEditor => FormInv'
<1> SUFFICES ASSUME FormInv, OpenEditor PROVE FormInv'
  OBVIOUS
<1>1. /\ UNCHANGED <<links, foreign, linksCache, answers, saving>>
      /\ asked' = asked \cup {c \in M2MCols : answers[c] = Nothing}
      /\ Initialise(None, Fresh, linksCache, M2MCols)
  BY DEF OpenEditor
<1>2. None \in FieldValues /\ Fresh \in Opening /\ linksCache \in FieldValues
  BY DEF None, NoLinks, Fresh, Opening, FieldValues, Links, FormInv, FormTypeOK
<1>3. \A c \in M2MCols : Fresh.base[c] \in {Nothing, linksCache[c]}
  BY DEF Fresh, None
<1>4. \A c \in M2MCols \ M2MCols : c \notin Fresh.lost /\ linksCache[c] # Nothing =>
        SymDiff(linksCache[c], Picked(None, c)) \subseteq Fresh.toggled[c]
  OBVIOUS
<1>5. M2MCols \in SUBSET M2MCols
  OBVIOUS
<1>6. /\ editor' \in FieldValues /\ opening' \in Opening
      /\ \A c \in M2MCols :
           /\ opening'.base[c] \in {Nothing, linksCache[c]}
           /\ c \notin opening'.lost /\ linksCache[c] # Nothing =>
                SymDiff(linksCache[c], Picked(editor', c)) \subseteq opening'.toggled[c]
  <2> HIDE DEF Initialise
  <2> QED
    BY <1>1, <1>2, <1>3, <1>4, <1>5, InitialiseShows
<1>7. FormTypeOK'
  BY <1>1, <1>6 DEF FormInv, FormTypeOK
<1>8. \A c \in M2MCols : FieldShows(c)'
  BY <1>1, <1>6 DEF FieldShows, Picked
<1> QED
  BY <1>1, <1>7, <1>8 DEF FormInv, SaveKeeps

LEMMA CloseKeeps == FormInv /\ (CloseEditor \/ SaveDone) => FormInv'
<1> SUFFICES ASSUME FormInv, CloseEditor \/ SaveDone PROVE FormInv'
  OBVIOUS
<1>1. Fresh \in Opening
  BY DEF None, NoLinks, Fresh, Opening, FieldValues, Links
<1>2. /\ editor' = Nothing /\ opening' = Fresh /\ saving' \in {saving, Nothing}
      /\ UNCHANGED <<links, foreign, linksCache, asked, answers>>
  BY DEF CloseEditor, SaveDone
<1> QED
  BY <1>1, <1>2 DEF FormInv, FormTypeOK, SaveKeeps

LEMMA ReadingKeeps ==
  FormInv /\ (\E c \in M2MCols : ServeLinks(c) \/ LinksFail(c) \/ \E L \in Links : ForeignChange(c, L))
    => FormInv'
<1> SUFFICES ASSUME FormInv, NEW c \in M2MCols,
                    ServeLinks(c) \/ LinksFail(c) \/ \E L \in Links : ForeignChange(c, L)
             PROVE  FormInv'
  OBVIOUS
<1>1. UNCHANGED <<linksCache, editor, saving, opening>>
  BY DEF ServeLinks, LinksFail, ForeignChange
<1>2. /\ links' \in [M2MCols -> Links] /\ foreign' \in Nat /\ asked' \subseteq M2MCols
      /\ answers' \in FieldValues /\ \A b \in asked' : answers'[b] = Nothing
  <2>1. CASE ServeLinks(c)
    BY <2>1 DEF ServeLinks, FormInv, FormTypeOK, FieldValues
  <2>2. CASE LinksFail(c)
    BY <2>2 DEF LinksFail, FormInv, FormTypeOK
  <2>3. CASE \E L \in Links : ForeignChange(c, L)
    BY <2>3 DEF ForeignChange, FormInv, FormTypeOK
  <2> QED
    BY <2>1, <2>2, <2>3
<1> QED
  BY <1>1, <1>2 DEF FormInv, FormTypeOK, FieldShows, SaveKeeps, Picked

LEMMA LinksArriveKeeps ==
  ASSUME FormInv, NEW S \in SUBSET M2MCols, LinksArrive(S)
  PROVE  FormInv'
<1>1. /\ links \in [M2MCols -> Links] /\ linksCache \in FieldValues /\ answers \in FieldValues
      /\ opening \in Opening /\ editor \in FieldValues \cup {Nothing}
  BY DEF FormInv, FormTypeOK
<1>2. /\ \A c \in S : answers[c] # Nothing
      /\ linksCache' = [c \in M2MCols |-> IF c \in S THEN answers[c] ELSE linksCache[c]]
      /\ answers' = [c \in M2MCols |-> IF c \in S THEN Nothing ELSE answers[c]]
      /\ UNCHANGED <<links, foreign, asked, saving>>
  BY DEF LinksArrive
<1>3. linksCache' \in FieldValues /\ answers' \in FieldValues
  BY <1>1, <1>2 DEF FieldValues
<1>4. \A c \in asked' : answers'[c] = Nothing
  BY <1>2 DEF FormInv, FormTypeOK
<1>5. CASE editor = Nothing
  <2>1. UNCHANGED <<editor, opening>>
    BY <1>5 DEF LinksArrive
  <2> QED
    BY <1>2, <1>3, <1>4, <1>5, <2>1 DEF FormInv, FormTypeOK, SaveKeeps
<1>6. CASE editor # Nothing
  <2> DEFINE o == [opening EXCEPT !.base = [c \in M2MCols |-> IF c \in S THEN answers[c] ELSE @[c]]]
             T == {c \in S : answers[c] # linksCache[c]}
  <2>1. Initialise(editor, o, linksCache', T)
    BY <1>6 DEF LinksArrive
  <2>2. PICK d \in FieldValues : d = linksCache'
    BY <1>3
  <2>3. \A c \in M2MCols : d[c] = IF c \in S THEN answers[c] ELSE linksCache[c]
    BY <1>2, <2>2
  <2>4. /\ o \in Opening /\ o.lost = opening.lost /\ o.toggled = opening.toggled
        /\ \A c \in M2MCols : o.base[c] = IF c \in S THEN answers[c] ELSE opening.base[c]
    BY <1>1 DEF Opening, FieldValues
  <2>5. \A c \in M2MCols : FieldShows(c)
    BY <1>6 DEF FormInv
  <2> HIDE DEF o
  <2>6. \A c \in M2MCols : o.base[c] \in {Nothing, d[c]}
    BY <2>3, <2>4, <2>5 DEF FieldShows
  <2>7. \A c \in M2MCols \ T : c \notin o.lost /\ d[c] # Nothing =>
          SymDiff(d[c], Picked(editor, c)) \subseteq o.toggled[c]
    <3>1. \A c \in M2MCols \ T : d[c] = linksCache[c]
      BY <2>3
    <3> QED
      BY <2>4, <2>5, <3>1 DEF FieldShows
  <2>8. T \in SUBSET M2MCols /\ editor \in FieldValues /\ Initialise(editor, o, d, T)
    BY <1>1, <1>6, <2>1, <2>2
  <2>9. /\ editor' \in FieldValues /\ opening' \in Opening
        /\ \A c \in M2MCols :
             /\ opening'.base[c] \in {Nothing, d[c]}
             /\ c \notin opening'.lost /\ d[c] # Nothing =>
                  SymDiff(d[c], Picked(editor', c)) \subseteq opening'.toggled[c]
    <3> HIDE DEF T
    <3> QED
      BY <2>4, <2>6, <2>7, <2>8, InitialiseShows
  <2>10. \A c \in M2MCols : FieldShows(c)'
    BY <2>2, <2>9 DEF FieldShows, Picked
  <2>11. FormTypeOK'
    BY <1>2, <1>3, <1>4, <2>9 DEF FormInv, FormTypeOK
  <2> QED
    BY <1>2, <2>10, <2>11 DEF FormInv, SaveKeeps
<1> QED
  BY <1>5, <1>6

LEMMA ToggleKeeps ==
  ASSUME FormInv, NEW c \in M2MCols, NEW t \in Targets, Toggle(c, t)
  PROVE  FormInv'
<1>1. /\ editor \in FieldValues /\ opening \in Opening /\ UNCHANGED <<links, foreign, linksCache, asked, answers, saving>>
      /\ \A b \in M2MCols : FieldShows(b)
  BY DEF Toggle, FormInv, FormTypeOK
<1>2. Picked(editor, c) \in Links
  BY <1>1, PickedLinks
<1>3. SymDiff(Picked(editor, c), {t}) \in Links
  BY <1>2 DEF SymDiff, Links
<1>4. editor' = [editor EXCEPT ![c] = SymDiff(Picked(editor, c), {t})]
  BY DEF Toggle
<1>5. editor' \in FieldValues
  BY <1>1, <1>3, <1>4 DEF FieldValues
<1>6. /\ opening' \in Opening /\ opening'.base = opening.base /\ opening'.lost = opening.lost
      /\ opening'.toggled = [opening.toggled EXCEPT ![c] = @ \cup {t}]
  BY <1>1 DEF Toggle, Opening, Links
<1>7. ASSUME NEW b \in M2MCols PROVE FieldShows(b)'
  <2>1. CASE b # c
    BY <1>1, <1>4, <1>6, <2>1 DEF FieldShows, Picked, Opening, FieldValues
  <2>2. CASE b = c
    <3>1. Picked(editor, c)' \subseteq Picked(editor, c) \cup {t} /\ Picked(editor, c) \subseteq Picked(editor, c)' \cup {t}
      <4>1. editor'[c] = SymDiff(Picked(editor, c), {t}) /\ editor'[c] # Nothing
        BY <1>1, <1>3, <1>4, FormAssumption DEF FieldValues, FormAssumption, Links
      <4>2. Picked(editor, c)' = SymDiff(Picked(editor, c), {t})
        BY <4>1 DEF Picked
      <4> QED
        BY <4>2 DEF SymDiff
    <3>2. opening'.toggled[c] = opening.toggled[c] \cup {t}
      BY <1>1, <1>6 DEF Opening
    <3>3. linksCache' = linksCache
      BY <1>1
    <3> QED
      BY <1>1, <1>6, <2>2, <3>1, <3>2, <3>3 DEF FieldShows, SymDiff
  <2> QED
    BY <2>1, <2>2
<1>8. FormTypeOK'
  BY <1>1, <1>5, <1>6 DEF FormInv, FormTypeOK
<1> QED
  BY <1>1, <1>7, <1>8 DEF FormInv, SaveKeeps

LEMMA SaveRowKeeps == FormInv /\ SaveRow => FormInv'
<1> SUFFICES ASSUME FormInv, SaveRow PROVE FormInv'
  OBVIOUS
<1> DEFINE base == [c \in M2MCols |-> IF Keeps(opening, c) = {} THEN Nothing ELSE opening.base[c]]
           keeps == [c \in M2MCols |-> Keeps(opening, c)]
<1>1. /\ editor \in FieldValues /\ opening \in Opening
      /\ UNCHANGED <<links, foreign, linksCache, asked, answers, editor, opening>>
      /\ saving' = [values |-> editor, served |-> FALSE, keeps |-> keeps, base |-> base]
      /\ \A c \in M2MCols : FieldShows(c)
  BY DEF SaveRow, FormInv, FormTypeOK
<1>2. \A c \in M2MCols : Keeps(opening, c) \in Links
  BY DEF Keeps, Links
<1>3. base \in FieldValues /\ keeps \in [M2MCols -> Links]
  BY <1>1, <1>2 DEF FieldValues, Opening
<1>4. \A c \in M2MCols : base[c] = Nothing => keeps[c] = {}
  BY DEF Keeps
<1>5. ASSUME NEW c \in M2MCols, base[c] # Nothing, editor[c] # Nothing
      PROVE  SymDiff(base[c], editor[c]) \cap keeps[c] = {}
  <2>1. base[c] = opening.base[c] /\ keeps[c] = Keeps(opening, c) /\ Keeps(opening, c) # {}
    BY <1>5
  <2>2. c \notin opening.lost /\ Keeps(opening, c) = Targets \ opening.toggled[c]
    BY <2>1 DEF Keeps
  <2>3. opening.base[c] = linksCache[c] /\ linksCache[c] # Nothing /\ Picked(editor, c) = editor[c]
    BY <1>1, <1>5, <2>1 DEF FieldShows, Picked
  <2>4. SymDiff(linksCache[c], Picked(editor, c)) \subseteq opening.toggled[c]
    BY <1>1, <2>2, <2>3 DEF FieldShows
  <2> QED
    BY <2>1, <2>2, <2>3, <2>4
<1> HIDE DEF base, keeps
<1>6. /\ saving' \in SaveRequest /\ saving'.values = editor /\ saving'.base = base
      /\ saving'.keeps = keeps
  BY <1>1, <1>3 DEF SaveRequest
<1>7. \A c \in M2MCols : SaveKeeps(saving', c)
  BY <1>4, <1>5, <1>6 DEF SaveKeeps
<1> QED
  BY <1>1, <1>6, <1>7 DEF FormInv, FormTypeOK, FieldShows, Picked, SaveKeeps

LEMMA ServeSaveKeeps == FormInv /\ (ServeSave \/ SaveRefused) => FormInv'
<1> SUFFICES ASSUME FormInv, ServeSave \/ SaveRefused PROVE FormInv'
  OBVIOUS
<1>1. saving \in SaveRequest
  BY DEF ServeSave, SaveRefused, FormInv, FormTypeOK
<1>2. UNCHANGED <<foreign, linksCache, asked, answers, editor, opening>>
  BY DEF ServeSave, SaveRefused
<1>3. links' \in [M2MCols -> Links]
  <2>1. \A c \in M2MCols : saving.values[c] # Nothing => saving.values[c] \in Links
    BY <1>1 DEF SaveRequest, FieldValues
  <2> QED
    BY <2>1 DEF ServeSave, SaveRefused, FormInv, FormTypeOK
<1>4. saving' = Nothing \/ saving' = [values |-> None, base |-> None, keeps |-> NoLinks, served |-> TRUE]
  BY DEF ServeSave, SaveRefused
<1>5. saving' \in SaveRequest \cup {Nothing}
  <2>1. None \in FieldValues /\ NoLinks \in [M2MCols -> Links]
    BY DEF None, NoLinks, FieldValues, Links
  <2>2. [values |-> None, base |-> None, keeps |-> NoLinks, served |-> TRUE] \in SaveRequest
    BY <2>1 DEF SaveRequest
  <2> QED
    BY <1>4, <2>2
<1>6. saving' # Nothing => \A c \in M2MCols : SaveKeeps(saving', c)
  BY <1>4 DEF SaveKeeps, None, NoLinks
<1> QED
  BY <1>2, <1>3, <1>5, <1>6 DEF FormInv, FormTypeOK, FieldShows, Picked, SaveKeeps

LEMMA FormInvStep == FormInv /\ [FormNext]_formVars => FormInv'
<1> SUFFICES ASSUME FormInv, [FormNext]_formVars PROVE FormInv'
  OBVIOUS
<1>1. CASE OpenEditor
  BY <1>1, OpenEditorKeeps
<1>2. CASE CloseEditor \/ SaveDone
  BY <1>2, CloseKeeps
<1>3. CASE \E c \in M2MCols : ServeLinks(c) \/ LinksFail(c) \/ \E L \in Links : ForeignChange(c, L)
  BY <1>3, ReadingKeeps
<1>4. CASE \E S \in SUBSET M2MCols : LinksArrive(S)
  BY <1>4, LinksArriveKeeps
<1>5. CASE \E c \in M2MCols, t \in Targets : Toggle(c, t)
  BY <1>5, ToggleKeeps
<1>6. CASE SaveRow
  BY <1>6, SaveRowKeeps
<1>7. CASE ServeSave \/ SaveRefused
  BY <1>7, ServeSaveKeeps
<1>8. CASE UNCHANGED formVars
  BY <1>8 DEF formVars, FormInv, FormTypeOK, FieldShows, Picked, SaveKeeps
<1> QED
  BY <1>1, <1>2, <1>3, <1>4, <1>5, <1>6, <1>7, <1>8 DEF FormNext

LEMMA FormInvHolds == FormSpec => []FormInv
<1> QED
  BY FormInvInit, FormInvStep, PTL DEF FormSpec

\* The fields of the row editor, what is cached of the links and the save in flight have
\* their types.
THEOREM FormTypesHold == FormSpec => []FormTypeOK
<1>1. FormInv => FormTypeOK
  BY DEF FormInv
<1> QED
  BY FormInvHolds, <1>1, PTL

\* A save of the row editor changes no link that the user did not toggle in this opening of
\* it, once the column's links arrived, unless another column's effect undid the value or
\* the links were changed meanwhile; for any columns and targets (Data.tsx, M2MField).
THEOREM UntoggledLinksAlwaysStay == FormSpec => UntoggledLinksStay
<1> DEFINE Stay ==
      ServeSave =>
        \A c \in M2MCols :
          saving.base[c] = links[c] => SymDiff(links[c], links'[c]) \cap saving.keeps[c] = {}
<1>1. FormInv /\ [FormNext]_formVars => [Stay]_formVars
  <2> SUFFICES ASSUME FormInv, ServeSave, NEW c \in M2MCols, saving.base[c] = links[c]
               PROVE  SymDiff(links[c], links'[c]) \cap saving.keeps[c] = {}
    OBVIOUS
  <2>1. SaveKeeps(saving, c)
    BY DEF FormInv, ServeSave
  <2>2. links'[c] = IF saving.values[c] = Nothing THEN links[c] ELSE saving.values[c]
    BY DEF ServeSave
  <2>3. CASE saving.values[c] = Nothing
    BY <2>2, <2>3 DEF SymDiff
  <2>4. CASE saving.values[c] # Nothing
    BY <2>1, <2>2, <2>4 DEF SaveKeeps
  <2> QED
    BY <2>3, <2>4
<1> QED
  BY FormInvHolds, <1>1, PTL DEF FormSpec, UntoggledLinksStay
-----------------------------------------------------------------------------
(* The board.  A column whose requests never crossed, that nobody else     *)
(* changed and that no write in flight will have read again holds the      *)
(* first of the server's pages, and its request is for the page that       *)
(* follows.                                                                *)

\* Nothing is under way that all columns will be read again for.
NothingDue == edited = 0 /\ ~reload /\ \A d \in drops : d.reply # "ok"

\* Columns the page may rely on: not those that a refused drop will have read again.
Trusted == {v \in Cols \ outdated : \A d \in drops : d.reply = "error" => v \notin {d.from, d.to}}

OneReadEach == \A v \in Cols \ outdated : \A r, s \in ReadsOf(v) : r = s

\* A trusted column holds its first pages, and its request is for the page that follows.
ColumnFits(v) ==
  /\ perCol[v].rows = FirstPages(v, perCol[v].page)
  /\ perCol[v].page > 0 => perCol[v].total = Len(Listed(v))
  /\ \A r \in ReadsOf(v) :
       /\ r.page = perCol[v].page + 1 /\ (r.again => r.page = 1)
       /\ r.rows # Nothing =>
            r.rows = Kept(v, PageAt(Listed(v), r.page)) /\ r.total = Len(Listed(v))

BoardInv ==
  /\ BoardTypeOK /\ IsFiniteSet(reads) /\ OneReadEach
  /\ NothingDue => \A v \in Trusted : ColumnFits(v)

LEMMA CardsAreNumbers == Cards \in SUBSET Nat /\ IsFiniteSet(Cards)
  BY BoardAssumption

LEMMA SomeCards ==
  ASSUME NEW S \in SUBSET Cards
  PROVE  Ascending(S) \in Seq(Cards)
<1>1. S \in SUBSET Nat /\ IsFiniteSet(S)
  BY CardsAreNumbers, FS_Subset
<1>2. Ascending(S) \in Seq(S)
  BY <1>1, AscendingFacts
<1> QED
  BY <1>2, SeqMonotonic

LEMMA ListedFacts == ASSUME NEW v PROVE Listed(v) \in Seq(Cards) /\ Len(Listed(v)) \in Nat
<1>1. Listed(v) \in Seq(Cards)
  BY SomeCards, BoardAssumption DEF Listed
<1> QED
  BY <1>1, LenProperties

LEMMA KeptFacts == ASSUME NEW v, NEW s \in Seq(Cards) PROVE Kept(v, s) \in Seq(Cards)
<1>1. {i \in DOMAIN s : valueOf[s[i]] = NoValue} \in SUBSET (1..Len(s))
  BY LenProperties
<1> QED
  BY <1>1, AtPlacesFacts DEF Kept

LEMMA KeptOfNone == ASSUME NEW v PROVE Kept(v, <<>>) = <<>>
<1>1. {i \in DOMAIN <<>> : valueOf[<<>>[i]] = NoValue} = {}
  OBVIOUS
<1>2. Cardinality({}) = 0
  BY FS_EmptySet
<1>3. AtPlaces(<<>>, {}) = <<>>
  BY <1>2 DEF AtPlaces
<1> QED
  BY <1>1, <1>3 DEF Kept

\* What is kept of a list is what is kept of its parts.
LEMMA KeptJoins ==
  ASSUME NEW v, NEW s \in Seq(Cards), NEW t \in Seq(Cards)
  PROVE  Kept(v, s \o t) = Kept(v, s) \o Kept(v, t)
<1> DEFINE st == s \o t
           P == {i \in DOMAIN s : valueOf[s[i]] = NoValue}
           Q == {i \in DOMAIN t : valueOf[t[i]] = NoValue}
           PQ == {i \in DOMAIN st : valueOf[st[i]] = NoValue}
<1>1. /\ Len(s) \in Nat /\ DOMAIN s = 1..Len(s) /\ Len(t) \in Nat /\ DOMAIN t = 1..Len(t)
      /\ st \in Seq(Cards) /\ DOMAIN st = 1..(Len(s) + Len(t))
      /\ \A i \in 1..(Len(s) + Len(t)) : st[i] = IF i <= Len(s) THEN s[i] ELSE t[i - Len(s)]
  BY ConcatProperties, LenProperties
<1>2. P \in SUBSET (1..Len(s)) /\ Q \in SUBSET (1..Len(t))
  BY <1>1
<1> HIDE DEF st
<1>3. ASSUME NEW i PROVE i \in PQ <=> i \in P \/ \E q \in Q : i = Len(s) + q
  <2>1. ASSUME i \in P PROVE i \in PQ
    BY <1>1, <2>1
  <2>2. ASSUME NEW q \in Q, i = Len(s) + q PROVE i \in PQ
    <3>1. q \in 1..Len(t) /\ valueOf[t[q]] = NoValue
      BY <1>1
    <3>2. i \in 1..(Len(s) + Len(t)) /\ ~(i <= Len(s)) /\ i - Len(s) = q
      BY <1>1, <2>2, <3>1
    <3> QED
      BY <1>1, <3>1, <3>2
  <2>3. ASSUME i \in PQ PROVE i \in P \/ \E q \in Q : i = Len(s) + q
    <3>1. i \in 1..(Len(s) + Len(t)) /\ valueOf[st[i]] = NoValue
      BY <1>1, <2>3
    <3>2. CASE i <= Len(s)
      BY <1>1, <3>1, <3>2
    <3>3. CASE ~(i <= Len(s))
      <4>1. i - Len(s) \in 1..Len(t) /\ i = Len(s) + (i - Len(s))
        BY <1>1, <3>1, <3>3
      <4>2. i - Len(s) \in Q
        BY <1>1, <3>1, <3>3, <4>1
      <4> QED
        BY <4>1, <4>2
    <3> QED
      BY <3>2, <3>3
  <2> QED
    BY <2>1, <2>2, <2>3
<1> HIDE DEF P, Q, PQ
<1>4. PQ = P \cup Shifted(Len(s), Q)
  BY <1>3 DEF Shifted
<1>5. AtPlaces(s \o t, PQ) = AtPlaces(s, P) \o AtPlaces(t, Q)
  <2>1. AtPlaces(Joined(s, t), P \cup Shifted(Len(s), Q))
          = Joined(AtPlaces(s, P), AtPlaces(t, Q))
    BY <1>2, AtPlacesJoin
  <2> QED
    BY <1>4, <2>1 DEF Joined
<1> QED
  BY <1>5 DEF Kept, P, Q, PQ, st

\* Consecutive pages join; no pages hold nothing.
LEMMA BoardPagesJoin ==
  ASSUME NEW s \in Seq(Cards), NEW n \in Nat
  PROVE  /\ SubSeq(s, 1, UpTo(s, 0)) = <<>>
         /\ SubSeq(s, 1, UpTo(s, n)) \in Seq(Cards) /\ PageAt(s, n + 1) \in Seq(Cards)
         /\ SubSeq(s, 1, UpTo(s, n)) \o PageAt(s, n + 1) = SubSeq(s, 1, UpTo(s, n + 1))
<1> DEFINE L == Len(s)
           k == n * CardsPerPage
<1>1. L \in Nat /\ \A i \in 1..L : s[i] \in Cards
  BY LenProperties, ElementOfSeq
<1>2. /\ CardsPerPage \in Nat /\ CardsPerPage >= 1 /\ 0 * CardsPerPage = 0
      /\ k \in Nat /\ (n + 1) * CardsPerPage = k + CardsPerPage
      /\ ((n + 1) - 1) * CardsPerPage = k
  BY BoardAssumption
<1> DEFINE u == UpTo(s, n)
           w == UpTo(s, n + 1)
<1> HIDE DEF k, L
<1>3. /\ u = (IF k < L THEN k ELSE L) /\ w = (IF k + CardsPerPage < L THEN k + CardsPerPage ELSE L)
      /\ UpTo(s, 0) = 0 /\ PageAt(s, n + 1) = SubSeq(s, k + 1, w)
  BY <1>1, <1>2 DEF UpTo, PageAt, k, L
<1> HIDE DEF u, w
<1>4. u \in 0..L /\ w \in u..L /\ (u = k \/ (u = L /\ w = L /\ w < k + 1))
  <2>1. CASE k < L
    <3>1. u = k
      BY <1>3, <2>1
    <3>2. w \in k..L
      BY <1>1, <1>2, <1>3, <2>1
    <3> QED
      BY <1>1, <1>2, <2>1, <3>1, <3>2
  <2>2. CASE ~(k < L)
    <3>1. u = L /\ w = L /\ w < k + 1
      BY <1>1, <1>2, <1>3, <2>2
    <3> QED
      BY <1>1, <3>1
  <2> QED
    BY <2>1, <2>2
<1>5. SubSeq(s, 1, u) \in Seq(Cards) /\ SubSeq(s, k + 1, w) \in Seq(Cards) /\ SubSeq(s, 1, 0) = <<>>
  <2>1. \A i \in 1..u : s[i] \in Cards
    BY <1>1, <1>4
  <2>2. \A i \in (k + 1)..w : s[i] \in Cards
    BY <1>1, <1>2, <1>4
  <2>3. u \in Int /\ w \in Int /\ k + 1 \in Int
    BY <1>1, <1>2, <1>4
  <2> QED
    BY <2>1, <2>2, <2>3, SubSeqProperties, SubSeqEmpty
<1>6. SubSeq(s, 1, u) \o SubSeq(s, k + 1, w) = SubSeq(s, 1, w)
  <2>1. CASE u = k
    <3>1. 1 \in 1..L + 1 /\ u \in 1 - 1..L /\ w \in u..L
      BY <1>1, <1>4
    <3>2. SubSeq(s, 1, u) \o SubSeq(s, u + 1, w) = SubSeq(s, 1, w)
      BY <3>1, ConcatAdjacentSubSeq DEF L
    <3> QED
      BY <2>1, <3>2
  <2>2. CASE u = L /\ w = L /\ w < k + 1
    <3>1. SubSeq(s, k + 1, w) = <<>>
      BY <1>1, <1>2, <1>4, <2>2, SubSeqEmpty
    <3> QED
      BY <1>5, <2>2, <3>1, ConcatEmptySeq
  <2> QED
    BY <1>4, <2>1, <2>2
<1> QED
  BY <1>3, <1>5, <1>6 DEF u, w

LEMMA FirstPagesGrow ==
  ASSUME NEW v, NEW n \in Nat
  PROVE  /\ FirstPages(v, 0) = <<>>
         /\ FirstPages(v, n + 1) = FirstPages(v, n) \o Kept(v, PageAt(Listed(v), n + 1))
         /\ Kept(v, PageAt(Listed(v), n + 1)) \in Seq(Cards)
<1> DEFINE s == Listed(v)
<1>1. s \in Seq(Cards)
  BY ListedFacts
<1> HIDE DEF s
<1>2. /\ SubSeq(s, 1, UpTo(s, 0)) = <<>>
      /\ SubSeq(s, 1, UpTo(s, n)) \in Seq(Cards) /\ PageAt(s, n + 1) \in Seq(Cards)
      /\ SubSeq(s, 1, UpTo(s, n)) \o PageAt(s, n + 1) = SubSeq(s, 1, UpTo(s, n + 1))
  BY <1>1, BoardPagesJoin
<1>3. /\ Kept(v, SubSeq(s, 1, UpTo(s, n)) \o PageAt(s, n + 1))
           = Kept(v, SubSeq(s, 1, UpTo(s, n))) \o Kept(v, PageAt(s, n + 1))
      /\ Kept(v, PageAt(s, n + 1)) \in Seq(Cards)
  BY <1>2, KeptJoins, KeptFacts
<1> QED
  BY <1>2, <1>3, KeptOfNone DEF FirstPages, s

\* A page beyond the first, and the next one.
LEMMA PageOfList ==
  ASSUME NEW v, NEW n \in Nat \ {0}
  PROVE  /\ PageAt(Listed(v), n) \in Seq(Cards)
         /\ Kept(v, PageAt(Listed(v), n)) \in Seq(Cards)
<1>1. n - 1 \in Nat /\ (n - 1) + 1 = n
  OBVIOUS
<1>2. PageAt(Listed(v), (n - 1) + 1) \in Seq(Cards)
  BY <1>1, ListedFacts, BoardPagesJoin
<1>3. PageAt(Listed(v), n) \in Seq(Cards)
  BY <1>1, <1>2
<1> QED
  BY <1>3, KeptFacts

\* A new request finds a number that is free.
LEMMA NewReadIs ==
  ASSUME BoardInv, NEW v \in Cols, NEW n \in Nat \ {0}, NEW a \in BOOLEAN
  PROVE  /\ NewRead(v, n, a) \in Read /\ NewRead(v, n, a).col = v
         /\ NewRead(v, n, a).page = n /\ NewRead(v, n, a).again = a
         /\ NewRead(v, n, a).rows = Nothing
<1> DEFINE R == ReadsOf(v)
           I == 1..MaxReads + 1
<1>1. IsFiniteSet(R) /\ Cardinality(R) <= MaxReads /\ Cardinality(R) \in Nat
  <2>1. R \in SUBSET reads /\ IsFiniteSet(reads)
    BY DEF ReadsOf, BoardInv
  <2>2. IsFiniteSet(R) /\ Cardinality(R) <= Cardinality(reads)
    BY <2>1, FS_Subset
  <2>3. Cardinality(R) \in Nat /\ Cardinality(reads) \in Nat
    BY <2>1, <2>2, FS_CardinalityType
  <2> QED
    BY <2>2, <2>3, BoardAssumption DEF BoardInv, BoardTypeOK
<1>2. \E s \in I : \A r \in R : r.slot # s
  <2> SUFFICES ASSUME \A s \in I : \E r \in R : r.slot = s PROVE FALSE
    OBVIOUS
  <2> DEFINE f == [s \in I |-> CHOOSE r \in R : r.slot = s]
  <2> HIDE DEF R
  <2>1. \A s \in I : f[s] \in R /\ f[s].slot = s
    OBVIOUS
  <2>2. f \in [I -> R]
    BY <2>1
  <2> HIDE DEF f
  <2>3. f \in Injection(I, R)
    BY <2>1, <2>2 DEF Injection, IsInjective
  <2>4. Cardinality(I) <= Cardinality(R)
    BY <1>1, <2>3, FS_Injection
  <2>5. Cardinality(I) = MaxReads + 1
    BY BoardAssumption, FS_Interval
  <2> QED
    BY <1>1, <2>4, <2>5, BoardAssumption
<1>3. (CHOOSE s \in I : \A r \in R : r.slot # s) \in I
  BY <1>2
<1> QED
  BY <1>3 DEF NewRead, Read

\* A server that answers the same has the same first pages.
LEMMA PagesStay ==
  ASSUME BoardInv, NEW v \in Cols, perCol'[v].page = perCol[v].page,
         Listed(v)' = Listed(v), \A s \in Seq(Cards) : Kept(v, s)' = Kept(v, s)
  PROVE  FirstPages(v, perCol[v].page)' = FirstPages(v, perCol[v].page)
<1> DEFINE s == SubSeq(Listed(v), 1, UpTo(Listed(v), perCol[v].page))
<1>1. perCol[v].page \in Nat
  BY DEF BoardInv, BoardTypeOK, Column
<1>2. s \in Seq(Cards)
  BY <1>1, ListedFacts, BoardPagesJoin
<1>3. Kept(v, s)' = Kept(v, s)
  <2>1. s' = s
    OBVIOUS
  <2> QED
    BY <1>2, <2>1 DEF Kept
<1> QED
  BY <1>3 DEF FirstPages

\* A column that is not touched, of a server that answers the same, fits as before.
LEMMA ColumnStays ==
  ASSUME BoardInv, NEW v \in Cols, ColumnFits(v),
         Listed(v)' = Listed(v), \A s \in Seq(Cards) : Kept(v, s)' = Kept(v, s),
         perCol'[v].rows = perCol[v].rows, perCol'[v].page = perCol[v].page,
         perCol'[v].total = perCol[v].total, ReadsOf(v)' \subseteq ReadsOf(v)
  PROVE  ColumnFits(v)'
<1>2. FirstPages(v, perCol[v].page)' = FirstPages(v, perCol[v].page)
  BY PagesStay
<1>3. ASSUME NEW r \in ReadsOf(v) PROVE Kept(v, PageAt(Listed(v), r.page))' = Kept(v, PageAt(Listed(v), r.page))
  <2>1. r.page \in Nat \ {0}
    BY DEF BoardInv, BoardTypeOK, Read, ReadsOf
  <2>2. PageAt(Listed(v), r.page) \in Seq(Cards)
    BY <2>1, PageOfList
  <2> QED
    BY <2>2
<1> QED
  BY <1>2, <1>3 DEF ColumnFits

LEMMA ServerStays ==
  ASSUME BoardInv, NEW c \in Cards, NEW x \in Cols \cup {Gone}, valueOf[c] # Gone,
         valueOf' = [valueOf EXCEPT ![c] = x],
         NEW v \in Cols, v \notin {valueOf[c], x}, x = Gone => v # NoValue
  PROVE  Listed(v)' = Listed(v) /\ \A s \in Seq(Cards) : Kept(v, s)' = Kept(v, s)
<1>1. \A a \in Cards : valueOf'[a] = IF a = c THEN x ELSE valueOf[a]
  BY DEF BoardInv, BoardTypeOK
<1>2. \A a \in Cards : valueOf'[a] = v <=> valueOf[a] = v
  BY <1>1
<1>3. v = NoValue => \A a \in Cards : valueOf'[a] # Gone <=> valueOf[a] # Gone
  BY <1>1
<1>4. Listed(v)' = Listed(v)
  <2>1. {a \in Cards : valueOf'[a] = v} = {a \in Cards : valueOf[a] = v}
    BY <1>2
  <2>2. v = NoValue => {a \in Matching : valueOf'[a] # Gone} = {a \in Matching : valueOf[a] # Gone}
    BY <1>3, BoardAssumption
  <2> QED
    BY <2>1, <2>2 DEF Listed
<1>5. ASSUME NEW s \in Seq(Cards) PROVE Kept(v, s)' = Kept(v, s)
  <2>1. CASE v = NoValue
    <3>1. \A i \in DOMAIN s : s[i] \in Cards
      BY LenProperties, ElementOfSeq
    <3>2. {i \in DOMAIN s : valueOf'[s[i]] = NoValue} = {i \in DOMAIN s : valueOf[s[i]] = NoValue}
      BY <1>2, <2>1, <3>1
    <3> QED
      BY <3>2 DEF Kept
  <2>2. CASE v # NoValue
    BY <2>2 DEF Kept
  <2> QED
    BY <2>1, <2>2
<1> QED
  BY <1>4, <1>5

LEMMA ServerIdle ==
  ASSUME UNCHANGED valueOf, NEW v
  PROVE  Listed(v)' = Listed(v) /\ \A s \in Seq(Cards) : Kept(v, s)' = Kept(v, s)
  BY DEF Listed, Kept

LEMMA PagesIdle ==
  ASSUME UNCHANGED valueOf, NEW v, NEW n \in Nat
  PROVE  FirstPages(v, n)' = FirstPages(v, n) /\ Listed(v)' = Listed(v)
<1> DEFINE s == SubSeq(Listed(v), 1, UpTo(Listed(v), n))
<1>1. s \in Seq(Cards)
  BY ListedFacts, BoardPagesJoin
<1>2. Listed(v)' = Listed(v) /\ \A t \in Seq(Cards) : Kept(v, t)' = Kept(v, t)
  BY ServerIdle
<1>3. Kept(v, s)' = Kept(v, s)
  BY <1>1, <1>2 DEF Kept
<1> QED
  BY <1>2, <1>3 DEF FirstPages

\* The columns that are not touched by a step of one column's requests, or by none.
LEMMA OthersFit ==
  ASSUME BoardInv, NothingDue, UNCHANGED valueOf, NEW v \in Trusted,
         perCol'[v].rows = perCol[v].rows, perCol'[v].page = perCol[v].page,
         perCol'[v].total = perCol[v].total, ReadsOf(v)' \subseteq ReadsOf(v)
  PROVE  ColumnFits(v)'
<1>1. v \in Cols /\ ColumnFits(v)
  BY DEF BoardInv, Trusted
<1>2. Listed(v)' = Listed(v) /\ \A s \in Seq(Cards) : Kept(v, s)' = Kept(v, s)
  BY ServerIdle
<1> QED
  BY <1>1, <1>2, ColumnStays

LEMMA BoardInvInit == BoardInit => BoardInv
<1> SUFFICES ASSUME BoardInit PROVE BoardInv
  OBVIOUS
<1>1. IsFiniteSet(reads) /\ Cardinality(reads) = 0
  BY FS_EmptySet DEF BoardInit
<1>2. BoardTypeOK
  <2>1. Empty \in Column
    BY EmptySeq DEF Empty, Column
  <2>2. perCol \in [Cols -> Column]
    BY <2>1 DEF BoardInit
  <2>3. valueOf \in [Cards -> Cols \cup {Gone}]
    BY DEF BoardInit
  <2> QED
    <3>1. writes \in Nat /\ Cardinality(reads) <= MaxReads
      BY <1>1, BoardAssumption DEF BoardInit
    <3>2. /\ reads \subseteq Read /\ drops \subseteq Drop /\ outdated \subseteq Cols \cup {Gone}
          /\ drag \in Dragged \cup {Nothing} /\ reload \in BOOLEAN
      BY Zenon DEF BoardInit
    <3>3. edited \in Nat
      BY DEF BoardInit
    <3> QED
      BY <2>2, <2>3, <3>1, <3>2, <3>3 DEF BoardTypeOK
<1> QED
  BY <1>1, <1>2 DEF BoardInit, BoardInv, OneReadEach, ReadsOf, NothingDue

LEMMA LoadMoreKeeps ==
  ASSUME BoardInv, NEW v \in Cols, LoadMore(v)
  PROVE  BoardInv'
<1> DEFINE n == NewRead(v, perCol[v].page + 1, FALSE)
<1>1. /\ perCol[v] \in Column /\ perCol[v].page \in Nat /\ perCol[v].page + 1 \in Nat \ {0}
      /\ perCol \in [Cols -> Column]
  BY DEF BoardInv, BoardTypeOK, Column
<1>2. n \in Read /\ n.col = v /\ n.page = perCol[v].page + 1 /\ n.again = FALSE /\ n.rows = Nothing
  BY <1>1, NewReadIs
<1>3. /\ perCol' = [perCol EXCEPT ![v].loading = TRUE] /\ reads' = reads \cup {n}
      /\ Cardinality(reads') <= MaxReads
      /\ outdated' = IF ReadsOf(v) = {} THEN outdated ELSE outdated \cup {v}
      /\ UNCHANGED <<valueOf, writes, drag, drops, edited, reload>>
  BY DEF LoadMore
<1> HIDE DEF n
<1>4. perCol' \in [Cols -> Column]
  BY <1>1, <1>3 DEF Column
<1>5. BoardTypeOK' /\ IsFiniteSet(reads')
  BY <1>2, <1>3, <1>4, FS_AddElement DEF BoardInv, BoardTypeOK
<1>6. /\ \A w \in Cols \ {v} : ReadsOf(w)' = ReadsOf(w) /\ perCol'[w] = perCol[w]
      /\ ReadsOf(v)' = ReadsOf(v) \cup {n}
      /\ perCol'[v].rows = perCol[v].rows /\ perCol'[v].page = perCol[v].page
      /\ perCol'[v].total = perCol[v].total
  BY <1>1, <1>2, <1>3 DEF ReadsOf
<1>7. outdated \subseteq outdated' /\ (v \notin outdated' => ReadsOf(v) = {})
  BY <1>3
<1>8. OneReadEach'
  BY <1>6, <1>7 DEF OneReadEach, BoardInv
<1>9. ASSUME NothingDue', NEW w \in Trusted' PROVE ColumnFits(w)'
  <2>1. NothingDue /\ w \in Trusted /\ w \in Cols /\ w \notin outdated' /\ ColumnFits(w)
    BY <1>3, <1>7, <1>9 DEF NothingDue, Trusted, BoardInv
  <2>2. CASE w # v
    BY <1>3, <1>6, <2>1, <2>2, OthersFit
  <2>3. CASE w = v
    <3>1. /\ FirstPages(v, perCol[v].page)' = FirstPages(v, perCol[v].page)
          /\ Listed(v)' = Listed(v)
      BY <1>3, <1>6, ServerIdle, PagesStay
    <3>2. ReadsOf(v)' = {n}
      BY <1>6, <1>7, <2>1, <2>3
    <3> QED
      BY <1>2, <1>6, <2>1, <2>3, <3>1, <3>2 DEF ColumnFits
  <2> QED
    BY <2>2, <2>3
<1> QED
  BY <1>3, <1>5, <1>8, <1>9 DEF BoardInv

LEMMA FirstReadIs ==
  ASSUME BoardInv, NEW v \in Cols
  PROVE  /\ NewRead(v, 1, TRUE) \in Read /\ NewRead(v, 1, TRUE).col = v
         /\ NewRead(v, 1, TRUE).page = 1 /\ NewRead(v, 1, TRUE).rows = Nothing
<1>1. 1 \in Nat \ {0} /\ TRUE \in BOOLEAN
  OBVIOUS
<1> QED
  BY <1>1, NewReadIs, ZenonT(30)

\* Columns that are read again fit, unless an earlier request is still under way.
LEMMA RefreshFacts ==
  ASSUME BoardInv, NEW S \in SUBSET Cols, RefreshCols(S), UNCHANGED valueOf
  PROVE  /\ perCol' \in [Cols -> Column] /\ reads' \subseteq Read /\ IsFiniteSet(reads')
         /\ Cardinality(reads') <= MaxReads /\ outdated' \subseteq Cols \cup {Gone}
         /\ OneReadEach' /\ \A v \in S \ outdated' : ColumnFits(v)'
         /\ \A v \in Cols \ S : /\ perCol'[v] = perCol[v] /\ ReadsOf(v)' = ReadsOf(v)
                                /\ (v \notin outdated' => v \notin outdated)
<1> DEFINE N == {NewRead(v, 1, TRUE) : v \in S}
           E == [Empty EXCEPT !.loading = TRUE]
<1>1. /\ perCol' = [v \in Cols |-> IF v \in S THEN E ELSE perCol[v]]
      /\ reads' = reads \cup N /\ Cardinality(reads') <= MaxReads
      /\ outdated' = (outdated \ S) \cup {v \in S : ReadsOf(v) # {}}
  BY DEF RefreshCols, Judge
<1>2. E \in Column /\ E.rows = <<>> /\ E.page = 0
  BY EmptySeq DEF Empty, Column
<1>3. \A v \in S : /\ NewRead(v, 1, TRUE) \in Read /\ NewRead(v, 1, TRUE).col = v
                   /\ NewRead(v, 1, TRUE).page = 1 /\ NewRead(v, 1, TRUE).rows = Nothing
  <2> SUFFICES ASSUME NEW v \in S
               PROVE  /\ NewRead(v, 1, TRUE) \in Read /\ NewRead(v, 1, TRUE).col = v
                      /\ NewRead(v, 1, TRUE).page = 1 /\ NewRead(v, 1, TRUE).rows = Nothing
    OBVIOUS
  <2>1. v \in Cols /\ 1 \in Nat \ {0} /\ TRUE \in BOOLEAN
    OBVIOUS
  <2> QED
    BY <2>1, FirstReadIs
<1>4. N \subseteq Read /\ IsFiniteSet(N)
  <2>1. IsFiniteSet(S)
    <3>1. IsFiniteSet(Cols)
      BY BoardAssumption, FS_AddElement DEF Cols
    <3> QED
      BY <3>1, FS_Subset
  <2> DEFINE f == [v \in S |-> NewRead(v, 1, TRUE)]
  <2>2. f \in Surjection(S, N)
    BY DEF Surjection
  <2> QED
    BY <1>3, <2>1, <2>2, FS_Surjection
<1> HIDE DEF E
<1>5. perCol' \in [Cols -> Column]
  BY <1>1, <1>2 DEF BoardInv, BoardTypeOK
<1>6. reads' \subseteq Read /\ IsFiniteSet(reads')
  <2> HIDE DEF N
  <2> QED
    BY <1>1, <1>4, FS_Union DEF BoardInv, BoardTypeOK
<1>7. /\ \A v \in S : ReadsOf(v)' = ReadsOf(v) \cup {NewRead(v, 1, TRUE)}
      /\ \A v \in Cols \ S : ReadsOf(v)' = ReadsOf(v)
  <2>1. ASSUME NEW v \in S PROVE ReadsOf(v)' = ReadsOf(v) \cup {NewRead(v, 1, TRUE)}
    <3>1. \A r : r \in N /\ r.col = v <=> r = NewRead(v, 1, TRUE)
      BY <1>3
    <3> HIDE DEF N
    <3>2. \A r : r \in ReadsOf(v)' <=> r \in ReadsOf(v) \/ (r \in N /\ r.col = v)
      BY <1>1 DEF ReadsOf
    <3> QED
      BY <3>1, <3>2
  <2>2. ASSUME NEW v \in Cols \ S PROVE ReadsOf(v)' = ReadsOf(v)
    <3>1. \A r : ~(r \in N /\ r.col = v)
      BY <1>3
    <3> HIDE DEF N
    <3> QED
      BY <1>1, <3>1 DEF ReadsOf
  <2> QED
    BY <2>1, <2>2
<1>8. /\ \A v \in S \ outdated' : ReadsOf(v)' = {NewRead(v, 1, TRUE)}
      /\ \A v \in Cols \ S : v \notin outdated' => v \notin outdated
      /\ outdated' \subseteq Cols \cup {Gone}
  BY <1>1, <1>7 DEF BoardInv, BoardTypeOK
<1>9. OneReadEach'
  <2> SUFFICES ASSUME NEW v \in Cols, v \notin outdated' PROVE \A r, t \in ReadsOf(v)' : r = t
    BY DEF OneReadEach
  <2>1. CASE v \in S
    <3>1. ReadsOf(v)' = {NewRead(v, 1, TRUE)}
      BY <1>8, <2>1
    <3> QED
      BY <3>1
  <2>2. CASE v \notin S
    <3>1. ReadsOf(v)' = ReadsOf(v) /\ v \notin outdated
      BY <1>7, <1>8, <2>2
    <3> QED
      BY <3>1 DEF BoardInv, OneReadEach
  <2> QED
    BY <2>1, <2>2
<1>10. ASSUME NEW v \in S \ outdated' PROVE ColumnFits(v)'
  <2>1. perCol'[v] = E
    BY <1>1
  <2>2. FirstPages(v, perCol[v].page)' = <<>>
    <3>1. FirstPages(v, 0)' = FirstPages(v, 0)
      BY PagesIdle
    <3>2. FirstPages(v, 0) = <<>>
      BY FirstPagesGrow
    <3> QED
      BY <1>2, <2>1, <3>1, <3>2
  <2> QED
    <3> DEFINE n == NewRead(v, 1, TRUE)
    <3>1. ReadsOf(v)' = {n}
      BY <1>8
    <3>2. perCol'[v].rows = <<>> /\ perCol'[v].page = 0 /\ ~(perCol'[v].page > 0)
      BY <1>2, <2>1
    <3>3. n.page = 1 /\ n.rows = Nothing
      BY <1>3
    <3> HIDE DEF n
    <3>4. \A r \in ReadsOf(v)' : r.page = 0 + 1 /\ r.rows = Nothing /\ r.page = 1
      BY <3>1, <3>3
    <3> QED
      BY <2>2, <3>2, <3>4 DEF ColumnFits
<1>11. \A v \in Cols \ S : perCol'[v] = perCol[v]
  BY <1>1
<1> QED
  BY <1>1, <1>5, <1>6, <1>7, <1>8, <1>9, <1>10, <1>11

LEMMA ReloadBoardKeeps ==
  ASSUME BoardInv, ReloadBoard
  PROVE  BoardInv'
<1>1. RefreshCols(Cols) /\ reload' = FALSE /\ UNCHANGED <<valueOf, writes, drag, drops, edited>>
  BY DEF ReloadBoard
<1>2. /\ perCol' \in [Cols -> Column] /\ reads' \subseteq Read /\ IsFiniteSet(reads')
      /\ Cardinality(reads') <= MaxReads /\ outdated' \subseteq Cols \cup {Gone}
      /\ OneReadEach' /\ \A v \in Cols \ outdated' : ColumnFits(v)'
  BY <1>1, RefreshFacts
<1>3. BoardTypeOK'
  BY <1>1, <1>2 DEF BoardInv, BoardTypeOK
<1> QED
  BY <1>1, <1>2, <1>3 DEF BoardInv, Trusted

LEMMA DropFailsKeeps ==
  ASSUME BoardInv, NEW d \in drops, DropFails(d)
  PROVE  BoardInv'
<1> DEFINE S == {d.from, d.to}
<1>1. /\ d.reply = "error" /\ drops' = drops \ {d} /\ RefreshCols(S)
      /\ UNCHANGED <<valueOf, writes, drag, edited, reload>>
  BY DEF DropFails
<1>2. S \in SUBSET Cols
  BY DEF BoardInv, BoardTypeOK, Drop
<1> HIDE DEF S
<1>3. /\ perCol' \in [Cols -> Column] /\ reads' \subseteq Read /\ IsFiniteSet(reads')
      /\ Cardinality(reads') <= MaxReads /\ outdated' \subseteq Cols \cup {Gone}
      /\ OneReadEach' /\ \A v \in S \ outdated' : ColumnFits(v)'
      /\ \A v \in Cols \ S : /\ perCol'[v] = perCol[v] /\ ReadsOf(v)' = ReadsOf(v)
                             /\ (v \notin outdated' => v \notin outdated)
  BY <1>1, <1>2, RefreshFacts
<1>4. BoardTypeOK'
  BY <1>1, <1>3 DEF BoardInv, BoardTypeOK
<1>5. ASSUME NothingDue', NEW v \in Trusted' PROVE ColumnFits(v)'
  <2>1. NothingDue /\ v \in Cols /\ v \notin outdated'
    BY <1>1, <1>5 DEF NothingDue, Trusted
  <2>2. CASE v \in S
    BY <1>3, <2>1, <2>2
  <2>3. CASE v \notin S
    <3>1. v \notin outdated /\ perCol'[v] = perCol[v] /\ ReadsOf(v)' = ReadsOf(v)
      <4>1. v \in Cols \ S
        BY <2>1, <2>3
      <4> QED
        BY <1>3, <2>1, <4>1
    <3>2. v \in Trusted
      <4>1. ASSUME NEW e \in drops, e.reply = "error" PROVE v \notin {e.from, e.to}
        BY <1>1, <1>5, <2>3, <4>1 DEF Trusted, S
      <4> QED
        BY <2>1, <3>1, <4>1 DEF Trusted
    <3> QED
      BY <1>1, <2>1, <3>1, <3>2, OthersFit
  <2> QED
    BY <2>2, <2>3
<1> QED
  BY <1>1, <1>3, <1>4, <1>5 DEF BoardInv

LEMMA ServeCardsKeeps ==
  ASSUME BoardInv, NEW r \in reads, ServeCards(r)
  PROVE  BoardInv'
<1>0. PICK n : n = [r EXCEPT !.rows = Kept(r.col, PageAt(Listed(r.col), r.page)),
                             !.total = Len(Listed(r.col))]
  OBVIOUS
<1>1. /\ r.rows = Nothing /\ reads' = (reads \ {r}) \cup {n}
      /\ UNCHANGED <<valueOf, writes, perCol, drag, drops, edited, reload, outdated>>
  BY <1>0 DEF ServeCards
<1>2. r \in Read /\ r.col \in Cols /\ r.page \in Nat \ {0}
  BY DEF BoardInv, BoardTypeOK, Read
<1>3. /\ n \in Read /\ n.col = r.col /\ n.page = r.page /\ n.again = r.again
      /\ n.rows = Kept(r.col, PageAt(Listed(r.col), r.page)) /\ n.total = Len(Listed(r.col))
  <2>1. Kept(r.col, PageAt(Listed(r.col), r.page)) \in Seq(Cards) /\ Len(Listed(r.col)) \in Nat
    BY <1>2, PageOfList, ListedFacts
  <2> QED
    BY <1>0, <1>2, <2>1 DEF Read
<1>4. IsFiniteSet(reads') /\ Cardinality(reads') <= MaxReads
  <2>1. IsFiniteSet(reads \ {r}) /\ Cardinality(reads \ {r}) = Cardinality(reads) - 1
    BY FS_RemoveElement DEF BoardInv
  <2>2. /\ IsFiniteSet(reads')
        /\ Cardinality(reads') = Cardinality(reads \ {r})
             \/ Cardinality(reads') = Cardinality(reads \ {r}) + 1
    BY <1>1, <2>1, FS_AddElement
  <2>3. Cardinality(reads) \in Nat /\ Cardinality(reads) <= MaxReads
    BY FS_CardinalityType DEF BoardInv, BoardTypeOK
  <2> QED
    BY <2>1, <2>2, <2>3, BoardAssumption
<1>5. BoardTypeOK'
  BY <1>1, <1>3, <1>4 DEF BoardInv, BoardTypeOK
<1>6. /\ \A w \in Cols : w # r.col => ReadsOf(w)' = ReadsOf(w)
      /\ r.col \notin outdated => ReadsOf(r.col) = {r} /\ ReadsOf(r.col)' = {n}
  <2>1. ASSUME NEW w \in Cols, w # r.col PROVE ReadsOf(w)' = ReadsOf(w)
    BY <1>1, <1>3, <2>1 DEF ReadsOf
  <2>2. ASSUME r.col \notin outdated PROVE ReadsOf(r.col) = {r}
    BY <1>2, <2>2 DEF BoardInv, OneReadEach, ReadsOf
  <2>3. ReadsOf(r.col)' = (ReadsOf(r.col) \ {r}) \cup {n}
    BY <1>1, <1>3 DEF ReadsOf
  <2> QED
    BY <2>1, <2>2, <2>3
<1>7. OneReadEach'
  <2> SUFFICES ASSUME NEW w \in Cols, w \notin outdated PROVE \A s, t \in ReadsOf(w)' : s = t
    BY <1>1 DEF OneReadEach
  <2>1. CASE w = r.col
    BY <1>6, <2>1
  <2>2. CASE w # r.col
    BY <1>6, <2>2 DEF BoardInv, OneReadEach
  <2> QED
    BY <2>1, <2>2
<1>8. ASSUME NothingDue', NEW w \in Trusted' PROVE ColumnFits(w)'
  <2>1. NothingDue /\ w \in Trusted /\ w \in Cols /\ w \notin outdated /\ ColumnFits(w)
    BY <1>1, <1>8 DEF NothingDue, Trusted, BoardInv
  <2>2. CASE w # r.col
    BY <1>1, <1>6, <2>1, <2>2, OthersFit
  <2>3. CASE w = r.col
    <3>1. /\ FirstPages(w, perCol[w].page)' = FirstPages(w, perCol[w].page)
          /\ Listed(w)' = Listed(w) /\ \A s \in Seq(Cards) : Kept(w, s)' = Kept(w, s)
      BY <1>1, <2>1, ServerIdle, PagesStay
    <3>2. ReadsOf(w) = {r} /\ ReadsOf(w)' = {n}
      BY <1>6, <2>1, <2>3
    <3>3. r.page = perCol[w].page + 1 /\ (r.again => r.page = 1)
      BY <2>1, <3>2 DEF ColumnFits
    <3>4. Kept(w, PageAt(Listed(w), r.page))' = Kept(w, PageAt(Listed(w), r.page))
      <4>1. PageAt(Listed(w), r.page) \in Seq(Cards)
        BY <1>2, PageOfList
      <4>2. PageAt(Listed(w), r.page)' = PageAt(Listed(w), r.page)
        BY <3>1
      <4> QED
        BY <3>1, <4>1, <4>2
    <3>5. \A t \in ReadsOf(w)' : t.page = r.page /\ t.again = r.again
             /\ t.rows = Kept(w, PageAt(Listed(w), t.page))' /\ t.total = Len(Listed(w))
      BY <1>3, <2>3, <3>2, <3>4
    <3> QED
      BY <1>1, <2>1, <3>1, <3>3, <3>5 DEF ColumnFits
  <2> QED
    BY <2>2, <2>3
<1> QED
  BY <1>1, <1>4, <1>5, <1>7, <1>8 DEF BoardInv

\* An answer or a failure takes a request away.
LEMMA ReadEnds ==
  ASSUME BoardInv, NEW r \in reads, reads' = reads \ {r}, UNCHANGED outdated
  PROVE  /\ reads' \subseteq Read /\ IsFiniteSet(reads') /\ Cardinality(reads') <= MaxReads
         /\ OneReadEach' /\ r \in Read /\ r.col \in Cols
         /\ \A w \in Cols : ReadsOf(w)' \subseteq ReadsOf(w)
         /\ r.col \notin outdated => ReadsOf(r.col)' = {}
<1>1. r \in Read /\ r.col \in Cols
  BY DEF BoardInv, BoardTypeOK, Read
<1>2. IsFiniteSet(reads') /\ Cardinality(reads') <= MaxReads
  <2>1. IsFiniteSet(reads') /\ Cardinality(reads') = Cardinality(reads) - 1
    BY FS_RemoveElement DEF BoardInv
  <2>2. Cardinality(reads) \in Nat /\ Cardinality(reads) <= MaxReads
    BY FS_CardinalityType DEF BoardInv, BoardTypeOK
  <2> QED
    BY <2>1, <2>2, BoardAssumption
<1>3. \A w \in Cols : ReadsOf(w)' \subseteq ReadsOf(w)
  BY DEF ReadsOf
<1>4. r.col \notin outdated => ReadsOf(r.col)' = {}
  BY <1>1 DEF BoardInv, OneReadEach, ReadsOf
<1>5. OneReadEach'
  BY <1>3 DEF BoardInv, OneReadEach
<1> QED
  BY <1>1, <1>2, <1>3, <1>4, <1>5 DEF BoardInv, BoardTypeOK

LEMMA CardsArriveKeeps ==
  ASSUME BoardInv, NEW r \in reads, CardsArrive(r)
  PROVE  BoardInv'
<1> DEFINE v == r.col
           c == [rows |-> IF r.again THEN r.rows ELSE perCol[v].rows \o r.rows,
                 page |-> IF r.again THEN 1 ELSE perCol[v].page + 1,
                 total |-> r.total, loading |-> FALSE]
<1>1. /\ r.rows # Nothing /\ reads' = reads \ {r} /\ perCol' = [perCol EXCEPT ![v] = c]
      /\ UNCHANGED <<valueOf, writes, drag, drops, edited, reload, outdated>>
  BY DEF CardsArrive
<1>2. /\ reads' \subseteq Read /\ IsFiniteSet(reads') /\ Cardinality(reads') <= MaxReads
      /\ OneReadEach' /\ r \in Read /\ v \in Cols
      /\ \A w \in Cols : ReadsOf(w)' \subseteq ReadsOf(w)
      /\ v \notin outdated => ReadsOf(v)' = {}
  BY <1>1, ReadEnds
<1>3. /\ r.rows \in Seq(Cards) /\ r.total \in Nat /\ r.again \in BOOLEAN /\ r \in ReadsOf(v)
      /\ perCol[v] \in Column /\ perCol[v].rows \in Seq(Cards) /\ perCol[v].page \in Nat
      /\ perCol \in [Cols -> Column]
  BY <1>1, <1>2 DEF BoardInv, BoardTypeOK, Read, Column, ReadsOf
<1>4. c \in Column
  <2>1. perCol[v].rows \o r.rows \in Seq(Cards)
    BY <1>3, ConcatProperties
  <2> QED
    BY <1>3, <2>1 DEF Column
<1>5. /\ c.rows = IF r.again THEN r.rows ELSE perCol[v].rows \o r.rows
      /\ c.page = IF r.again THEN 1 ELSE perCol[v].page + 1
      /\ c.total = r.total
  OBVIOUS
<1> HIDE DEF c
<1>6. perCol' \in [Cols -> Column] /\ perCol'[v] = c /\ \A w \in Cols : w # v => perCol'[w] = perCol[w]
  BY <1>1, <1>2, <1>3, <1>4
<1>7. BoardTypeOK'
  BY <1>1, <1>2, <1>6 DEF BoardInv, BoardTypeOK
<1>8. ASSUME NothingDue', NEW w \in Trusted' PROVE ColumnFits(w)'
  <2>1. NothingDue /\ w \in Trusted /\ w \in Cols /\ w \notin outdated /\ ColumnFits(w)
    BY <1>1, <1>8 DEF NothingDue, Trusted, BoardInv
  <2>2. CASE w # v
    BY <1>1, <1>2, <1>6, <2>1, <2>2, OthersFit
  <2>3. CASE w = v
    <3>0. PICK m \in Nat : m = perCol[v].page
      BY <1>3
    <3> DEFINE k == Kept(v, PageAt(Listed(v), m + 1))
    <3>1. /\ perCol[v].rows = FirstPages(v, m) /\ r.page = m + 1 /\ (r.again => m + 1 = 1)
          /\ r.rows = Kept(v, PageAt(Listed(v), r.page)) /\ r.total = Len(Listed(v))
      BY <1>1, <1>3, <2>1, <2>3, <3>0 DEF ColumnFits
    <3>2. r.rows = k
      BY <3>1
    <3>3. c.page = m + 1
      BY <1>3, <1>5, <3>0, <3>1
    <3>4. c.rows = FirstPages(v, m + 1)
      <4>1. FirstPages(v, m + 1) = FirstPages(v, m) \o k
        BY FirstPagesGrow
      <4>2. CASE r.again
        <5>1. m = 0
          BY <3>1, <4>2
        <5>2. FirstPages(v, m) = <<>> /\ k \in Seq(Cards)
          BY <5>1, FirstPagesGrow
        <5>3. <<>> \o k = k
          BY <5>2, ConcatEmptySeq
        <5> QED
          BY <1>5, <3>2, <4>1, <4>2, <5>2, <5>3
      <4>3. CASE ~r.again
        BY <1>5, <3>1, <3>2, <4>1, <4>3
      <4> QED
        BY <4>2, <4>3
    <3>5. FirstPages(v, m + 1)' = FirstPages(v, m + 1) /\ Listed(v)' = Listed(v)
      BY <1>1, PagesIdle
    <3>6. ReadsOf(v)' = {}
      BY <1>2, <2>1, <2>3
    <3> QED
      BY <1>5, <1>6, <2>3, <3>1, <3>3, <3>4, <3>5, <3>6 DEF ColumnFits
  <2> QED
    BY <2>2, <2>3
<1> QED
  BY <1>1, <1>2, <1>7, <1>8 DEF BoardInv

LEMMA CardsFailKeeps ==
  ASSUME BoardInv, NEW r \in reads, CardsFail(r)
  PROVE  BoardInv'
<1> DEFINE v == r.col
<1>1. /\ reads' = reads \ {r} /\ perCol' = [perCol EXCEPT ![v].loading = FALSE]
      /\ UNCHANGED <<valueOf, writes, drag, drops, edited, reload, outdated>>
  BY DEF CardsFail
<1>2. /\ reads' \subseteq Read /\ IsFiniteSet(reads') /\ Cardinality(reads') <= MaxReads
      /\ OneReadEach' /\ v \in Cols /\ \A w \in Cols : ReadsOf(w)' \subseteq ReadsOf(w)
  BY <1>1, ReadEnds
<1>3. perCol \in [Cols -> Column] /\ perCol[v] \in Column
  BY <1>2 DEF BoardInv, BoardTypeOK
<1> HIDE DEF v
<1>4. perCol' \in [Cols -> Column]
  BY <1>1, <1>2, <1>3 DEF Column
<1>5. \A w \in Cols : /\ perCol'[w].rows = perCol[w].rows /\ perCol'[w].page = perCol[w].page
                      /\ perCol'[w].total = perCol[w].total
  BY <1>1, <1>2, <1>3 DEF Column
<1>6. BoardTypeOK'
  BY <1>1, <1>2, <1>4 DEF BoardInv, BoardTypeOK
<1>7. ASSUME NothingDue', NEW w \in Trusted' PROVE ColumnFits(w)'
  <2>1. NothingDue /\ w \in Trusted /\ w \in Cols
    BY <1>1, <1>7 DEF NothingDue, Trusted
  <2> QED
    BY <1>1, <1>2, <1>5, <2>1, OthersFit
<1> QED
  BY <1>1, <1>2, <1>6, <1>7 DEF BoardInv

LEMMA DragCardKeeps ==
  ASSUME BoardInv, NEW c \in Cards, NEW from \in Cols, DragCard(c, from)
  PROVE  BoardInv'
<1>1. /\ drag' = [card |-> c, from |-> from]
      /\ UNCHANGED <<valueOf, writes, perCol, reads, drops, edited, reload, outdated>>
  BY DEF DragCard
<1>2. BoardTypeOK'
  BY <1>1 DEF BoardInv, BoardTypeOK, Dragged
<1>3. \A v : ReadsOf(v)' = ReadsOf(v)
  BY <1>1 DEF ReadsOf
<1>4. OneReadEach'
  BY <1>1, <1>3 DEF BoardInv, OneReadEach
<1>5. ASSUME NothingDue', NEW v \in Trusted' PROVE ColumnFits(v)'
  <2>1. NothingDue /\ v \in Trusted
    BY <1>1, <1>5 DEF NothingDue, Trusted
  <2> QED
    BY <1>1, <1>3, <2>1, OthersFit
<1> QED
  BY <1>1, <1>2, <1>4, <1>5 DEF BoardInv

LEMMA DropCardKeeps ==
  ASSUME BoardInv, NEW to \in Cols, DropCard(to)
  PROVE  BoardInv'
<1>1. /\ drag \in Dragged /\ drag' = Nothing
      /\ UNCHANGED <<valueOf, perCol, reads, edited, reload, outdated>>
  BY DEF DropCard, BoardInv, BoardTypeOK
<1>2. /\ writes' \in Nat /\ drops' \subseteq Drop
      /\ \A e \in drops' : e \in drops \/ e.reply = "none"
      /\ drops \subseteq drops'
  <2>1. CASE UNCHANGED <<writes, drops>>
    BY <2>1 DEF BoardInv, BoardTypeOK
  <2>2. CASE ~UNCHANGED <<writes, drops>>
    <3> DEFINE d == [id |-> writes, card |-> drag.card, from |-> drag.from, to |-> to,
                     reply |-> "none"]
    <3>1. writes' = writes + 1 /\ drops' = drops \cup {d}
      BY <2>2 DEF DropCard, Write
    <3>2. d \in Drop /\ d.reply = "none"
      BY <1>1 DEF Drop, Dragged, BoardInv, BoardTypeOK
    <3> HIDE DEF d
    <3> QED
      BY <3>1, <3>2 DEF BoardInv, BoardTypeOK
  <2> QED
    BY <2>1, <2>2
<1>3. BoardTypeOK'
  BY <1>1, <1>2 DEF BoardInv, BoardTypeOK
<1>4. OneReadEach'
  BY <1>1 DEF BoardInv, OneReadEach, ReadsOf
<1>5. ASSUME NothingDue', NEW v \in Trusted' PROVE ColumnFits(v)'
  <2>1. NothingDue /\ v \in Trusted /\ v \in Cols
    BY <1>1, <1>2, <1>5 DEF NothingDue, Trusted
  <2>2. ReadsOf(v)' = ReadsOf(v)
    BY <1>1 DEF ReadsOf
  <2> QED
    BY <1>1, <2>1, <2>2, OthersFit
<1> QED
  BY <1>1, <1>3, <1>4, <1>5 DEF BoardInv

\* A refused update that was made all the same is seen by the two columns that are read
\* again, and by the one the card was in if somebody had moved it.
LEMMA ServeDropKeeps ==
  ASSUME BoardInv, NEW d \in drops, NEW said \in {"ok", "error"}, ServeDrop(d, said)
  PROVE  BoardInv'
<1> DEFINE e == [d EXCEPT !.reply = said]
<1>1. /\ d.reply = "none" /\ drops' = (drops \ {d}) \cup {e}
      /\ UNCHANGED <<writes, perCol, reads, drag, edited, reload>>
      /\ outdated' = IF valueOf' = valueOf THEN outdated
                     ELSE outdated \cup ({valueOf[d.card]} \ {d.from})
      /\ \/ valueOf' = [valueOf EXCEPT ![d.card] = d.to] /\ valueOf[d.card] # Gone
         \/ UNCHANGED valueOf
  BY DEF ServeDrop
<1>2. /\ d \in Drop /\ d.card \in Cards /\ d.from \in Cols /\ d.to \in Cols
      /\ valueOf \in [Cards -> Cols \cup {Gone}] /\ valueOf[d.card] \in Cols \cup {Gone}
  BY DEF BoardInv, BoardTypeOK, Drop
<1>3. e \in Drop /\ e.reply = said /\ e.from = d.from /\ e.to = d.to
  BY <1>2 DEF Drop
<1> HIDE DEF e
<1>4. valueOf' \in [Cards -> Cols \cup {Gone}] /\ outdated \subseteq outdated'
      /\ outdated' \subseteq Cols \cup {Gone}
  BY <1>1, <1>2 DEF BoardInv, BoardTypeOK
<1>5. BoardTypeOK'
  BY <1>1, <1>3, <1>4 DEF BoardInv, BoardTypeOK
<1>6. \A v : ReadsOf(v)' = ReadsOf(v)
  BY <1>1 DEF ReadsOf
<1>7. OneReadEach'
  BY <1>4, <1>6 DEF BoardInv, OneReadEach
<1>8. ASSUME NothingDue', NEW v \in Trusted' PROVE ColumnFits(v)'
  <2>1. said = "error"
    BY <1>1, <1>3, <1>8 DEF NothingDue
  <2>2. NothingDue /\ v \in Cols /\ v \notin outdated' /\ v \notin outdated /\ v # d.from /\ v # d.to
    BY <1>1, <1>2, <1>3, <1>4, <1>8, <2>1 DEF NothingDue, Trusted
  <2>3. v \in Trusted
    <3>1. ASSUME NEW f \in drops, f.reply = "error" PROVE v \notin {f.from, f.to}
      BY <1>1, <1>8, <3>1 DEF Trusted
    <3> QED
      BY <2>2, <3>1 DEF Trusted
  <2>4. CASE UNCHANGED valueOf
    BY <1>1, <1>6, <2>2, <2>3, <2>4, OthersFit
  <2>5. CASE ~UNCHANGED valueOf
    <3>1. /\ valueOf' = [valueOf EXCEPT ![d.card] = d.to] /\ valueOf[d.card] # Gone
          /\ v # valueOf[d.card]
      BY <1>1, <2>2, <2>5
    <3>2. d.to # Gone
      BY <1>2, BoardAssumption DEF Cols
    <3>3. Listed(v)' = Listed(v) /\ \A s \in Seq(Cards) : Kept(v, s)' = Kept(v, s)
      <4>1. /\ d.card \in Cards /\ d.to \in Cols \cup {Gone} /\ v \notin {valueOf[d.card], d.to}
            /\ d.to = Gone => v # NoValue
        BY <1>2, <2>2, <3>1, <3>2
      <4> QED
        BY <2>2, <3>1, <4>1, ServerStays
    <3>4. ColumnFits(v)
      BY <2>2, <2>3 DEF BoardInv
    <3> QED
      BY <1>1, <1>6, <2>2, <3>3, <3>4, ColumnStays
  <2> QED
    BY <2>4, <2>5
<1> QED
  BY <1>1, <1>5, <1>7, <1>8 DEF BoardInv

LEMMA DropDoneKeeps ==
  ASSUME BoardInv, NEW d \in drops, DropDone(d)
  PROVE  BoardInv'
<1> DEFINE Places(v) == {i \in DOMAIN perCol[v].rows : perCol[v].rows[i] # d.card}
           Without(v) == AtPlaces(perCol[v].rows, Places(v))
           Moved(v) == [perCol[v] EXCEPT
             !.rows  = IF v = d.to THEN <<d.card>> \o Without(v) ELSE Without(v),
             !.total = IF v = d.to THEN @ + 1 ELSE IF v = d.from /\ @ > 0 THEN @ - 1 ELSE @]
<1>1. /\ drops' = drops \ {d} /\ reload' = TRUE /\ perCol' = [v \in Cols |-> Moved(v)]
      /\ UNCHANGED <<valueOf, writes, reads, drag, edited, outdated>>
  BY DEF DropDone
<1>2. d.card \in Cards /\ perCol \in [Cols -> Column]
  BY DEF BoardInv, BoardTypeOK, Drop
<1>3. ASSUME NEW v \in Cols PROVE Moved(v) \in Column
  <2>1. perCol[v] \in Column /\ perCol[v].rows \in Seq(Cards) /\ perCol[v].total \in Nat
    BY <1>2 DEF Column
  <2>2. Places(v) \in SUBSET (1..Len(perCol[v].rows))
    BY <2>1, LenProperties
  <2> HIDE DEF Places
  <2>3. Without(v) \in Seq(Cards)
    BY <2>1, <2>2, AtPlacesFacts
  <2> HIDE DEF Without
  <2>4. (IF v = d.to THEN <<d.card>> \o Without(v) ELSE Without(v)) \in Seq(Cards)
    BY <1>2, <2>3, ConcatProperties
  <2>5. (IF v = d.to THEN perCol[v].total + 1
         ELSE IF v = d.from /\ perCol[v].total > 0 THEN perCol[v].total - 1
         ELSE perCol[v].total) \in Nat
    BY <2>1
  <2> QED
    BY <2>1, <2>4, <2>5 DEF Column
<1> HIDE DEF Moved
<1>4. perCol' \in [Cols -> Column]
  BY <1>1, <1>3
<1>5. BoardTypeOK'
  BY <1>1, <1>4 DEF BoardInv, BoardTypeOK
<1>6. OneReadEach'
  BY <1>1 DEF BoardInv, OneReadEach, ReadsOf
<1> QED
  BY <1>1, <1>5, <1>6 DEF BoardInv, NothingDue

LEMMA EditKeepsBoard ==
  ASSUME BoardInv,
         EditDone \/ \E c \in Cards, x \in Cols \cup {Gone} : EditCard(c, x)
  PROVE  BoardInv'
<1>0. edited \in Nat /\ reload \in BOOLEAN
  BY DEF BoardInv, BoardTypeOK
<1>1. /\ UNCHANGED <<perCol, reads, drag, drops, outdated>> /\ (edited' # 0 \/ reload')
      /\ edited' \in Nat /\ reload' \in BOOLEAN
  <2>1. CASE EditDone
    BY <1>0, <2>1 DEF EditDone
  <2>2. CASE \E c \in Cards, x \in Cols \cup {Gone} : EditCard(c, x)
    BY <1>0, <2>2 DEF EditCard
  <2> QED
    BY <2>1, <2>2
<1>2. writes' \in Nat /\ valueOf' \in [Cards -> Cols \cup {Gone}]
  BY DEF EditDone, EditCard, Write, BoardInv, BoardTypeOK
<1>3. BoardTypeOK'
  BY <1>1, <1>2 DEF BoardInv, BoardTypeOK
<1>4. OneReadEach'
  BY <1>1 DEF BoardInv, OneReadEach, ReadsOf
<1> QED
  BY <1>1, <1>3, <1>4 DEF BoardInv, NothingDue

LEMMA ForeignMoveKeeps ==
  ASSUME BoardInv, NEW c \in Cards, NEW x \in Cols \cup {Gone}, ForeignMove(c, x)
  PROVE  BoardInv'
<1>1. /\ valueOf[c] # Gone /\ writes' = writes + 1 /\ valueOf' = [valueOf EXCEPT ![c] = x]
      /\ outdated' = outdated \cup {valueOf[c], x} \cup (IF x = Gone THEN {NoValue} ELSE {})
      /\ UNCHANGED <<perCol, reads, drag, drops, edited, reload>>
  BY DEF ForeignMove, Write
<1>2. valueOf \in [Cards -> Cols \cup {Gone}] /\ NoValue \in Cols
  BY DEF BoardInv, BoardTypeOK, Cols
<1>3. valueOf' \in [Cards -> Cols \cup {Gone}] /\ outdated' \subseteq Cols \cup {Gone}
      /\ outdated \subseteq outdated'
  BY <1>1, <1>2 DEF BoardInv, BoardTypeOK
<1>4. BoardTypeOK'
  BY <1>1, <1>3 DEF BoardInv, BoardTypeOK
<1>5. \A v : ReadsOf(v)' = ReadsOf(v)
  BY <1>1 DEF ReadsOf
<1>6. OneReadEach'
  BY <1>3, <1>5 DEF BoardInv, OneReadEach
<1>7. ASSUME NothingDue', NEW v \in Trusted' PROVE ColumnFits(v)'
  <2>1. /\ NothingDue /\ v \in Trusted /\ v \in Cols /\ v \notin outdated'
    BY <1>1, <1>3, <1>7 DEF NothingDue, Trusted
  <2>2. v # valueOf[c] /\ v # x /\ (x = Gone => v # NoValue)
    BY <1>1, <2>1
  <2>3. Listed(v)' = Listed(v) /\ \A s \in Seq(Cards) : Kept(v, s)' = Kept(v, s)
    BY <1>1, <2>1, <2>2, ServerStays
  <2>4. ColumnFits(v)
    BY <2>1 DEF BoardInv
  <2> QED
    BY <1>1, <1>5, <2>1, <2>3, <2>4, ColumnStays
<1> QED
  BY <1>1, <1>4, <1>6, <1>7 DEF BoardInv

LEMMA BoardInvStep == BoardInv /\ [BoardNext]_boardVars => BoardInv'
<1> SUFFICES ASSUME BoardInv, [BoardNext]_boardVars PROVE BoardInv'
  OBVIOUS
<1>1. ASSUME NEW v \in Cols, LoadMore(v) PROVE BoardInv'
  BY <1>1, LoadMoreKeeps
<1>2. CASE ReloadBoard
  BY <1>2, ReloadBoardKeeps
<1>3. ASSUME NEW r \in reads, ServeCards(r) PROVE BoardInv'
  BY <1>3, ServeCardsKeeps
<1>4. ASSUME NEW r \in reads, CardsArrive(r) PROVE BoardInv'
  BY <1>4, CardsArriveKeeps
<1>5. ASSUME NEW r \in reads, CardsFail(r) PROVE BoardInv'
  BY <1>5, CardsFailKeeps
<1>6. ASSUME NEW v \in Cols, DropCard(v) PROVE BoardInv'
  BY <1>6, DropCardKeeps
<1>7. ASSUME NEW d \in drops, DropDone(d) PROVE BoardInv'
  BY <1>7, DropDoneKeeps
<1>8. ASSUME NEW d \in drops, DropFails(d) PROVE BoardInv'
  BY <1>8, DropFailsKeeps
<1>9. ASSUME NEW d \in drops, NEW said \in {"ok", "error"}, ServeDrop(d, said) PROVE BoardInv'
  BY <1>9, ServeDropKeeps
<1>10. ASSUME NEW c \in Cards, NEW x \in Cols \cup {Gone}, EditCard(c, x) PROVE BoardInv'
  BY <1>10, EditKeepsBoard
<1>11. ASSUME NEW c \in Cards, NEW x \in Cols \cup {Gone}, ForeignMove(c, x) PROVE BoardInv'
  BY <1>11, ForeignMoveKeeps
<1>12. CASE EditDone
  BY <1>12, EditKeepsBoard
<1>13. ASSUME NEW c \in Cards, NEW v \in Cols, DragCard(c, v) PROVE BoardInv'
  BY <1>13, DragCardKeeps
<1>14. CASE UNCHANGED boardVars
  <2>1. UNCHANGED <<valueOf, writes, perCol, reads, drag, drops, edited, reload, outdated>>
    BY <1>14 DEF boardVars
  <2>2. BoardTypeOK'
    BY <2>1 DEF BoardInv, BoardTypeOK
  <2>3. \A v : ReadsOf(v)' = ReadsOf(v)
    BY <2>1 DEF ReadsOf
  <2>4. ASSUME NothingDue', NEW v \in Trusted' PROVE ColumnFits(v)'
    <3>1. NothingDue /\ v \in Trusted
      BY <2>1, <2>4 DEF NothingDue, Trusted
    <3> QED
      BY <2>1, <2>3, <3>1, OthersFit
  <2>5. OneReadEach'
    BY <2>1, <2>3 DEF BoardInv, OneReadEach
  <2> QED
    BY <2>1, <2>2, <2>4, <2>5 DEF BoardInv
<1> QED
  BY <1>1, <1>2, <1>3, <1>4, <1>5, <1>6, <1>7, <1>8, <1>9, <1>10, <1>11, <1>12, <1>13, <1>14
  DEF BoardNext

LEMMA BoardInvHolds == BoardSpec => []BoardInv
<1> QED
  BY BoardInvInit, BoardInvStep, PTL DEF BoardSpec

\* The board's columns, requests and drops are well typed, for any cards and values of
\* the board column (KanbanView.tsx).
THEOREM BoardTypesHold == BoardSpec => []BoardTypeOK
<1>1. BoardInv => BoardTypeOK
  BY DEF BoardInv
<1> QED
  BY <1>1, BoardInvHolds, PTL

\* When nothing is under way, a column of the board shows the server's rows as far as it
\* was read, after any drops, several of them at a time, refused drops, edits and failed
\* requests of this page, unless its requests overtook each other or somebody else
\* changed its rows since.
THEOREM BoardAlwaysMatches == BoardSpec => []BoardMatchesServer
<1>1. BoardInv => BoardMatchesServer
  <2> SUFFICES ASSUME BoardInv, drops = {} /\ edited = 0 /\ ~reload, NEW v \in Cols \ outdated
               PROVE  /\ perCol[v].rows = FirstPages(v, perCol[v].page)
                      /\ perCol[v].page > 0 => perCol[v].total = Len(Listed(v))
    BY DEF BoardMatchesServer
  <2>1. NothingDue /\ v \in Trusted
    BY DEF NothingDue, Trusted
  <2> QED
    BY <2>1 DEF BoardInv, ColumnFits
<1> QED
  BY <1>1, BoardInvHolds, PTL
-----------------------------------------------------------------------------
(* The page as a whole.                                                    *)

LEMMA PartsBegin == MCInit => GridInit /\ BulkInit /\ ChunkInit /\ FormInit /\ BoardInit
BY DEF MCInit

LEMMA PartsStep ==
  [MCNext]_pageVars =>
    /\ [GridNext]_gridVars /\ [BulkNext]_bulkVars /\ [ChunkNext]_chunkVars
    /\ [FormNext]_formVars /\ [BoardNext]_boardVars
<1> SUFFICES ASSUME [MCNext]_pageVars
             PROVE  /\ [GridNext]_gridVars /\ [BulkNext]_bulkVars /\ [ChunkNext]_chunkVars
                    /\ [FormNext]_formVars /\ [BoardNext]_boardVars
  OBVIOUS
<1>1. CASE UNCHANGED pageVars
  BY <1>1 DEF pageVars
<1>2. CASE GridNext /\ UNCHANGED <<part, bulkVars, chunkVars, formVars, boardVars>>
  BY <1>2
<1>3. CASE BulkNext /\ UNCHANGED <<part, gridVars, chunkVars, formVars, boardVars>>
  BY <1>3
<1>4. CASE ChunkNext /\ UNCHANGED <<part, gridVars, bulkVars, formVars, boardVars>>
  BY <1>4
<1>5. CASE FormNext /\ UNCHANGED <<part, gridVars, bulkVars, chunkVars, boardVars>>
  BY <1>5
<1>6. CASE BoardNext /\ UNCHANGED <<part, gridVars, bulkVars, chunkVars, formVars>>
  BY <1>6
<1> QED
  BY <1>1, <1>2, <1>3, <1>4, <1>5, <1>6 DEF MCNext

\* Each part of the page runs as it does on its own, so what is proved of a part holds of
\* the page: what the composition adds, the tables to begin with and the restrictions of
\* the model, are restrictions only.
THEOREM PartsRunAsAlone ==
  MCSpec => GridSpec /\ BulkSpec /\ ChunkSpec /\ FormSpec /\ BoardSpec
<1> QED
  BY PartsBegin, PartsStep, PTL DEF MCSpec, GridSpec, BulkSpec, ChunkSpec, FormSpec, BoardSpec

\* The types of all parts of the data page at once, whichever part is used (Data.tsx,
\* KanbanView.tsx, CalendarView.tsx).
THEOREM PageTypesHold == MCSpec => []PageTypeOK
<1>1. GridTypeOK /\ BulkTypeOK /\ ChunkTypeOK /\ FormTypeOK /\ BoardTypeOK => PageTypeOK
  BY DEF PageTypeOK
<1> QED
  BY PartsRunAsAlone, GridTypesHold, BulkTypesHold, ChunkTypesHold, FormTypesHold,
     BoardTypesHold, <1>1, PTL
==============================================================================
