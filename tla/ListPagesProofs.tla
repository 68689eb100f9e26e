-------------------------- MODULE ListPagesProofs --------------------------
(***************************************************************************)
(* The list pages for any filters and any number of moves of the user:     *)
(* the rows on the screen are those that the address bar asks for, and the *)
(* field agrees with the filter.                                           *)
(* The empty filter "" is beyond the SMT backend: the leaves that speak    *)
(* of it are Zenon's.                                                      *)
(***************************************************************************)
EXTENDS ListPages, TLAPS

Answers == [has : BOOLEAN, error : BOOLEAN, stale : BOOLEAN, ver : 0 .. 1, of : Urls]
Fetches == [pc : {"none", "sent", "read"}, ver : 0 .. 1, of : Urls]

\* What is under way, or kept, for an address was asked for by that address.
Asked(f) == f \in [Urls -> Fetches] /\ \A k \in Urls : f[k].pc # "none" => f[k].of = k
Kept(c) == c \in [Urls -> Answers] /\ \A k \in Urls : c[k].has => c[k].of = k

\* The debounced value is the filter in the address, unless the address was
\* changed under the page by the browser's buttons or the menu.
FilterInUrl == at = "list" /\ list \in Typed /\ ~strayed => url.name = debounced

\* The history holds addresses of the list; the moves are counted.
History == entries \subseteq Urls /\ moves \in 0 .. MaxMoves

Place ==
    /\ list \in Lists /\ may \in BOOLEAN
    /\ at \in {"list", "elsewhere", "dashboard"}
    /\ url \in Urls /\ field \in Names /\ debounced \in Names /\ strayed \in BOOLEAN
    /\ ver \in 0 .. 1 /\ kind \in Kinds \cup {"none"}
    /\ change \in {"none", "sent", "served", "answered", "noted"}

Inv == Place /\ History /\ Asked(fetch) /\ Kept(cache) /\ FilterInUrl

-----------------------------------------------------------------------------
\* Addresses made of addresses.
LEMMA UrlMade ==
  ASSUME NEW u \in Urls, NEW n \in Names, NEW p \in 1 .. 2, NEW s \in {20, 50}
  PROVE  /\ u.name \in Names
         /\ [page |-> p, size |-> s, name |-> n] \in Urls
         /\ [u EXCEPT !.page = p] \in Urls /\ [u EXCEPT !.page = p].name = u.name
         /\ [u EXCEPT !.page = 1, !.size = s] \in Urls
         /\ [u EXCEPT !.page = 1, !.size = s].name = u.name
         /\ [u EXCEPT !.page = 1, !.name = n] \in Urls
         /\ [u EXCEPT !.page = 1, !.name = n].name = n
<1>1. u.name \in Names /\ [page |-> p, size |-> s, name |-> n] \in Urls
  BY DEF Urls
<1>2. /\ [u EXCEPT !.page = p] \in Urls /\ [u EXCEPT !.page = p].name = u.name
      /\ [u EXCEPT !.page = 1] \in Urls
  BY DEF Urls
<1>3. ASSUME NEW v \in Urls
      PROVE  [v EXCEPT !.size = s] \in Urls /\ [v EXCEPT !.name = n] \in Urls
  BY DEF Urls
<1>4. /\ [u EXCEPT !.page = 1, !.size = s].name = u.name
      /\ [u EXCEPT !.page = 1, !.name = n].name = n
  BY DEF Urls
<1> QED BY <1>1, <1>2, <1>3, <1>4

\* The bare address is one, and has no filter.
LEMMA BareUrl == "" \in Names /\ Bare \in Urls /\ Bare.name = ""
<1>1. "" \in Names
  BY ListsAssumption, Zenon
<1>2. 1 \in 1 .. 2 /\ 20 \in {20, 50}
  OBVIOUS
<1>3. \A n \in Names : [page |-> 1, size |-> 20, name |-> n] \in Urls
  BY <1>2 DEF Urls
<1>4. [page |-> 1, size |-> 20, name |-> ""] \in Urls
  BY <1>1, <1>3, Zenon
<1>5. Bare.name = ""
  BY DEF Bare
<1> QED BY <1>1, <1>4, <1>5, Zenon DEF Bare

\* What the invariant says of the types.
LEMMA InvTypes == Inv => TypeOK
<1> SUFFICES ASSUME Inv PROVE TypeOK
  OBVIOUS
<1> QED
  BY DEF Inv, Place, History, Asked, Kept, TypeOK, Answers, Fetches

\* The page starts without anything asked for.
LEMMA InvInit == Init => Inv
<1> SUFFICES ASSUME Init PROVE Inv
  OBVIOUS
<1>1. MaxMoves \in Nat /\ Visited \subseteq Lists
  BY ListsAssumption, Zenon
<1>2. NoAnswer \in Answers /\ NoAnswer.has = FALSE
  <2>1. ASSUME NEW u \in Urls
        PROVE  [has |-> FALSE, error |-> FALSE, stale |-> TRUE, ver |-> 0, of |-> u] \in Answers
    BY DEF Answers
  <2>2. NoAnswer.has = FALSE
    BY DEF NoAnswer
  <2> QED BY <2>1, <2>2, BareUrl, Zenon DEF NoAnswer
<1>3. NoFetch \in Fetches /\ NoFetch.pc = "none"
  <2>1. ASSUME NEW u \in Urls PROVE [pc |-> "none", ver |-> 0, of |-> u] \in Fetches
    BY DEF Fetches
  <2>2. NoFetch.pc = "none"
    BY DEF NoFetch
  <2> QED BY <2>1, <2>2, BareUrl, Zenon DEF NoFetch
<1>4. cache = [k \in Urls |-> NoAnswer] /\ fetch = [k \in Urls |-> NoFetch]
  BY Zenon DEF Init
<1>5. Kept(cache) /\ Asked(fetch)
  BY <1>2, <1>3, <1>4 DEF Kept, Asked
<1>6. field \in Names /\ debounced \in Names /\ url \in Urls
  BY BareUrl, Zenon DEF Init
<1>7. /\ list \in Visited /\ may \in BOOLEAN /\ at = "elsewhere" /\ strayed = FALSE
      /\ ver = 0 /\ kind = "none" /\ change = "none" /\ moves = 0 /\ entries = {}
  BY Zenon DEF Init
<1>8. Place
  <2>1. 0 \in 0 .. 1
    OBVIOUS
  <2> QED BY <1>1, <1>6, <1>7, <2>1, Zenon DEF Place
<1>9. History
  BY <1>1, <1>7 DEF History
<1>10. FilterInUrl
  BY <1>7 DEF FilterInUrl
<1> QED
  BY <1>5, <1>8, <1>9, <1>10 DEF Inv

-----------------------------------------------------------------------------
\* Observing an address asks for that address only, and keeps what is there.
LEMMA Observing ==
  ASSUME NEW f, Asked(f), NEW u \in Urls
  PROVE  Asked(Ensured(f, u))
<1>1. Request(u) \in Fetches /\ Request(u).of = u
  BY DEF Request, Fetches
<1>2. Ensured(f, u) = f \/ Ensured(f, u) = [f EXCEPT ![u] = Request(u)]
  BY DEF Ensured, Key
<1> QED BY <1>1, <1>2 DEF Asked

\* A request read by the server is still that of its address.
LEMMA ReadStep ==
  ASSUME Inv, NEW k \in Urls, FetchRead(k)
  PROVE  Inv'
<1>1. fetch[k].pc = "sent" /\ fetch' = [fetch EXCEPT ![k].pc = "read", ![k].ver = ver]
  BY DEF FetchRead
<1>2. ver \in 0 .. 1 /\ fetch \in [Urls -> Fetches]
      /\ \A j \in Urls : fetch[j].pc # "none" => fetch[j].of = j
  BY DEF Inv, Place, Asked
<1>3. Asked(fetch')
  <2> DEFINE r == [fetch[k] EXCEPT !.pc = "read", !.ver = ver]
  <2>1. fetch' = [fetch EXCEPT ![k] = r]
    BY <1>1, <1>2 DEF Fetches
  <2>2. r \in Fetches /\ r.of = k
    <3>1. ASSUME NEW g \in Fetches
          PROVE  [g EXCEPT !.pc = "read"] \in Fetches /\ [g EXCEPT !.ver = ver] \in Fetches
      BY <1>2 DEF Fetches
    <3>2. r.of = fetch[k].of
      BY <1>2 DEF Fetches
    <3> QED BY <1>1, <1>2, <3>1, <3>2
  <2> HIDE DEF r
  <2> QED BY <1>2, <2>1, <2>2 DEF Asked
<1>4. UNCHANGED <<list, may, at, url, entries, field, debounced, strayed, cache, ver, kind, change, moves>>
  BY DEF FetchRead
<1> QED
  BY <1>3, <1>4 DEF Inv, Place, History, Kept, FilterInUrl

\* Marking an answer leaves what was asked for.
LEMMA Marked ==
  ASSUME NEW c \in [Urls -> Answers], NEW k \in Urls
  PROVE  /\ [c EXCEPT ![k].error = TRUE] = [c EXCEPT ![k] = [c[k] EXCEPT !.error = TRUE]]
         /\ [c EXCEPT ![k].stale = TRUE] = [c EXCEPT ![k] = [c[k] EXCEPT !.stale = TRUE]]
         /\ \A a \in Answers :
              /\ [a EXCEPT !.error = TRUE] \in Answers /\ [a EXCEPT !.stale = TRUE] \in Answers
              /\ [a EXCEPT !.error = TRUE].of = a.of /\ [a EXCEPT !.stale = TRUE].of = a.of
              /\ [a EXCEPT !.error = TRUE].has = a.has /\ [a EXCEPT !.stale = TRUE].has = a.has
<1>1. /\ [c EXCEPT ![k].error = TRUE] = [c EXCEPT ![k] = [c[k] EXCEPT !.error = TRUE]]
      /\ [c EXCEPT ![k].stale = TRUE] = [c EXCEPT ![k] = [c[k] EXCEPT !.stale = TRUE]]
  OBVIOUS
<1>2. ASSUME NEW a \in Answers
      PROVE  [a EXCEPT !.error = TRUE] \in Answers /\ [a EXCEPT !.stale = TRUE] \in Answers
  BY DEF Answers
<1>3. ASSUME NEW a \in Answers
      PROVE  /\ [a EXCEPT !.error = TRUE].of = a.of /\ [a EXCEPT !.stale = TRUE].of = a.of
             /\ [a EXCEPT !.error = TRUE].has = a.has /\ [a EXCEPT !.stale = TRUE].has = a.has
  BY DEF Answers
<1> QED BY <1>1, <1>2, <1>3

\* An answer is kept for the address that asked for it.
LEMMA DoneStep ==
  ASSUME Inv, NEW k \in Urls, FetchDone(k)
  PROVE  Inv'
<1>1. /\ fetch \in [Urls -> Fetches] /\ cache \in [Urls -> Answers]
      /\ \A j \in Urls : fetch[j].pc # "none" => fetch[j].of = j
      /\ \A j \in Urls : cache[j].has => cache[j].of = j
  BY DEF Inv, Asked, Kept
<1>2. fetch[k].pc = "read" /\ fetch' = [fetch EXCEPT ![k] = NoFetch]
  BY DEF FetchDone
<1>3. Asked(fetch')
  <2>1. NoFetch \in Fetches /\ NoFetch.pc = "none"
    <3>1. ASSUME NEW u \in Urls PROVE [pc |-> "none", ver |-> 0, of |-> u] \in Fetches
      BY DEF Fetches
    <3>2. NoFetch.pc = "none"
      BY DEF NoFetch
    <3> QED BY <3>1, <3>2, BareUrl, Zenon DEF NoFetch
  <2> QED BY <1>1, <1>2, <2>1 DEF Asked
<1>4. Kept(cache')
  <2> DEFINE a == [has |-> TRUE, error |-> FALSE, stale |-> FALSE,
                   ver |-> fetch[k].ver, of |-> fetch[k].of]
  <2>1. \/ cache' = [cache EXCEPT ![k] = a]
        \/ cache' = [cache EXCEPT ![k].error = TRUE]
    BY DEF FetchDone
  <2>2. a \in Answers /\ a.of = k
    BY <1>1, <1>2 DEF Answers, Fetches
  <2>3. CASE cache' = [cache EXCEPT ![k] = a]
    <3> HIDE DEF a
    <3> QED BY <1>1, <2>2, <2>3 DEF Kept
  <2>4. CASE cache' = [cache EXCEPT ![k].error = TRUE]
    BY <1>1, <2>4, Marked DEF Kept
  <2> QED BY <2>1, <2>3, <2>4
<1>5. at' = at \/ at' = "dashboard"
  BY DEF FetchDone
<1>6. UNCHANGED <<list, may, url, entries, field, debounced, strayed, ver, kind, change, moves>>
  BY DEF FetchDone
<1>7. Place' /\ FilterInUrl'
  BY <1>5, <1>6 DEF Inv, Place, FilterInUrl
<1>8. History'
  BY <1>6 DEF Inv, History
<1> QED
  BY <1>3, <1>4, <1>7, <1>8 DEF Inv

\* Ageing and invalidating keep the answers where they are.
LEMMA AgeStep ==
  ASSUME Inv, NEW k \in Urls, Age(k)
  PROVE  Inv'
<1>1. cache \in [Urls -> Answers] /\ cache' = [cache EXCEPT ![k].stale = TRUE]
      /\ \A j \in Urls : cache[j].has => cache[j].of = j
  BY DEF Inv, Kept, Age
<1>2. Kept(cache')
  BY <1>1, Marked DEF Kept
<1>3. UNCHANGED <<list, may, at, url, entries, field, debounced, strayed, fetch, ver, kind, change, moves>>
  BY DEF Age
<1> QED
  BY <1>2, <1>3 DEF Inv, Place, History, Asked, FilterInUrl
-----------------------------------------------------------------------------
\* The page is mounted at an address, for which it asks.
LEMMA MountStep ==
  ASSUME Inv, NEW u \in Urls, Mounted(u), History',
         UNCHANGED <<list, may, cache, ver, kind, change>>
  PROVE  Inv'
<1> DEFINE to == IF list \in Typed THEN [u EXCEPT !.page = 1] ELSE u
<1>1. to \in Urls /\ to.name = u.name /\ u.name \in Names
  BY DEF Urls
<1>2. /\ at' = "list" /\ url' = to /\ field' = u.name /\ debounced' = u.name
      /\ strayed' = FALSE /\ fetch' = Ensured(Ensured(fetch, u), to)
  BY Zenon DEF Mounted
<1> HIDE DEF to
<1>3. Asked(fetch')
  <2>1. Asked(Ensured(fetch, u))
    BY Observing DEF Inv
  <2> QED BY <1>1, <1>2, <2>1, Observing
<1>4. Place' /\ FilterInUrl'
  BY <1>1, <1>2 DEF Inv, Place, FilterInUrl
<1>5. Kept(cache')
  BY DEF Inv, Kept
<1> QED
  BY <1>3, <1>4, <1>5 DEF Inv

\* The user comes from the menu, or by the browser's buttons.
LEMMA MountSteps ==
  ASSUME Inv, Open \/ Return
  PROVE  Inv'
<1>1. MaxMoves \in Nat
  BY ListsAssumption, Zenon
<1>2. ASSUME NEW n \in Names PROVE [page |-> 2, size |-> 20, name |-> n] \in Urls
  BY DEF Urls
<1>3. moves < MaxMoves /\ moves' = moves + 1 /\ UNCHANGED <<list, may, entries, cache, ver, kind, change>>
  BY DEF Open, Return, Move
<1>4. History'
  BY <1>1, <1>3 DEF Inv, History
<1>5. CASE Open
  <2>1. PICK u \in {Bare} \cup {[page |-> 2, size |-> 20, name |-> n] : n \in Names} :
          Mounted(u)
    BY <1>5 DEF Open
  <2>2. u \in Urls
    BY <1>2, <2>1, BareUrl, Zenon
  <2> QED BY <1>3, <1>4, <2>1, <2>2, MountStep
<1>6. CASE Return
  <2>1. PICK u \in entries : Mounted(u)
    BY <1>6 DEF Return
  <2>2. u \in Urls
    BY DEF Inv, History
  <2> QED BY <1>3, <1>4, <2>1, <2>2, MountStep
<1> QED BY <1>5, <1>6

\* A new address is asked for; the filter of a list with a field stays the
\* debounced value, or the page is known to have strayed.
LEMMA GotoStep ==
  ASSUME Inv, NEW u \in Urls, NEW push \in BOOLEAN, Goto(u, push),
         moves' \in 0 .. MaxMoves,
         field' \in Names, debounced' \in Names, strayed' \in BOOLEAN,
         at = "list" /\ list \in Typed /\ ~strayed' => u.name = debounced',
         UNCHANGED <<list, may, at, cache, ver, kind, change>>
  PROVE  Inv'
<1>1. /\ url' = u /\ fetch' = Ensured(fetch, u)
      /\ entries' = IF push THEN entries \cup {url} ELSE entries
  BY DEF Goto
<1>2. Asked(fetch')
  BY <1>1, Observing DEF Inv
<1>3. History'
  BY <1>1 DEF Inv, History, Place
<1>4. Place' /\ FilterInUrl'
  BY <1>1 DEF Inv, Place, FilterInUrl
<1>5. Kept(cache')
  BY DEF Inv, Kept
<1> QED
  BY <1>2, <1>3, <1>4, <1>5 DEF Inv

\* Another page, another size: the filter is the one there was.
LEMMA FooterSteps ==
  ASSUME Inv, PageChange \/ SizeChange
  PROVE  Inv'
<1>1. /\ url \in Urls /\ field \in Names /\ debounced \in Names /\ moves \in 0 .. MaxMoves
      /\ MaxMoves \in Nat /\ strayed \in BOOLEAN
      /\ (at = "list" /\ list \in Typed /\ ~strayed => url.name = debounced)
  <2>1. MaxMoves \in Nat
    BY ListsAssumption, Zenon
  <2> QED BY <2>1 DEF Inv, Place, History, FilterInUrl
<1>2. CASE PageChange
  <2>1. PICK p \in 1 .. 2 : Goto([url EXCEPT !.page = p], TRUE)
    BY <1>2 DEF PageChange
  <2>2. [url EXCEPT !.page = p] \in Urls /\ [url EXCEPT !.page = p].name = url.name
    BY <1>1 DEF Urls
  <2>3. moves < MaxMoves /\ moves' = moves + 1
    BY <1>2 DEF PageChange, Move
  <2>4. UNCHANGED <<list, may, at, field, debounced, strayed, cache, ver, kind, change>>
    BY <1>2 DEF PageChange
  <2>5. moves' \in 0 .. MaxMoves
    BY <1>1, <2>3
  <2> QED BY <1>1, <2>1, <2>2, <2>3, <2>4, <2>5, GotoStep
<1>3. CASE SizeChange
  <2>1. PICK s \in {20, 50} : Goto([url EXCEPT !.page = 1, !.size = s], TRUE)
    BY <1>3 DEF SizeChange
  <2>2. /\ [url EXCEPT !.page = 1, !.size = s] \in Urls
        /\ [url EXCEPT !.page = 1, !.size = s].name = url.name
    <3>1. url.name \in Names /\ 1 \in 1 .. 2
      BY <1>1 DEF Urls
    <3> QED BY <1>1, <3>1, UrlMade
  <2>3. moves < MaxMoves /\ moves' = moves + 1
    BY <1>3 DEF SizeChange, Move
  <2>4. UNCHANGED <<list, may, at, field, debounced, strayed, cache, ver, kind, change>>
    BY <1>3 DEF SizeChange
  <2>5. moves' \in 0 .. MaxMoves
    BY <1>1, <2>3
  <2> QED BY <1>1, <2>1, <2>2, <2>3, <2>4, <2>5, GotoStep
<1> QED BY <1>2, <1>3

\* The address with another filter, from its first page.
LEMMA Refiltered ==
  ASSUME NEW u \in Urls, NEW n \in Names
  PROVE  /\ [u EXCEPT !.page = 1, !.name = n] \in Urls
         /\ [u EXCEPT !.page = 1, !.name = n].name = n
<1>1. 1 \in 1 .. 2 /\ 20 \in {20, 50}
  OBVIOUS
<1> QED BY <1>1, UrlMade

\* Another filter: only lists with selections change it alone, the field
\* changes it together with the debounced value.
LEMMA FilterSteps ==
  ASSUME Inv, Select \/ Pause \/ FilterReset
  PROVE  Inv'
<1>1. /\ url \in Urls /\ field \in Names /\ debounced \in Names /\ moves \in 0 .. MaxMoves
      /\ MaxMoves \in Nat /\ strayed \in BOOLEAN
  <2>1. MaxMoves \in Nat
    BY ListsAssumption, Zenon
  <2> QED BY <2>1 DEF Inv, Place, History
<1>2. CASE Select
  <2>1. PICK n \in Names : Goto([url EXCEPT !.page = 1, !.name = n], TRUE)
    BY <1>2 DEF Select
  <2>2. [url EXCEPT !.page = 1, !.name = n] \in Urls
    BY <1>1, Refiltered
  <2>3. list \notin Typed
    BY <1>2 DEF Select, Selected, Typed
  <2>4. moves < MaxMoves /\ moves' = moves + 1
    BY <1>2 DEF Select, Move
  <2>5. UNCHANGED <<list, may, at, field, debounced, strayed, cache, ver, kind, change>>
    BY <1>2 DEF Select
  <2>6. moves' \in 0 .. MaxMoves
    BY <1>1, <2>4
  <2> QED BY <1>1, <2>1, <2>2, <2>3, <2>4, <2>5, <2>6, GotoStep
<1>3. CASE Pause
  <2>1. /\ Goto([url EXCEPT !.page = 1, !.name = field], FALSE)
        /\ debounced' = field /\ strayed' = FALSE
        /\ UNCHANGED <<list, may, at, field, cache, ver, kind, change, moves>>
    BY <1>3 DEF Pause
  <2>2. /\ [url EXCEPT !.page = 1, !.name = field] \in Urls
        /\ [url EXCEPT !.page = 1, !.name = field].name = field
    BY <1>1, Refiltered
  <2>3. moves' \in 0 .. MaxMoves
    BY <1>1, <2>1
  <2> QED BY <1>1, <2>1, <2>2, <2>3, GotoStep
<1>4. CASE FilterReset
  <2>1. ResetUrl \in Urls /\ ResetUrl.name = ""
    <3>1. /\ [url EXCEPT !.page = 1, !.name = ""] \in Urls
          /\ [url EXCEPT !.page = 1, !.name = ""].name = ""
      BY <1>1, BareUrl, Refiltered, Zenon
    <3> QED BY <3>1, BareUrl, Zenon DEF ResetUrl
  <2>2. debounced' = ResetUrl.name /\ field' = ResetUrl.name /\ debounced' \in Names
    BY <1>4, <2>1, BareUrl, Zenon DEF FilterReset
  <2>3. moves < MaxMoves /\ moves' = moves + 1
    BY <1>4, Zenon DEF FilterReset, Move
  <2>4. /\ Goto(ResetUrl, TRUE) /\ strayed' = FALSE
        /\ UNCHANGED <<list, may, at, cache, ver, kind, change>>
    BY <1>4, Zenon DEF FilterReset
  <2>5. ResetUrl \in Urls
    BY <2>1, Zenon
  <2>6. moves' \in 0 .. MaxMoves
    BY <1>1, <2>3
  <2> QED BY <1>1, <2>2, <2>3, <2>4, <2>5, <2>6, GotoStep
<1> QED BY <1>2, <1>3, <1>4

\* The menu and the browser's buttons lead to another address; the page strays.
LEMMA StraySteps ==
  ASSUME Inv, Menu \/ Browse
  PROVE  Inv'
<1>1. PICK u \in {Bare} \cup entries : Goto(u, TRUE)
  BY DEF Menu, Browse
<1>2. u \in Urls
  BY <1>1, BareUrl DEF Inv, History
<1>3. /\ strayed' = TRUE /\ moves < MaxMoves /\ moves' = moves + 1
      /\ UNCHANGED <<list, may, at, field, debounced, cache, ver, kind, change>>
  BY DEF Menu, Browse, Move
<1>4. field' \in Names /\ debounced' \in Names /\ moves' \in 0 .. MaxMoves
  <2>1. MaxMoves \in Nat
    BY ListsAssumption, Zenon
  <2> QED BY <1>3, <2>1 DEF Inv, Place, History
<1> QED BY <1>1, <1>2, <1>3, <1>4, GotoStep

\* Leaving, typing, a change: neither address nor answers change.
LEMMA StayingSteps ==
  ASSUME Inv, Leave \/ RoleRedirect \/ Type \/ Change \/ Serve
  PROVE  Inv'
<1>1. MaxMoves \in Nat /\ moves \in 0 .. MaxMoves
  <2>1. MaxMoves \in Nat
    BY ListsAssumption, Zenon
  <2> QED BY <2>1 DEF Inv, History
<1>2. UNCHANGED <<list, may, url, debounced, strayed, cache, fetch>>
  BY Zenon DEF Leave, RoleRedirect, Type, Change, Serve
<1>3. at' = at \/ at' \in {"elsewhere", "dashboard"}
  BY DEF Leave, RoleRedirect, Type, Change, Serve
<1>4. entries' = entries \/ entries' = entries \cup {url}
  BY DEF Leave, RoleRedirect, Type, Change, Serve
<1>5. field' = field \/ field' \in Names
  BY DEF Leave, RoleRedirect, Type, Change, Serve
<1>6. moves' = moves \/ (moves < MaxMoves /\ moves' = moves + 1)
  BY DEF Leave, RoleRedirect, Type, Change, Serve, Move
<1>7. change' = change \/ change' \in {"sent", "served"}
  BY DEF Leave, RoleRedirect, Type, Change, Serve
<1>8. ver' = ver \/ ver' = 1
  BY DEF Leave, RoleRedirect, Type, Change, Serve
<1>9. kind' = kind \/ kind' \in Kinds
  <2>1. Changes \subseteq Kinds
    BY ListsAssumption, Zenon
  <2> QED BY <2>1 DEF Leave, RoleRedirect, Type, Change, Serve
<1>10. Place'
  BY <1>2, <1>3, <1>5, <1>7, <1>8, <1>9 DEF Inv, Place
<1>11. FilterInUrl'
  BY <1>2, <1>3 DEF Inv, FilterInUrl
<1>12. History'
  BY <1>1, <1>4, <1>6 DEF Inv, History, Place
<1>13. Asked(fetch') /\ Kept(cache')
  BY <1>2 DEF Inv
<1> QED
  BY <1>10, <1>11, <1>12, <1>13 DEF Inv

\* Invalidating asks again, for the address shown, and keeps the old answers.
LEMMA AnswerStep ==
  ASSUME Inv, Answer
  PROVE  Inv'
<1>1. UNCHANGED <<list, may, at, url, entries, field, debounced, strayed, ver, kind, moves>>
  BY DEF Answer
<1>2. change' \in {"noted", "answered"}
  BY DEF Answer
<1>3. Place' /\ FilterInUrl' /\ History'
  BY <1>1, <1>2 DEF Inv, Place, FilterInUrl, History
<1>4. CASE list \in Invalidates[kind]
  <2>1. /\ fetch' = [k \in Urls |-> Invalidated(k)]
        /\ cache' = [k \in Urls |-> [cache[k] EXCEPT !.stale = TRUE]]
    BY <1>4 DEF Answer
  <2>2. url \in Urls /\ Asked(fetch) /\ Kept(cache)
    BY DEF Inv, Place
  <2>3. ASSUME NEW k \in Urls
        PROVE  Invalidated(k) \in Fetches /\ (Invalidated(k).pc # "none" => Invalidated(k).of = k)
    <3>1. Request(url) \in Fetches /\ Request(url).of = url
      BY <2>2 DEF Request, Fetches
    <3>2. Invalidated(k) = fetch[k] \/ (k = url /\ Invalidated(k) = Request(url))
      BY DEF Invalidated, Observed, Key
    <3> QED BY <2>2, <3>1, <3>2 DEF Asked
  <2>4. Asked(fetch')
    BY <2>1, <2>3 DEF Asked
  <2>5. Kept(cache')
    <3>1. ASSUME NEW k \in Urls
          PROVE  LET a == [cache[k] EXCEPT !.stale = TRUE]
                 IN  a \in Answers /\ (a.has => a.of = k)
      BY <2>2, Marked DEF Kept
    <3> QED BY <2>1, <3>1 DEF Kept
  <2> QED BY <1>3, <2>4, <2>5 DEF Inv
<1>5. CASE list \notin Invalidates[kind]
  BY <1>3, <1>5 DEF Answer, Inv
<1> QED BY <1>4, <1>5

\* Every step keeps the invariant.
LEMMA InvStep == Inv /\ [Next]_vars => Inv'
<1> SUFFICES ASSUME Inv, [Next]_vars PROVE Inv'
  OBVIOUS
<1>1. ASSUME NEW k \in Urls, FetchRead(k) \/ FetchDone(k) \/ Age(k) PROVE Inv'
  BY <1>1, ReadStep, DoneStep, AgeStep
<1>2. CASE Open \/ Return
  BY <1>2, MountSteps
<1>3. CASE PageChange \/ SizeChange
  BY <1>3, FooterSteps
<1>4. CASE Select \/ Pause \/ FilterReset
  BY <1>4, FilterSteps
<1>5. CASE Menu \/ Browse
  BY <1>5, StraySteps
<1>6. CASE Leave \/ RoleRedirect \/ Type \/ Change \/ Serve
  BY <1>6, StayingSteps
<1>7. CASE Answer
  BY <1>7, AnswerStep
<1>8. CASE UNCHANGED vars
  BY <1>8 DEF vars, Inv, Place, History, Asked, Kept, FilterInUrl
<1> QED
  BY <1>1, <1>2, <1>3, <1>4, <1>5, <1>6, <1>7, <1>8 DEF Next

-----------------------------------------------------------------------------
\* The inductive invariant of the list pages, for any filters and moves:
\* what useReports and the other hooks keep for a key was asked for by it.
THEOREM ListsInvariant == Spec => []Inv
<1>1. Init => Inv
  BY InvInit
<1>2. Inv /\ [Next]_vars => Inv'
  BY InvStep
<1> QED BY <1>1, <1>2, PTL DEF Spec

\* The state of the list pages has its types, whatever the user does.
THEOREM ListsTypes == Spec => []TypeOK
<1>1. Inv => TypeOK
  BY InvTypes
<1> QED BY <1>1, ListsInvariant, PTL

\* The rows on the screen are the answer to what the address bar asks for: the
\* query keys of the lists hold every parameter of the request.
THEOREM ShownIsAskedHolds == Spec => []ShownIsAsked
<1>1. Inv => ShownIsAsked
  BY DEF Inv, Place, Kept, ShownIsAsked, Current, Key
<1> QED BY <1>1, ListsInvariant, PTL

\* The field agrees with the filter once the pause is over, but for an address
\* that the browser's buttons or the menu's link to the same list changed under
\* the page: the effect of the debounced value, the reset and the mounting are
\* the only other ways to another filter, and each restores the agreement.
THEOREM FieldIsFilterHolds == Spec => []FieldIsFilter
<1>1. Inv => FieldIsFilter
  BY DEF Inv, FilterInUrl, FieldIsFilter
<1> QED BY <1>1, ListsInvariant, PTL

=============================================================================
