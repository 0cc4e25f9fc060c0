---------------------------- MODULE CachedListing ---------------------------
(***************************************************************************)
(* walk_pages_conditional() of github_client.cpp: a list endpoint read     *)
(* page by page while the list changes, with the ETag cache in front.      *)
(* order says what the endpoint is: "appended" for the reviews of a pull   *)
(* request, where new items go to the end and changes happen in place, and *)
(* "updated" for the open pull requests, where whatever changes goes to    *)
(* the front and pull requests get closed.                                 *)
(*                                                                         *)
(* An ETag stands for the body of the one page it came with, as the        *)
(* client's own comment says (github_client.cpp:556-562).                  *)
(***************************************************************************)
EXTENDS Integers, Sequences, SequencesExt, Functions

CONSTANTS PageSize,   \* items on a page (per_page=100)
          Orders,     \* the endpoints: "appended", "updated" or both
          MaxItems,   \* bound: items ever in the list
          MaxChanges  \* bound: changes after an item was added

ASSUME NumbersAssumption == PageSize \in Nat \ {0} /\ MaxItems \in Nat
ASSUME OrdersAssumption == Orders \subseteq {"appended", "updated"}

VARIABLES order,       \* which endpoint this is
          items,       \* the list on the server
          added,       \* items ever added
          changes,     \* changes made
          cache,       \* the entry of conditional_cache, or None
          pc,          \* "idle" or "walk"
          page,        \* the page to fetch next
          got,         \* the items of the pages fetched
          whole,       \* history: the items when the walk began
          result,      \* what the last walk returned
          source       \* history: ... and where from, since it began

listVars == <<order, items, added, changes>>
clientVars == <<cache, pc, page, got, whole, result, source>>
vars == <<listVars, clientVars>>

(* No entry in the cache: no page has an item 0.                           *)
None == [etag |-> <<[id |-> 0, version |-> 0]>>, body |-> <<>>]

Init ==
  /\ order \in Orders
  /\ items = <<>> /\ added = 0 /\ changes = 0
  /\ cache = None
  /\ pc = "idle" /\ page = 1 /\ got = <<>> /\ whole = <<>>
  /\ result = <<>> /\ source = "none"

-----------------------------------------------------------------------------
(***************************************************************************)
(* The list on the server.                                                 *)
(***************************************************************************)
Enter ==
  /\ added < MaxItems
  /\ LET item == [id |-> added + 1, version |-> changes]
     IN  items' = IF order = "appended" THEN Append(items, item)
                                        ELSE <<item>> \o items
  /\ added' = added + 1
  /\ UNCHANGED <<order, changes, clientVars>>

Change(i) ==
  /\ changes < MaxChanges
  /\ changes' = changes + 1
  /\ LET item == [items[i] EXCEPT !.version = changes + 1]
     IN  items' = IF order = "appended" THEN [items EXCEPT ![i] = item]
                                        ELSE <<item>> \o RemoveAt(items, i)
  /\ UNCHANGED <<order, added, clientVars>>

Leave(i) ==
  /\ order = "updated"
  /\ changes < MaxChanges
  /\ changes' = changes + 1
  /\ items' = RemoveAt(items, i)
  /\ UNCHANGED <<order, added, clientVars>>

Page(k) ==
  SubSeq(items, (k - 1) * PageSize + 1,
         IF k * PageSize < Len(items) THEN k * PageSize ELSE Len(items))

(* The Link header of page k has a rel="next".                             *)
HasNext(k) == Len(items) > k * PageSize

-----------------------------------------------------------------------------
(***************************************************************************)
(* The client.                                                             *)
(***************************************************************************)
Return(list, from) ==
  /\ result' = list /\ source' = from
  /\ pc' = "idle" /\ page' = 1 /\ got' = <<>>

(* If-None-Match is answered 304: the cached bodies, no further request.   *)
NotModified ==
  /\ pc = "idle" /\ cache.etag = Page(1)
  /\ Return(cache.body, "cache")
  /\ whole' = items
  /\ UNCHANGED <<listVars, cache>>

OnlyPage ==
  /\ pc = "idle" /\ cache.etag # Page(1) /\ ~HasNext(1)
  /\ cache' = [etag |-> Page(1), body |-> Page(1)]
  /\ Return(Page(1), "pages")
  /\ whole' = items
  /\ UNCHANGED listVars

FirstPage ==
  /\ pc = "idle" /\ cache.etag # Page(1) /\ HasNext(1)
  /\ got' = Page(1)
  /\ page' = 2
  /\ pc' = "walk"
  /\ whole' = items /\ source' = "none"
  /\ UNCHANGED <<listVars, cache, result>>

LaterPage ==
  /\ pc = "walk" /\ HasNext(page)
  /\ got' = got \o Page(page)
  /\ page' = page + 1
  /\ UNCHANGED <<listVars, cache, pc, whole, result, source>>

LastPageCaches ==   \* mutant of LastPage: caches several pages as one
  /\ pc = "walk" /\ ~HasNext(page)
  /\ cache' = [etag |-> SubSeq(got, 1, PageSize), body |-> got \o Page(page)]
  /\ Return(got \o Page(page), "pages")
  /\ UNCHANGED <<listVars, whole>>

LastPageForgets ==   \* mutant of LastPage: replaces instead of appending
  /\ pc = "walk" /\ ~HasNext(page)
  /\ cache' = None
  /\ Return(Page(page), "pages")
  /\ UNCHANGED <<listVars, whole>>

(* More than one page: any entry is dropped, none is made.                 *)
LastPage ==
  /\ pc = "walk" /\ ~HasNext(page)
  /\ cache' = None
  /\ Return(got \o Page(page), "pages")
  /\ UNCHANGED <<listVars, whole>>

(* A page cannot be had: the walk throws, the cache is as it was.          *)
Fail ==
  /\ pc = "walk"
  /\ pc' = "idle" /\ page' = 1 /\ got' = <<>>
  /\ UNCHANGED <<listVars, cache, whole, result, source>>

Walk == NotModified \/ OnlyPage \/ FirstPage \/ LaterPage \/ LastPage
Server == Enter \/ \E i \in 1 .. Len(items) : Change(i) \/ Leave(i)
Next == Walk \/ Fail \/ Server

Spec == Init /\ [][Next]_vars

(* The bot lists on every tick, and no page fails for ever.                *)
FairSpec == Spec /\ WF_vars(Walk) /\ SF_vars(LaterPage) /\ SF_vars(LastPage)

-----------------------------------------------------------------------------
(* An answer out of the cache is the list as it is, except where the cache *)
(* holds exactly one full page of a list that grows at its other end       *)
(* (github_client.cpp:556-579).                                            *)
StaleOnlyWhenFull ==
  source = "cache" /\ (order = "updated" \/ Len(result) # PageSize) =>
    result = whole

(* What the pages of a growing list give is everything that was in it when *)
(* the walk began, once and in order, whatever is added or changed between *)
(* two pages (github_client.cpp:476-478, 520-554).                         *)
WalkIsComplete ==
  source = "pages" /\ order = "appended" =>
    /\ Len(result) >= Len(whole)
    /\ \A i \in 1 .. Len(result) : result[i].id = items[i].id

(* An open pull request that stays open is listed sooner or later: neither *)
(* the cache nor pull requests that move or go between two pages hide it   *)
(* for ever.                                                               *)
EventuallyListed ==
  \A n \in 1 .. MaxItems :
    (order = "updated" /\ \E item \in Range(items) : item.id = n)
      ~> \/ \E item \in Range(result) : item.id = n
         \/ ~\E item \in Range(items) : item.id = n

-----------------------------------------------------------------------------
(* "For single-page responses there is no 'page 2 stale' - the first-page  *)
(* ETag fully validates the collection" (github_client.cpp:564-565).       *)
CachedIsCurrent == source = "cache" => result = whole
=============================================================================
