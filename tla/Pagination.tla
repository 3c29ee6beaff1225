------------------------------ MODULE Pagination ------------------------------
(***************************************************************************)
(* Listing everything a server has, page by page: FetchAllPages and the    *)
(* Collector (pkg/client/pagination.go, pkg/pagination/pagination.go), and *)
(* the pages that the base providers cut (pkg/server/providers.go).        *)
(*                                                                         *)
(* The providers keep what is registered in Go maps and number it anew for *)
(* each page, in the order in which the map happens to be walked.  Items   *)
(* are registered while a listing is under way; none is ever removed.  The *)
(* filters (category, tag, uri) are left out: items are those that pass.   *)
(***************************************************************************)
EXTENDS Integers, Sequences, FiniteSets, SequencesExt

CONSTANTS
  Items,         \* tools, prompts or roots, or resources
  Templates,     \* resource templates
  DefaultLimit,  \* 50 in the code, on both sides
  MaxLimit,      \* 200 in the code
  Limits         \* the limits that callers ask for

ASSUME PaginationAssumption ==
  /\ IsFiniteSet(Items) /\ IsFiniteSet(Templates) /\ Items \cap Templates = {}
  /\ DefaultLimit \in Nat \ {0} /\ MaxLimit \in Nat \ {0} /\ Limits \subseteq Int

ListKinds == {"tools", "prompts", "roots", "resources"}

VARIABLES
  kind,       \* what is listed
  items,      \* what is registered
  templates,
  known,      \* history: what was registered when the listing began
  place,      \* "idle", "fetch", "done" or "error"
  params,     \* PaginationParams of the next page: [limit, cursor]
  got         \* all items received so far

pagevars == <<kind, items, templates, known, place, params, got>>

\* A cursor is an offset in an encoding that no one else can make up; NoCursor
\* is the empty string, Garbage what cannot be decoded.
NoCursor == -1
Garbage  == -2

PaginationTypeOK ==
  /\ kind \in ListKinds
  /\ items \subseteq Items /\ templates \subseteq Templates
  /\ known \subseteq items \cup templates
  /\ place \in {"idle", "fetch", "done", "error"}
  /\ params \in [limit : Int, cursor : Int]
  /\ got \in Seq(items \cup templates)

PaginationInit ==
  /\ kind \in ListKinds
  /\ items = {} /\ templates = {} /\ known = {}
  /\ place = "idle"
  /\ params = [limit |-> 0, cursor |-> NoCursor]
  /\ got = <<>>

-----------------------------------------------------------------------------
(* The providers *)

encodeCursor(offset) == offset
\* An error, or the offset.
Decodes(cursor) == cursor # Garbage
decodeCursor(cursor) == IF cursor = NoCursor THEN 0 ELSE cursor

\* limit and cursor as a provider takes them: 0 is no limit.
ServerLimit(p) == IF p.limit > 0 THEN p.limit ELSE DefaultLimit

Least(a, b) == IF a < b THEN a ELSE b
Most(a, b)  == IF a > b THEN a ELSE b

\* What a page is: its items, hasMore and the next cursor.
PageReply(page, end, total) ==
  [items |-> page, more |-> end < total,
   next |-> IF end < total THEN encodeCursor(end) ELSE NoCursor]

\* The page of a list in the order o.
PageOf(o, p) ==
  LET start == decodeCursor(p.cursor)
      end   == Least(start + ServerLimit(p), Len(o))
  IN IF start < Len(o) THEN PageReply(SubSeq(o, start + 1, end), end, Len(o))
                       ELSE PageReply(<<>>, Len(o), Len(o))

ToolsPage(o, p)   == PageOf(o, p)
PromptsPage(o, p) == PageOf(o, p)
RootsPage(o, p)   == PageOf(o, p)

\* Mutant of ResourcesPage: the next page starts after the resources.
ResourcesPageAgain(o, t, p) ==
  LET start == decodeCursor(p.cursor)
      rEnd  == Least(Len(o), start + ServerLimit(p))
      tFrom == Most(0, start - Len(o))
      tEnd  == Least(Len(t), tFrom + ServerLimit(p) - (rEnd - start))
  IN PageReply(SubSeq(o, start + 1, rEnd) \o SubSeq(t, tFrom + 1, tEnd),
               rEnd + tEnd - tFrom, Len(o) + Len(t))

\* Resources first, then templates.  Beyond the resources rEnd - start is
\* negative, and the page of templates longer than the limit by as much.
ResourcesPage(o, t, p) ==
  LET start == decodeCursor(p.cursor)
      rEnd  == Least(Len(o), start + ServerLimit(p))
      tFrom == Most(0, start - Len(o))
      tEnd  == Least(Len(t), tFrom + ServerLimit(p) - (rEnd - start))
  IN PageReply(SubSeq(o, start + 1, rEnd) \o SubSeq(t, tFrom + 1, tEnd),
               rEnd + tEnd, Len(o) + Len(t))

\* A walk over the maps and the page that is cut from it.
Pages(p) ==
  IF kind = "resources"
  THEN {ResourcesPage(o, t, p) : o \in SetToSeqs(items), t \in SetToSeqs(templates)}
  ELSE {CASE kind = "tools" -> ToolsPage(o, p)
          [] kind = "prompts" -> PromptsPage(o, p)
          [] kind = "roots" -> RootsPage(o, p) : o \in SetToSeqs(items)}

RegisterItem(i) ==
  /\ i \notin items
  /\ items' = items \cup {i}
  /\ UNCHANGED <<kind, templates, known, place, params, got>>

RegisterTemplate(t) ==
  /\ kind = "resources" /\ t \notin templates
  /\ templates' = templates \cup {t}
  /\ UNCHANGED <<kind, items, known, place, params, got>>

-----------------------------------------------------------------------------
(* Package pagination *)

ValidateParams(p) == p.limit \in 0..MaxLimit

ApplyDefaults(p) ==
  [p EXCEPT !.limit = IF @ <= 0 THEN DefaultLimit ELSE Least(@, MaxLimit)]

\* Collector.Update: the loop goes on while there is a cursor.
CollectorHasMore(answer) == answer.more /\ answer.next # NoCursor

NextParams(p, answer) == [ApplyDefaults(p) EXCEPT !.cursor = answer.next]

-----------------------------------------------------------------------------
(* FetchAllPages, and ListAllTools and its likes, which wrap it *)

\* The parameters are checked, then the defaults applied.
BeginList(p) ==
  /\ place = "idle"
  /\ place' = IF ValidateParams(p) THEN "fetch" ELSE "error"
  /\ params' = ApplyDefaults(p)
  /\ known' = items \cup templates
  /\ got' = <<>>
  /\ UNCHANGED <<kind, items, templates>>

FirstPage == [limit |-> DefaultLimit, cursor |-> NoCursor]

ListAllTools     == kind = "tools" /\ BeginList(FirstPage)
ListAllPrompts   == kind = "prompts" /\ BeginList(FirstPage)
ListAllRoots     == kind = "roots" /\ BeginList(FirstPage)
\* The templates are collected on the side.
ListAllResources == kind = "resources" /\ BeginList(FirstPage)

\* One turn of the loop: a page, or the error of the call or of the cursor.
FetchAllPages ==
  /\ place = "fetch"
  /\ \/ /\ Decodes(params.cursor)
        /\ \E a \in Pages(params) :
             /\ got' = got \o a.items
             /\ place' = IF CollectorHasMore(a) THEN "fetch" ELSE "done"
             /\ params' = IF CollectorHasMore(a) THEN NextParams(params, a) ELSE params
     \/ place' = "error" /\ UNCHANGED <<got, params>>
  /\ UNCHANGED <<kind, items, templates, known>>

\* The caller looks at what it has got, and may list again.
TakeResult ==
  /\ place \in {"done", "error"}
  /\ place' = "idle"
  /\ got' = <<>> /\ known' = {}
  /\ params' = [limit |-> 0, cursor |-> NoCursor]
  /\ UNCHANGED <<kind, items, templates>>

PaginationNext ==
  \/ \E i \in Items : RegisterItem(i)
  \/ \E t \in Templates : RegisterTemplate(t)
  \/ ListAllTools \/ ListAllPrompts \/ ListAllRoots \/ ListAllResources
  \/ \E l \in Limits, c \in {NoCursor, Garbage} : BeginList([limit |-> l, cursor |-> c])
  \/ FetchAllPages \/ TakeResult

PaginationSpec == PaginationInit /\ [][PaginationNext]_pagevars

-----------------------------------------------------------------------------
(* Properties *)

\* The pages tile what is registered: a listing never collects more items
\* than there are, and when it ends it has at least as many as there were at
\* its start, whatever the limit and whatever is registered meanwhile.
\* (BaseResourcesProvider.ListResources cuts two lists with one offset.)
PagesTile ==
  /\ Len(got) <= Cardinality(items \cup templates)
  /\ place = "done" => Len(got) >= Cardinality(known)

\* "ListAllTools automatically paginates to retrieve all tools": everything
\* that was registered when the listing began is in it.
ListsAll == place = "done" => known \subseteq ToSet(got)
=============================================================================
