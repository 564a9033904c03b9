------------------------------ MODULE PagedList -----------------------------
(***************************************************************************)
(* A collection that is read page by page while its items come and go.     *)
(*                                                                         *)
(* VKS serves ten items unless it is asked for more, so every list tool    *)
(* reads page after page (fetch_all_vks_items).  vServer and vBackup       *)
(* answer with everything, and only if they report more than they sent is  *)
(* the collection read again, in pages (fetch_all_items).  Each page is a  *)
(* request of its own: between two of them an item may be removed, and     *)
(* those behind it move up across the boundary, or one be inserted, and    *)
(* they move down.                                                         *)
(*                                                                         *)
(* A page is read by the API at some moment between request and answer;    *)
(* nothing else looks at the cursor meanwhile, so that moment is the step. *)
(***************************************************************************)
EXTENDS Naturals, FiniteSets, SequencesExt

CONSTANTS
    Tasks,      \* calls that read the collection
    Items,      \* everything that may ever be in it
    PageSize    \* items of a page

ASSUME PageSizeAssumption == PageSize \in Nat \ {0}
ASSUME ItemsAssumption == IsFiniteSet(Items)

VARIABLES
    service,    \* "vks" or "vserver": which API serves the collection
    items,      \* the collection, in the order the API lists it
    gone,       \* items removed so far, which do not come back
    reads       \* task -> its cursor

(* A cursor: what is awaited, the pages read so far and their items; and,   *)
(* for the properties, which items have been there all the time since the   *)
(* call began, and how many were removed and inserted since.                *)
Cursor == [stage : {"off", "whole", "page", "done", "failed"}, page : Nat, collected : Seq(Items),
           there : SUBSET Items, removed : Nat, inserted : Nat]

Off == [stage |-> "off", page |-> 0, collected |-> <<>>, there |-> {}, removed |-> 0, inserted |-> 0]

Reading(t) == reads[t].stage \in {"whole", "page"}

-----------------------------------------------------------------------------
(* The API.  Pages are counted from 0 here; vServer and vBackup count from  *)
(* 1.  The total a response reports may include what is not listed.         *)
From(n) == SubSeq(items, n + 1, Min({n + PageSize, Len(items)}))
PageAt(page) == From(page * PageSize)
Totals == {Len(items), Len(items) + 1}

-----------------------------------------------------------------------------
(* A mutated form of More below: the total decides alone.                   *)
MoreByTotalOnly(batch, collected, total) == Len(collected) < total

(* while True: ... until a page is empty or the total is reached.           *)
More(batch, collected, total) == batch # <<>> /\ Len(collected) < total

Opened(t) == [Off EXCEPT !.stage = IF service = "vks" THEN "page" ELSE "whole",
                         !.there = ToSet(items)]

(* The bare request of vServer and vBackup: everything, or a first page if  *)
(* the API has started to enforce paging; that page is then thrown away.    *)
FirstAnswer(t) ==
    /\ reads[t].stage = "whole"
    /\ \E answer \in {items, PageAt(0)}, total \in Totals :
        reads' = [reads EXCEPT ![t] =
            IF Len(answer) >= total THEN [@ EXCEPT !.stage = "done", !.collected = answer]
                                    ELSE [@ EXCEPT !.stage = "page"]]

\* a mutated form of PageAnswer below: the next page starts one item further
PageAnswerSkipping(t) ==
    /\ reads[t].stage = "page"
    /\ \E total \in Totals :
        LET page == reads[t].page
            batch == From(page * (PageSize + 1))
            collected == reads[t].collected \o batch
        IN  reads' = [reads EXCEPT ![t] = [@ EXCEPT
                !.collected = collected,
                !.page = page + 1,
                !.stage = IF More(batch, collected, total) THEN "page" ELSE "done"]]

PageAnswer(t) ==
    /\ reads[t].stage = "page"
    /\ \E total \in Totals :
        LET batch == PageAt(reads[t].page)
            collected == reads[t].collected \o batch
        IN  reads' = [reads EXCEPT ![t] = [@ EXCEPT
                !.collected = collected,
                !.page = reads[t].page + 1,
                !.stage = IF More(batch, collected, total) THEN "page" ELSE "done"]]

ReadAnswer(t) ==
    /\ FirstAnswer(t) \/ PageAnswer(t)
    /\ UNCHANGED <<service, items, gone>>

\* any request may fail: what was collected is lost
ReadFails(t) ==
    /\ Reading(t)
    /\ reads' = [reads EXCEPT ![t] = [Off EXCEPT !.stage = "failed"]]
    /\ UNCHANGED <<service, items, gone>>

-----------------------------------------------------------------------------
(* The collection changes: what a call has not read yet moves.              *)
Insert(i, n) ==
    /\ i \notin ToSet(items) \cup gone
    /\ items' = InsertAt(items, n, i)
    /\ reads' = [t \in Tasks |-> IF Reading(t) THEN [reads[t] EXCEPT !.inserted = @ + 1]
                                               ELSE reads[t]]
    /\ UNCHANGED <<service, gone>>

Delete(n) ==
    /\ items' = RemoveAt(items, n)
    /\ gone' = gone \cup {items[n]}
    /\ reads' = [t \in Tasks |->
            IF Reading(t) THEN [reads[t] EXCEPT !.there = @ \ {items[n]}, !.removed = @ + 1]
                          ELSE reads[t]]
    /\ UNCHANGED service

-----------------------------------------------------------------------------
ListTypeOK ==
    /\ service \in {"vks", "vserver"}
    /\ items \in Seq(Items)
    /\ gone \in SUBSET Items
    /\ reads \in [Tasks -> Cursor]

(* A finished listing lacks no more of the items that were there from the   *)
(* beginning to the end of the call than were removed meanwhile, and shows  *)
(* no more of them twice than were inserted: undisturbed, it is complete.   *)
(* (paging.py: "agents always see the complete collection".)                *)
Missing(t) == reads[t].there \ ToSet(reads[t].collected)
Repeated(t) == Len(reads[t].collected) - Cardinality(ToSet(reads[t].collected))

ListingAccurate == \A t \in Tasks : reads[t].stage = "done" =>
    /\ Cardinality(Missing(t)) <= reads[t].removed
    /\ Repeated(t) <= reads[t].inserted

=============================================================================
