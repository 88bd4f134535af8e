----------------------------- MODULE QueryCache -----------------------------
(***************************************************************************)
(* One query in the cache of the web app: TanStack Query as query-client.ts*)
(* configures it and the hooks of features/ use it.  Of its data only this *)
(* is kept: whether there are any, and whether a write of this page has    *)
(* changed them since the server read them ("late").  What another device  *)
(* has changed is "good": nothing here could know better.                  *)
(*                                                                         *)
(* A fetch has no result ("sent") until the server has read; then the      *)
(* result on its way may in turn become late.  Most fetches replace all    *)
(* that is held.  The entries are held in pages, and fetchNextPage adds    *)
(* one to those there are ("more").                                        *)
(***************************************************************************)

VARIABLES
    query           \* what the QueryClient has under the key

(* stamp: isInvalidated, or the last fetch has failed.  kept is a history: *)
(* late data are, or will be, shown as fresh, as the answer of the write   *)
(* was lost ("untold"), or because a fetch that read before the write, or  *)
(* fetchNextPage, takes the place of what was to replace them ("passed").  *)
Query == [held  : {"none", "good", "late"},
          stamp : {"valid", "invalid", "error"},
          fetch : {"idle", "sent", "good", "late"},
          more  : BOOLEAN,
          kept  : {"no", "untold", "passed"}]

Unused == [held |-> "none", stamp |-> "valid", fetch |-> "idle", more |-> FALSE, kept |-> "no"]

HasData == query.held # "none"
InError == query.stamp = "error"

(* What the fetch under way ends in, if it succeeds, is late.              *)
EndsLate(q) == q.fetch = "late" \/ (q.more /\ q.held = "late")

(* A running fetch for data that are held is cancelled for this one.       *)
Refetched(q) ==
    [q EXCEPT !.fetch = "sent", !.more = FALSE, !.kept = "no",
              !.stamp = IF q.held = "none" THEN "valid" ELSE @]

(* fetchNextPage, also in place of a refetch: the pages held stay, unless  *)
(* the hook of another write, which is awaited, has them fetched.          *)
FetchedMore(q, awaited) ==
    [q EXCEPT !.fetch = "sent", !.more = TRUE,
              !.kept = CASE q.held # "late" \/ awaited -> "no"
                         [] q.held = "late" /\ ~awaited -> IF @ = "no" THEN "passed" ELSE @]

(* A component that uses the query mounts: it asks unless it has data that *)
(* are neither invalidated nor, after staleTime, lapsed.                   *)
Mounted(q, lapsed) ==
    IF q.fetch = "idle" /\ (q.held = "none" \/ q.stamp # "valid" \/ lapsed)
    THEN Refetched(q) ELSE q

(* invalidateQueries: a mounted query starts over; one that is not mounted *)
(* is marked.  A first load, and the fetch of a page that is gone, are not *)
(* cancelled, and their success takes the mark away.                       *)
Marked(q, awaited) ==
    [q EXCEPT !.stamp = IF q.held = "none" \/ @ = "error" THEN @ ELSE "invalid",
              !.kept  = IF EndsLate(q) /\ ~awaited THEN "passed" ELSE @]

Invalidated(q, active, awaited) ==
    IF active /\ (q.held # "none" \/ q.fetch = "idle")
    THEN Refetched([q EXCEPT !.stamp = IF @ = "error" THEN @ ELSE "invalid"])
    ELSE Marked(q, awaited)

(* The server writes what the query has read.                              *)
Overtaken(q) ==
    [q EXCEPT !.held  = IF @ = "good" THEN "late" ELSE @,
              !.fetch = IF @ = "good" THEN "late" ELSE @,
              !.kept  = "no"]

(* The answer of the write is lost: nothing will tell the page.            *)
Untold(q) ==
    [q EXCEPT !.kept = IF @ = "no" /\ (EndsLate(q) \/ (q.held = "late" /\ q.fetch = "idle"
                                                           /\ q.stamp = "valid"))
                       THEN "untold" ELSE @]

Answered(q) ==
    [held |-> IF EndsLate(q) THEN "late" ELSE "good", stamp |-> "valid", fetch |-> "idle",
     more |-> FALSE, kept |-> IF EndsLate(q) THEN q.kept ELSE "no"]

Failed(q) == [q EXCEPT !.fetch = "idle", !.stamp = "error", !.more = FALSE, !.kept = "no"]

=============================================================================
