----------------------------- MODULE AudioCache ------------------------------
(* The audio of the archive on a phone: streamed from the bucket, cached in    *)
(* the background up to a limit, and pinned, that is, kept under data/ for use *)
(* without a network.  Requests and fills run beside each other.               *)
EXTENDS FiniteSets, Naturals

CONSTANTS
    Audio,         \* paths of recordings
    Requests,      \* pin requests that may be under way together
    None,
    Cap,           \* files the cache may hold
    MaxServed,     \* bound: requests
    MaxKills

VARIABLES
    kept, cached,  \* the file at each path under data/ and under audio-cache/
    partial,       \* temporaries of downloads: [root, of], of is who writes it
    pin,           \* each pin request: [at, path]
    fill,          \* the background fill of each path (inflight holds those not "none")
    listed,        \* what an eviction found and has not yet looked at, and its total
    promised,      \* paths whose last request was to pin them, and was answered
    served, kills

vars == <<kept, cached, partial, pin, fill, listed, promised, served, kills>>
files == <<kept, cached>>

NoRequest == [at |-> "idle", path |-> None]
NoList == [names |-> {}, total |-> 0]

Init ==
    /\ kept = [a \in Audio |-> None] /\ cached = [a \in Audio |-> None] /\ partial = {}
    /\ pin = [r \in Requests |-> NoRequest] /\ fill = [a \in Audio |-> "none"]
    /\ listed = [a \in Audio |-> NoList] /\ promised = {} /\ served = 0 /\ kills = 0

Counts == served < MaxServed /\ served' = served + 1

-----------------------------------------------------------------------------
(* download_to: a temporary beside its destination, then a rename.            *)

Begins(root, of) == partial' = partial \cup {[root |-> root, of |-> of]}

Stops(root, of) == partial' = partial \ {[root |-> root, of |-> of]}

\* Its temporary may be gone.
Arrives(root, of) == [root |-> root, of |-> of] \in partial /\ Stops(root, of)

-----------------------------------------------------------------------------
(* Pins.                                                                    *)

\* set_pin: a cached file is moved, others are downloaded, if there are tokens.
Pin(r, a) ==
    /\ pin[r].at = "idle" /\ Counts
    /\ \/ cached[a] # None /\ pin' = [pin EXCEPT ![r] = [at |-> "move", path |-> a]] /\ UNCHANGED partial
       \/ cached[a] = None /\ pin' = [pin EXCEPT ![r] = [at |-> "download", path |-> a]] /\ Begins("data", r)
       \/ cached[a] = None /\ UNCHANGED <<pin, partial>>
    /\ UNCHANGED <<files, fill, listed, promised, kills>>

Answer(r, pinned) ==
    /\ pin' = [pin EXCEPT ![r] = NoRequest]
    /\ promised' = IF pinned THEN promised \cup {pin[r].path} ELSE promised

Move(r) ==
    LET a == pin[r].path IN
    /\ pin[r].at = "move"
    /\ Answer(r, cached[a] # None)
    /\ IF cached[a] = None THEN UNCHANGED files
       ELSE kept' = [kept EXCEPT ![a] = cached[a]] /\ cached' = [cached EXCEPT ![a] = None]
    /\ UNCHANGED <<partial, fill, listed, served, kills>>

Download(r) ==
    /\ pin[r].at = "download"
    /\ \/ Arrives("data", r) /\ kept' = [kept EXCEPT ![pin[r].path] = "whole"] /\ Answer(r, TRUE)
       \/ Stops("data", r) /\ Answer(r, FALSE) /\ UNCHANGED kept
    /\ UNCHANGED <<cached, fill, listed, served, kills>>

Unpin(a) ==
    /\ Counts
    /\ kept' = [kept EXCEPT ![a] = None] /\ promised' = promised \ {a}
    /\ UNCHANGED <<cached, partial, pin, fill, listed, kills>>

-----------------------------------------------------------------------------
(* The cache.                                                               *)

\* serve_or_fetch: what is neither kept nor cached is streamed, and filled once.
Serve(a) ==
    /\ Counts /\ kept[a] = None /\ cached[a] = None /\ fill[a] = "none"
    /\ fill' = [fill EXCEPT ![a] = "asked"]
    /\ UNCHANGED <<files, partial, pin, listed, promised, kills>>

BeginFill(a) ==
    /\ fill[a] = "asked"
    /\ IF cached[a] # None THEN fill' = [fill EXCEPT ![a] = "none"] /\ UNCHANGED partial
       ELSE fill' = [fill EXCEPT ![a] = "writing"] /\ Begins("cache", a)
    /\ UNCHANGED <<files, pin, listed, promised, served, kills>>

EndFill(a) ==
    /\ fill[a] = "writing"
    /\ \/ /\ Arrives("cache", a) /\ cached' = [cached EXCEPT ![a] = "whole"]
          /\ fill' = [fill EXCEPT ![a] = "walking"]
       \/ Stops("cache", a) /\ fill' = [fill EXCEPT ![a] = "none"] /\ UNCHANGED cached
    /\ UNCHANGED <<kept, pin, listed, promised, served, kills>>

Names(root, at) == {[root |-> root, temporary |-> FALSE, of |-> a] : a \in {a \in Audio : at[a] # None}}

Walked_Everything == Names("cache", cached) \cup Names("data", kept)

\* evict_lru walks audio-cache/ only; it counts the downloads under way there too.
Walked ==
    Names("cache", cached)
    \cup {[root |-> "cache", temporary |-> TRUE, of |-> p.of] : p \in {p \in partial : p.root = "cache"}}

Walk(a) ==
    /\ fill[a] = "walking"
    /\ listed' = [listed EXCEPT ![a] = [names |-> Walked, total |-> Cardinality(Walked)]]
    /\ fill' = [fill EXCEPT ![a] = "evicting"]
    /\ UNCHANGED <<files, partial, pin, promised, served, kills>>

Without(root, at, name) ==
    [a \in Audio |-> IF name.root = root /\ ~name.temporary /\ name.of = a THEN None ELSE at[a]]

Exists(name) ==
    IF name.temporary THEN [root |-> name.root, of |-> name.of] \in partial
    ELSE IF name.root = "cache" THEN cached[name.of] # None ELSE kept[name.of] # None

\* The oldest goes first; here, any of them.  What is gone already frees nothing.
Evict(a) ==
    /\ fill[a] = "evicting" /\ listed[a].total > Cap
    /\ \E name \in listed[a].names :
          /\ listed' = [listed EXCEPT ![a].names = @ \ {name},
                                      ![a].total = IF Exists(name) THEN @ - 1 ELSE @]
          /\ cached' = Without("cache", cached, name) /\ kept' = Without("data", kept, name)
          /\ IF name.temporary THEN Stops(name.root, name.of) ELSE UNCHANGED partial
    /\ UNCHANGED <<pin, fill, promised, served, kills>>

EndEviction(a) ==
    /\ fill[a] = "evicting" /\ (listed[a].total <= Cap \/ listed[a].names = {})
    /\ fill' = [fill EXCEPT ![a] = "none"] /\ listed' = [listed EXCEPT ![a] = NoList]
    /\ UNCHANGED <<files, partial, pin, promised, served, kills>>

\* Temporaries stay behind, under names that nobody uses again.
Kill ==
    /\ kills < MaxKills /\ kills' = kills + 1
    /\ pin' = [r \in Requests |-> NoRequest] /\ fill' = [a \in Audio |-> "none"]
    /\ listed' = [a \in Audio |-> NoList]
    /\ partial' = {[p EXCEPT !.of = "left"] : p \in partial}
    /\ UNCHANGED <<files, promised, served>>

Next ==
    \/ \E r \in Requests : Move(r) \/ Download(r) \/ \E a \in Audio : Pin(r, a)
    \/ \E a \in Audio :
          Unpin(a) \/ Serve(a) \/ BeginFill(a) \/ EndFill(a) \/ Walk(a) \/ Evict(a) \/ EndEviction(a)
    \/ Kill

Spec == Init /\ [][Next]_vars

-----------------------------------------------------------------------------
(* Properties.                                                              *)

\* docs/mobile/PLAN.md:225: pins survive pulls, and eviction walks only the cache.
\* What was pinned is whole and stays, whatever is filled, evicted, pinned again or
\* killed beside it, until it is unpinned.
PinnedIsPlayable == \A a \in promised : kept[a] = "whole"

\* Refuted by the code: after a kill, the temporaries of pins stay under data/ for
\* good; those of fills are evicted one day.
NothingIsLeftOver == \A p \in partial : p.of # "left"
=============================================================================
