----------------------------- MODULE ChunkLoader -----------------------------
(* The chunk loader webpack puts in front of bundle.js.  A chunk is fetched   *)
(* with a <script> element; the loader answers with a promise that is         *)
(* resolved by the chunk's own call of webpackJsonp and rejected when the     *)
(* element fails or 120 seconds pass.  A script given up by the timer is      *)
(* still in the document: its chunk may arrive later, after a retry has       *)
(* begun, or twice.                                                           *)
EXTENDS Naturals

CONSTANT Chunks

VARIABLES installedChunks, \* per chunk: no entry, [resolve, reject, promise], 0
          live,            \* per chunk: script elements with handlers and timer
          orphans          \* per chunk: elements the timer gave up

loaderVars == <<installedChunks, live, orphans>>

LoaderTypeOK ==
    /\ installedChunks \in [Chunks -> {"undefined", "loading", "installed"}]
    /\ live \in [Chunks -> Nat]
    /\ orphans \in [Chunks -> Nat]

\* Slip: an element given up is trusted to bring the chunk.
RequireEnsureUnlessOrphan(S) ==
    LET new == {c \in S : installedChunks[c] = "undefined"}
    IN  /\ installedChunks' = [c \in Chunks |->
              IF c \in new THEN "loading" ELSE installedChunks[c]]
        /\ live' = [c \in Chunks |->
              IF c \in new /\ orphans[c] = 0 THEN live[c] + 1 ELSE live[c]]
        /\ UNCHANGED orphans
\* __webpack_require__.e for each chunk of S: a chunk with no entry gets one,
\* and a script element; one that is loading shares its promise.
RequireEnsure(S) ==
    LET new == {c \in S : installedChunks[c] = "undefined"}
    IN  /\ installedChunks' = [c \in Chunks |->
              IF c \in new THEN "loading" ELSE installedChunks[c]]
        /\ live' = [c \in Chunks |-> IF c \in new THEN live[c] + 1 ELSE live[c]]
        /\ UNCHANGED orphans

\* The chunk's file runs and calls webpackJsonp, whichever element fetched it;
\* the load event that follows finds the chunk installed and changes nothing.
WebpackJsonpCallback(c) ==
    /\ installedChunks' = [installedChunks EXCEPT ![c] = "installed"]
    /\ \/ /\ live[c] > 0
          /\ live' = [live EXCEPT ![c] = @ - 1]
          /\ UNCHANGED orphans
       \/ /\ orphans[c] > 0
          /\ orphans' = [orphans EXCEPT ![c] = @ - 1]
          /\ UNCHANGED live

\* Slip: no timer.
OnScriptCompleteInTime(c, late) ==
    /\ live[c] > 0 /\ ~late
    /\ live' = [live EXCEPT ![c] = @ - 1]
    /\ installedChunks' = IF installedChunks[c] = "installed" THEN installedChunks
                          ELSE [installedChunks EXCEPT ![c] = "undefined"]
    /\ UNCHANGED orphans
\* onScriptComplete without a chunk: the element failed, its file did not call
\* webpackJsonp, or (late) the timer ran out with the file still to come.
OnScriptComplete(c, late) ==
    /\ live[c] > 0
    /\ live' = [live EXCEPT ![c] = @ - 1]
    /\ orphans' = IF late THEN [orphans EXCEPT ![c] = @ + 1] ELSE orphans
    /\ installedChunks' = IF installedChunks[c] = "installed" THEN installedChunks
                          ELSE [installedChunks EXCEPT ![c] = "undefined"]

\* A promise handed out for c is waiting.
Waiting(c) == installedChunks[c] = "loading"

\* A chunk that is loading has one element that will report, and no chunk ever
\* has two: a promise is settled by its own script or by an older one.
OneReporterPerLoad ==
    \A c \in Chunks : live[c] <= 1 /\ (Waiting(c) => live[c] = 1)
=============================================================================
