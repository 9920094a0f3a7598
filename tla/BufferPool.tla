----------------------------- MODULE BufferPool -----------------------------
(***************************************************************************)
(* LargeBufferPool (utils/large_buffer_pool.h) and the scopes that borrow  *)
(* from it at the same time: one request of the HTTP server, which takes   *)
(* up to three buffers, and the health task of each worker thread.  Most   *)
(* scopes use their buffer without asking whether they got one.            *)
(***************************************************************************)
EXTENDS Naturals, FiniteSets

CONSTANTS
  Sizes,        \* the numbers of buffers pools are built with
  Workers,      \* the threads that run health tasks
  NoBuffer      \* no buffer

ASSUME BufferAssumption ==
  /\ Sizes \subseteq Nat
  /\ NoBuffer \notin Nat
  /\ IsFiniteSet(Workers)
  /\ Workers \cap {"request", "header", "action"} = {}

Scopes == {"request", "header", "action"} \cup Workers

VARIABLES
  total,       \* num_large_buffers of this build
  borrowed,   \* the buffers whose status is borrowed
  held,       \* the buffer of the borrower in each scope
  http,       \* where do_devices is
  busy        \* the workers in print_health

bufferVars == <<total, borrowed, held, http, busy>>

Buffers == 1 .. total

BufferInit ==
  /\ total \in Sizes
  /\ borrowed = {}
  /\ held = [s \in Scopes |-> NoBuffer]
  /\ http = "idle"
  /\ busy = {}

-----------------------------------------------------------------------------
\* Mutant: the search runs one past the end of the array.
PastEnd == (1 .. total + 1) \ borrowed
Available == Buffers \ borrowed
First(S)  == {b \in S : \A c \in S : b <= c}

\* Mutant: a borrowed buffer is not marked.
Unmarked(b) == UNCHANGED borrowed
\* borrowBuffer.
Mark(b) == borrowed' = borrowed \cup {b}

\* get_free_buffer: the first available buffer, or none.
Borrow(s) ==
  \/ \E b \in First(Available) : held' = [held EXCEPT ![s] = b] /\ Mark(b)
  \/ Available = {} /\ UNCHANGED <<held, borrowed>>

\* Mutant: a buffer that leaves its scope is not given back.
Keep(b) == UNCHANGED borrowed
\* return_buffer: nothing to do for an empty borrower.
Return(b) == borrowed' = borrowed \ {b}

\* The borrower of a scope is destroyed.
GiveBack(s) == Return(held[s]) /\ held' = [held EXCEPT ![s] = NoBuffer]

\* The request's own buffer; without one the answer is "Out of memory".
ReceiveRequest ==
  /\ http = "idle"
  /\ Borrow("request")
  /\ http' = IF Available = {} THEN "idle" ELSE "received"
  /\ UNCHANGED <<total, busy>>

\* The buffer for the headers, used at once.
ReadHeaders ==
  /\ http = "received"
  /\ Borrow("header")
  /\ http' = "dispatch"
  /\ UNCHANGED <<total, busy>>

\* Overview, info and options take a buffer of their own.
RunAction ==
  /\ http = "dispatch"
  /\ Borrow("action")
  /\ http' = "action"
  /\ UNCHANGED <<total, busy>>

\* So does the creation of a schedule, which fails without one.
CreateSchedule ==
  /\ http = "dispatch"
  /\ Borrow("action")
  /\ http' = IF Available = {} THEN "answered" ELSE "action"
  /\ UNCHANGED <<total, busy>>

EndAction ==
  /\ http = "action"
  /\ GiveBack("action")
  /\ http' = "answered"
  /\ UNCHANGED <<total, busy>>

\* The other actions need no buffer; a binary request returns early.
RunOther ==
  /\ http = "dispatch"
  /\ http' = "answered"
  /\ UNCHANGED <<total, borrowed, held, busy>>

\* The end of do_devices, in the reverse order of the declarations.
DropHeaders ==
  /\ http = "answered"
  /\ GiveBack("header")
  /\ http' = "done"
  /\ UNCHANGED <<total, busy>>

DropRequest ==
  /\ http = "done"
  /\ GiveBack("request")
  /\ http' = "idle"
  /\ UNCHANGED <<total, busy>>

\* print_health uses its buffer at once.
StartHealth(w) ==
  /\ w \notin busy
  /\ Borrow(w)
  /\ busy' = busy \cup {w}
  /\ UNCHANGED <<total, http>>

EndHealth(w) ==
  /\ w \in busy
  /\ GiveBack(w)
  /\ busy' = busy \ {w}
  /\ UNCHANGED <<total, http>>

BufferNext ==
  \/ ReceiveRequest \/ ReadHeaders \/ RunAction \/ CreateSchedule \/ EndAction
  \/ RunOther \/ DropHeaders \/ DropRequest
  \/ \E w \in Workers : StartHealth(w) \/ EndHealth(w)

BufferSpec == BufferInit /\ [][BufferNext]_bufferVars

-----------------------------------------------------------------------------
BufferTypeOK ==
  /\ total \in Sizes
  /\ borrowed \subseteq Buffers
  /\ held \in [Scopes -> Buffers \cup {NoBuffer}]
  /\ http \in {"idle", "received", "dispatch", "action", "answered", "done"}
  /\ busy \subseteq Workers

\* No two scopes write into one buffer, and no buffer is lost: each borrowed
\* one has exactly one holder, which will give it back.
OneHolder ==
  /\ \A s, t \in Scopes : held[s] = held[t] /\ held[s] # NoBuffer => s = t
  /\ borrowed = {held[s] : s \in Scopes} \ {NoBuffer}

\* A scope that does not ask whether it got a buffer has one, if there are as
\* many buffers as scopes.
NoEmptyUse ==
  total >= Cardinality(Scopes) =>
    /\ http \in {"dispatch", "action", "answered"} => held["header"] # NoBuffer
    /\ http = "action" => held["action"] # NoBuffer
    /\ \A w \in busy : held[w] # NoBuffer
=============================================================================
