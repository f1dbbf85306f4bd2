------------------------------- MODULE BenchRig -------------------------------
(***************************************************************************)
(* What a run of harness/bench/replicate.js holds and lets go: directories *)
(* and cores, and over them the pair of peers of harness/two-peer.js or,   *)
(* for a lossy link, sockets, proxies and streams (createLossyRig).  Any   *)
(* step may throw; the try blocks then release what was acquired, and a    *)
(* release may throw too.                                                  *)
(***************************************************************************)
EXTENDS Naturals, SequencesExt

Link == {"clean", "lossy"}

\* What run acquires up to the link, and what the links consist of, in this order.
Run == <<"dirA", "dirB", "writer", "reader">>
Parts == [clean |-> <<"testnet", "nodeA", "nodeB", "server", "socketB", "socketA">>,
          lossy |-> <<"socketA", "socketB", "linkToA", "linkToB", "streamA", "streamB">>]

\* Mutant: the rig is not destroyed when it fails.
Bug_OwnTry(l) == {r \in {"server", "socketA", "socketB"} : l = "clean"}

\* The steps of a link that its own try block guards.
OwnTry(l) ==
  IF l = "clean" THEN {"server", "socketA", "socketB"}
  ELSE {"linkToA", "linkToB", "streamA", "streamB"}

\* destroy of the pair and of the rig: what it closes together is a group.
Destroy == [clean |-> <<{"socketA", "socketB"}, {"server"}, {"nodeB"}, {"nodeA"}, {"testnet"}>>,
            lossy |-> <<{"streamA", "streamB"}, {"socketA", "socketB"}, {"linkToA"}, {"linkToB"}>>]

\* The finally block of run, after the link.
Finally == <<{"reader"}, {"writer"}, {"dirA"}, {"dirB"}>>

VARIABLES
  step,      \* "idle", "acquire", "work", "destroy", "finally" or "settled"
  link,
  next,      \* how much has been acquired
  held,
  left,      \* groups to be released, the first one next
  failed,    \* history: the steps that threw
  stuck      \* history: what could not be released

rigVars == <<step, link, next, held, left, failed, stuck>>

RigInit ==
  /\ step = "idle" /\ link = "clean" /\ next = 0 /\ held = {} /\ left = <<>>
  /\ failed = {} /\ stuck = {}
-----------------------------------------------------------------------------
Order == Run \o Parts[link]

StartRun(l) ==
  /\ step = "idle" /\ step' = "acquire" /\ link' = l
  /\ UNCHANGED <<next, held, left, failed, stuck>>

\* With the last one the link is attached to the cores.
Acquire ==
  /\ step = "acquire"
  /\ held' = held \cup {Order[next + 1]} /\ next' = next + 1
  /\ step' = IF next + 1 = Len(Order) THEN "work" ELSE step
  /\ UNCHANGED <<link, left, failed, stuck>>

\* Without a handle of the link, run can release only what it made itself, and
\* of the directories nothing: they are made outside of its try block.
AcquireThrows ==
  LET r == Order[next + 1]
      own == next >= Len(Run) /\ r \in OwnTry(link)
  IN /\ step = "acquire" /\ failed' = failed \cup {r}
     /\ IF r \in {"dirA", "dirB"} THEN step' = "settled" /\ UNCHANGED left
        ELSE IF own THEN step' = "destroy" /\ left' = Destroy[link]
        ELSE step' = "finally" /\ left' = Finally
     /\ UNCHANGED <<link, next, held, stuck>>

\* The download, the check of its blocks and the metrics: done, or thrown.
Work(ok) ==
  /\ step = "work" /\ step' = "finally" /\ left' = Destroy[link] \o Finally
  /\ failed' = IF ok THEN failed ELSE failed \cup {"work"}
  /\ UNCHANGED <<link, next, held, stuck>>

\* A destroy is over, or skipped from here: the error goes on to run.
Skip ==
  IF step = "destroy" THEN step' = "finally" /\ left' = Finally
  ELSE step' = "settled" /\ left' = <<>>

\* The next group, of which only what was acquired is there to be closed.
Release ==
  /\ step \in {"destroy", "finally"}
  /\ held' = held \ Head(left)
  /\ IF Len(left) > 1 THEN left' = Tail(left) /\ UNCHANGED step ELSE Skip
  /\ UNCHANGED <<link, next, failed, stuck>>

\* Some of a group cannot be closed.
ReleaseThrows(open) ==
  /\ step \in {"destroy", "finally"} /\ open # {} /\ open \subseteq Head(left)
  /\ held' = held \ (Head(left) \ open) /\ stuck' = stuck \cup open
  /\ Skip
  /\ UNCHANGED <<link, next, failed>>

RigNext ==
  \/ (\E l \in Link : StartRun(l)) \/ Acquire \/ AcquireThrows \/ \E ok \in BOOLEAN : Work(ok)
  \/ Release \/ \E open \in SUBSET held : ReleaseThrows(open)

RigSpec == RigInit /\ [][RigNext]_rigVars
-----------------------------------------------------------------------------
(* Properties.                                                             *)

\* What is in use by each of them.
Uses(r) ==
  CASE r = "writer" -> {"dirA"} [] r = "reader" -> {"dirB"}
    [] r \in {"nodeA", "nodeB"} -> {"testnet"} [] r = "server" -> {"nodeA"}
    [] r = "streamA" -> {"socketA"} [] r = "streamB" -> {"socketB"}
    [] OTHER -> {}

\* Steps that no try block guards, although something is held already.
Unguarded ==
  {"dirB"} \cup (IF link = "lossy" THEN {"socketB"} ELSE {"nodeA", "nodeB"})

\* Whatever throws while a run builds up or works, it ends with nothing held, but
\* for the unguarded steps and for a release that throws too; and nothing is ever
\* closed, or removed from the disk, while something still open uses it, then not
\* even (replicate.js:161-168, 218-239, two-peer.js:41-57).
AllReleased ==
  /\ step = "settled" /\ failed \cap Unguarded = {} /\ stuck = {} => held = {}
  /\ \A r \in held : Uses(r) \subseteq held
=============================================================================
