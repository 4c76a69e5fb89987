----------------------------- MODULE XskContext -----------------------------
(***************************************************************************)
(* xsk-util.c: bring-up and tear-down of an AF_XDP receive path, one       *)
(* system call or short run of them at a time, any of which may fail.      *)
(* What only the log or the length of a mapping depends on is left out.    *)
(***************************************************************************)
EXTENDS XskRings

VARIABLES
  context,    \* "none", "create", "open" or "destroy"
  held,       \* what the context has, or has done to its socket
  xdp,        \* the kernel runs its program on the interface
  lost        \* calls whose failure leaves the program in place

contextVars == <<context, held, xdp, lost>>

\* The steps of xsk_ctx_create(), in order.  "umem", "fill" and "rx" are
\* mappings, "map", "prog", "link" and "socket" descriptors; "registered" and
\* "bound" are states of the socket and "entry" is the socket's in the map.
CreateOrder == <<"umem", "map", "prog", "link", "socket", "registered",
                 "fill", "rx", "bound", "entry">>

\* Of these, what the socket takes with it when it is closed.
OfSocket == {"socket", "registered", "bound", "entry"}

\* A defect the model can be run with: memory first.
MemoryFirst == <<"umem", "fill", "rx", "link", "prog", "map", "socket">>

\* The order xsk_ctx_destroy() releases them in.
DestroyOrder == <<"link", "prog", "map", "socket", "fill", "rx", "umem">>

\* The first of these steps that is in a set.
First(steps, set) ==
  steps[CHOOSE i \in DOMAIN steps :
          steps[i] \in set /\ \A j \in 1 .. i - 1 : steps[j] \notin set]

Missing == {CreateOrder[i] : i \in DOMAIN CreateOrder} \ held

\* The rings of a socket nobody has populated or that is gone.
RingsEmpty ==
  /\ fq' = [fq EXCEPT !.producer = 0, !.consumer = 0]
  /\ rx' = [rx EXCEPT !.producer = 0, !.consumer = 0]
  /\ nic' = {}
  /\ recycled' = 0
  /\ UNCHANGED umem

\* The fill ring is populated once both are mapped, before bind().
RingsPopulated ==
  /\ fq' = [desc |-> [s \in Frames |-> s], producer |-> NumFrames, consumer |-> 0]
  /\ UNCHANGED <<rx, nic, umem, recycled>>

ContextInit ==
  /\ context = "none"
  /\ held = {}
  /\ xdp = FALSE
  /\ lost = {}

-----------------------------------------------------------------------------

\* xsk_ctx_create() is called, on an interface that exists.
BeginCreate ==
  /\ context = "none"
  /\ context' = "create"
  /\ UNCHANGED <<held, xdp, lost, ringVars>>

\* Its next step succeeds: a mapping, create_xskmap(), load_xdp_prog(),
\* attach_xdp(), the socket and its options, setup_ring(), bind() with one of
\* three sets of flags, xskmap_update().
Create ==
  /\ context = "create"
  /\ LET step == First(CreateOrder, Missing)
     IN /\ held' = held \cup {step}
        /\ xdp' = (xdp \/ step = "link")
        /\ context' = IF step = "entry" THEN "open" ELSE "create"
        /\ IF step = "rx" THEN RingsPopulated ELSE UNCHANGED ringVars
  /\ UNCHANGED lost

\* It fails, and so do all three bind() if it is that: goto err.
CreateFails ==
  /\ context = "create"
  /\ context' = "destroy"
  /\ UNCHANGED <<held, xdp, lost, ringVars>>

\* attach_xdp() has its request served and cannot read the answer.
AnswerLost ==
  /\ context = "create"
  /\ First(CreateOrder, Missing) = "link"
  /\ context' = "destroy"
  /\ xdp' = TRUE
  /\ lost' = lost \cup {"answer"}
  /\ UNCHANGED <<held, ringVars>>

\* xsk_ctx_destroy() of an open context.
BeginDestroy ==
  /\ context = "open"
  /\ context' = "destroy"
  /\ UNCHANGED <<held, xdp, lost, ringVars>>

\* A defect the model can be run with: closing the descriptor is held to do it.
NeverDetaches(step) == FALSE

\* Where xsk_ctx_destroy() asks the kernel to let go of the program.
Detaches(step) == step = "link"

\* Its next step.  detach_xdp() does not read the answer to its request.
Destroy ==
  /\ context = "destroy"
  /\ held # {}
  /\ LET step == First(DestroyOrder, held)
     IN /\ held' = held \ (IF step = "socket" THEN OfSocket ELSE {step})
        /\ IF step = "socket" THEN RingsEmpty ELSE UNCHANGED ringVars
        /\ \/ /\ xdp' = (xdp /\ ~Detaches(step))
              /\ UNCHANGED lost
           \/ /\ Detaches(step)
              /\ lost' = lost \cup {"detach"}
              /\ UNCHANGED xdp
  /\ UNCHANGED context

\* free(ctx)
Destroyed ==
  /\ context = "destroy"
  /\ held = {}
  /\ context' = "none"
  /\ UNCHANGED <<held, xdp, lost, ringVars>>

\* The process is killed: the kernel closes what it held, and a program
\* attached by a request stays where it is.
Die ==
  /\ context' = "none"
  /\ held' = {}
  /\ lost' = IF xdp THEN lost \cup {"killed"} ELSE lost
  /\ UNCHANGED xdp
  /\ RingsEmpty

-----------------------------------------------------------------------------

\* The driver hands packets to the socket, which is in the program's map.
Redirects == xdp /\ "entry" \in held

ContextTypeOK ==
  /\ context \in {"none", "create", "open", "destroy"}
  /\ held \subseteq {CreateOrder[i] : i \in DOMAIN CreateOrder}
  /\ xdp \in BOOLEAN
  /\ lost \subseteq {"answer", "detach", "killed"}
=============================================================================
