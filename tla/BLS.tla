-------------------------------- MODULE BLS --------------------------------
(***************************************************************************)
(* The loader in lib/crypto/bls.js.  Every verification first awaits       *)
(* getInstance(): the first caller compiles the WebAssembly module, those  *)
(* that come while it is compiled listen for an event, later ones have the *)
(* module at once.  A caller is an async function of the program; its      *)
(* promise is resolved here, and the function that awaits it goes on in a  *)
(* step of its own.                                                        *)
(***************************************************************************)
EXTENDS Integers

CONSTANTS Callers,     \* the async calls that may await the module
          MaxFailures  \* how often the module may fail to compile

ASSUME FailuresAssumption == MaxFailures \in Nat

VARIABLES instance,    \* whether the compiled module is there
          isLoading,
          promise,     \* by caller: what its promise of getInstance() waits for
          failures     \* how often the module has failed to compile

blsVars == <<instance, isLoading, promise, failures>>

InitBLS == /\ instance = FALSE
           /\ isLoading = FALSE
           /\ promise = [c \in Callers |-> "none"]
           /\ failures = 0

\* (fault) the flag is raised when the module is there
GetInstanceUnmarked(c) ==
  /\ promise' = [promise EXCEPT ![c] = IF instance THEN "resolved"
                                       ELSE IF isLoading THEN "event" ELSE "compile"]
  /\ isLoading' = instance
  /\ UNCHANGED <<instance, failures>>

GetInstance(c) ==
  /\ promise' = [promise EXCEPT ![c] = IF instance THEN "resolved"
                                       ELSE IF isLoading THEN "event" ELSE "compile"]
  /\ isLoading' = (isLoading \/ ~instance)
  /\ UNCHANGED <<instance, failures>>

\* A caller that has the module and needs it no more
Finish(c) == /\ promise' = [promise EXCEPT ![c] = "none"]
             /\ UNCHANGED <<instance, isLoading, failures>>

\* (fault) only the caller that compiled gets the module
CompiledSilently(c) ==
  /\ promise[c] = "compile"
  /\ instance' = TRUE
  /\ isLoading' = FALSE
  /\ promise' = [promise EXCEPT ![c] = "resolved"]
  /\ UNCHANGED failures

\* compileWasmModule resolves: the event wakes all that listen for it.
Compiled(c) ==
  /\ promise[c] = "compile"
  /\ instance' = TRUE
  /\ isLoading' = FALSE
  /\ promise' = [d \in Callers |-> IF d = c \/ promise[d] = "event" THEN "resolved"
                                   ELSE promise[d]]
  /\ UNCHANGED failures

\* BlsSignatures() rejects: nobody handles it, isLoading stays, and the promise of
\* the caller that compiled never settles.
CompileFails(c) ==
  /\ promise[c] = "compile"
  /\ failures < MaxFailures
  /\ failures' = failures + 1
  /\ promise' = [promise EXCEPT ![c] = "lost"]
  /\ UNCHANGED <<instance, isLoading>>

BLSTypeOK ==
  /\ instance \in BOOLEAN /\ isLoading \in BOOLEAN
  /\ promise \in [Callers -> {"none", "event", "compile", "resolved", "lost"}]
  /\ failures \in 0 .. MaxFailures
=============================================================================
