------------------------------ MODULE Registry ------------------------------
(***************************************************************************)
(* The recipe registry of src/src/calculus/derivative.c and the three Lua   *)
(* functions of luaenv.c that a script reaches it through: derivative{...}, *)
(* fetch{...} and d:request().                                              *)
(*                                                                          *)
(* A recipe is hashed by serialising it; a hash is modelled by the value it *)
(* is the digest of (SHA-256 is taken to be injective on recipes), with the *)
(* dependencies by their own hashes, in order, as the serialisation writes  *)
(* them.  The name and build script of a derivative are one member of       *)
(* Scripts, the url, file hash and extract flag of a fetch one of Files.    *)
(* A pointer to a registered derivative is its index in `registered'.       *)
(***************************************************************************)
EXTENDS Naturals, Sequences, SequencesExt

CONSTANTS
    Scripts,        \* name and build script of a standard derivative
    Files,          \* url, file hash and extract flag of a fetch
    Malformed,      \* the members of Files whose hash is not 64 hex digits
    MaxDeps,        \* bound: dependencies of one derivative
    MaxRegistered   \* bound: derivatives registered by one script

ASSUME MalformedAssumption == Malformed \subseteq Files
ASSUME RegistryBounds == MaxDeps \in Nat /\ MaxRegistered \in Nat

VARIABLES
    registered,     \* the values of registered_derivatives, oldest first
    requested,      \* requested_derivatives
    handed,         \* history: what a script asked for and the pointer it got
    outcome         \* how the evaluation of the script stands

vars == <<registered, requested, handed, outcome>>

Handle == 1..Len(registered)

Outcomes == {"running", "evaluated", "collision_panic", "hash_panic"}

\* Mutant: the dependencies are left out of the serialisation.
StandardHashShallow(script, deps) ==
    [type |-> "STANDARD", of |-> script, deps |-> <<>>]

\* write_standard_derivative() and write_fetch_derivative(), then sha256_hash().
StandardHash(script, deps) ==
    [type |-> "STANDARD", of |-> script,
     deps |-> [i \in DOMAIN deps |-> registered[deps[i]].dhash]]

FetchHash(file) == [type |-> "FETCH", of |-> file, deps |-> <<>>]

Known(hash) == {h \in Handle : registered[h].dhash = hash}

Register(dtype, hash, deps) ==
    registered' = Append(registered, [dtype |-> dtype, dhash |-> hash, deps |-> deps])

Hand(spec, h) == handed' = handed \cup {[spec |-> spec, handle |-> h]}

-----------------------------------------------------------------------------
Init ==
    /\ registered = <<>>
    /\ requested = <<>>
    /\ handed = {}
    /\ outcome = "running"

\* Mutant: every call allocates a new derivative.
InternNever(dtype, hash, deps, spec) ==
    /\ Len(registered) < MaxRegistered
    /\ Register(dtype, hash, deps)
    /\ Hand(spec, Len(registered) + 1)
    /\ UNCHANGED outcome

(* The common end of the two create functions: the derivative registered    *)
(* under this hash is returned, after a sanity check of its tag; otherwise  *)
(* a new one is registered.  A failed sanity check panics.                  *)
Intern(dtype, hash, deps, spec) ==
    \/ /\ Known(hash) = {}
       /\ Len(registered) < MaxRegistered
       /\ Register(dtype, hash, deps)
       /\ Hand(spec, Len(registered) + 1)
       /\ UNCHANGED outcome
    \/ \E h \in Known(hash) :
          /\ UNCHANGED registered
          /\ IF registered[h].dtype = hash.type
               THEN Hand(spec, h) /\ UNCHANGED outcome
               ELSE outcome' = "collision_panic" /\ UNCHANGED handed

(* derivative{name, build, deps}: an empty dependency table is an error.    *)
CreateStandard(script, deps) ==
    /\ outcome = "running"
    /\ deps # <<>>
    /\ Intern("STANDARD", StandardHash(script, deps), deps,
              [kind |-> "derivative", of |-> script, deps |-> deps])
    /\ UNCHANGED requested

(* fetch{url, hash, extract}: create_fetch_derivative() tags the header of  *)
(* the new derivative DT_STANDARD (derivative.c:132).                       *)
CreateFetch(file) ==
    /\ outcome = "running"
    /\ IF file \in Malformed
         THEN outcome' = "hash_panic" /\ UNCHANGED <<registered, handed>>
         ELSE Intern("STANDARD", FetchHash(file), <<>>,
                     [kind |-> "fetch", of |-> file, deps |-> <<>>])
    /\ UNCHANGED requested

\* Mutant: the request is recorded without looking for it first.
RequestAgain(h) ==
    /\ outcome = "running"
    /\ Len(requested) <= MaxRegistered
    /\ requested' = Append(requested, h)
    /\ UNCHANGED <<registered, handed, outcome>>

(* d:request()                                                              *)
Request(h) ==
    /\ outcome = "running"
    /\ requested' = IF Contains(requested, h) THEN requested
                                              ELSE Append(requested, h)
    /\ UNCHANGED <<registered, handed, outcome>>

(* The script returns, or stops at a Lua error: main() goes on with         *)
(* get_requested_derivatives() in both cases.                               *)
ScriptEnds ==
    /\ outcome = "running"
    /\ outcome' = "evaluated"
    /\ UNCHANGED <<registered, requested, handed>>

Stopped == outcome # "running" /\ UNCHANGED vars

Next ==
    \/ \E script \in Scripts, deps \in BoundedSeq(Handle, MaxDeps) :
          CreateStandard(script, deps)
    \/ \E file \in Files : CreateFetch(file)
    \/ \E h \in Handle : Request(h)
    \/ ScriptEnds
    \/ Stopped

Spec == Init /\ [][Next]_vars

-----------------------------------------------------------------------------
TypeOK ==
    /\ registered \in Seq([dtype : {"STANDARD", "FETCH"},
                           dhash : [type : {"STANDARD", "FETCH"},
                                    of : Scripts \cup Files,
                                    deps : Seq({registered[h].dhash : h \in Handle})],
                           deps : Seq(Handle)])
    /\ requested \in Seq(Handle)
    /\ \A x \in handed : x.handle \in Handle
    /\ outcome \in Outcomes

(* A handle is its recipe: two calls of a script, however far apart, yield  *)
(* the same pointer exactly when they name the same script or file and the  *)
(* same dependencies in the same order.  Everything that compares           *)
(* derivatives by pointer (request_derivative, resolve_dependencies, the    *)
(* mermaid walk) rests on this.                                             *)
HandleIsRecipe ==
    \A x, y \in handed : x.handle = y.handle <=> x.spec = y.spec

(* What the planner takes for granted: no derivative is reachable from      *)
(* itself, since dependencies are registered first; no request is repeated. *)
PlannerInput ==
    /\ \A h \in Handle : \A i \in DOMAIN registered[h].deps :
          registered[h].deps[i] < h
    /\ IsInjective(requested)

(* A store path pins the whole closure: no two registered derivatives share *)
(* a hash, and the hash of a derivative contains the hashes its             *)
(* dependencies have now, not only when it was created.                     *)
PathPinsClosure ==
    /\ \A g, h \in Handle : registered[g].dhash = registered[h].dhash => g = h
    /\ \A h \in Handle : \A i \in DOMAIN registered[h].deps :
          registered[h].dhash.deps[i] = registered[registered[h].deps[i]].dhash

(* Two recipes of different kinds never have the same bytes, so the panic   *)
(* about a hash collision is unreachable as long as the header's tag is the *)
(* kind that was hashed.                                                    *)
NoFalseCollision == outcome # "collision_panic"
=============================================================================
