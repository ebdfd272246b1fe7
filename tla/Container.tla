----------------------------- MODULE Container -----------------------------
(***************************************************************************)
(* The dependency-injection container (src/src/di/container.ts): modules   *)
(* with local, imported and exported providers, resolution of a token from *)
(* the module that asks for it, the caches of singletons and of request    *)
(* contexts, and the guards against cycles and against a singleton that    *)
(* captures request state.  The recursion of resolve() is the stack of a   *)
(* state machine: a frame per provider under construction.                 *)
(*                                                                         *)
(* A value is the provider it came from and the request contexts whose     *)
(* state it holds.  An optional value or provider is a set of at most one. *)
(***************************************************************************)
EXTENDS Integers, Sequences, FiniteSets

CONSTANTS
    Tokens,
    Modules,        \* 0..n: 0 is the root, a module imports higher ones only
    Imports,        \* Imports[m]: sequence of the modules m imports
    Wirings,        \* the module definitions to examine
    MaxContexts,    \* bound: request contexts
    MaxGets         \* bound: calls of get()

VARIABLES
    wiring,     \* the definitions: providers by module and token, exports by module
    singletons, \* singletons[t]: the cached value of a token
    instances,  \* instances[c][t]: the value of a token in a request context
    stack,      \* providers under construction, the innermost last
    context,    \* the request context of the present get(), 0 for none
    answer,     \* what the last resolve() returned, until its caller takes it
    gets

vars == <<wiring, singletons, instances, stack, context, answer, gets>>

Contexts == 1..MaxContexts
Nobody == -1            \* get() names no requesting module; no provider's module

\* The first alternative that is there.
FirstOf(s) ==
    LET some == {i \in DOMAIN s : s[i] # {}} IN
    IF some = {} THEN {} ELSE s[CHOOSE i \in some : \A j \in some : i <= j]

-----------------------------------------------------------------------------
\* Compilation of the module tree.

\* registerProvider(): a provider knows the module that declares it.
Local(w, m, t) == {[provider |-> p, token |-> t, module |-> m] : p \in w.local[m][t]}

\* compileImportedModule(): a module exports what it declares or imports.
Exported(w) ==
    LET exported[m \in Modules] ==
          [t \in Tokens |->
             IF t \notin w.exports[m] THEN {}
             ELSE FirstOf(<<Local(w, m, t)>> \o
                          [i \in DOMAIN Imports[m] |-> exported[Imports[m][i]][t]])]
    IN exported

\* addImportedExports(): the first import that exports a token supplies it.
Imported(w, m, t) == FirstOf([i \in DOMAIN Imports[m] |-> Exported(w)[Imports[m][i]][t]])

\* registerExport() throws for a token exported by two imports of the root,
\* compileImportedModule() for an export that is not there.
Compiles(w) ==
    /\ \A m \in Modules \ {0} : \A t \in w.exports[m] : Exported(w)[m][t] # {}
    /\ \A t \in Tokens :
         Cardinality({i \in DOMAIN Imports[0] : Exported(w)[Imports[0][i]][t] # {}}) <= 1

\* findRegisteredProvider(): the asking module's own providers and imports,
\* then the root's, then what the imports of the root export.
FindRegisteredProvider(t, m) ==
    LET anywhere == <<Local(wiring, 0, t), Imported(wiring, 0, t)>> IN
    FirstOf(IF m = Nobody THEN anywhere
            ELSE <<Local(wiring, m, t), Imported(wiring, m, t)>> \o anywhere)

-----------------------------------------------------------------------------
Init ==
    /\ wiring \in {w \in Wirings : Compiles(w)}
    /\ singletons = [t \in Tokens |-> {}]
    /\ instances = [c \in Contexts |-> [t \in Tokens |-> {}]]
    /\ stack = <<>>
    /\ context = 0
    /\ answer = {}
    /\ gets = 0

\* The application places a request-local value in a context.
PlaceValue(c, t) ==
    /\ stack = <<>> /\ instances[c][t] = {}
    /\ instances' = [instances EXCEPT ![c][t] = {[module |-> Nobody, token |-> t, holds |-> {c}]}]
    /\ UNCHANGED <<wiring, singletons, stack, context, answer, gets>>

Chain == {stack[i].reg.token : i \in DOMAIN stack}
Top == stack[Len(stack)]
Held(t, c) == IF c = 0 THEN {} ELSE instances[c][t]
Scoped(found, scope) == \E r \in found : r.provider.scope = scope

\* resolve() throws: a cycle, request state below a singleton, no provider,
\* request scope without a context.
Refused(t, found, c, inSingleton) ==
    \/ t \in Chain
    \/ inSingleton /\ Held(t, c) # {}
    \/ /\ Held(t, c) = {}
       /\ \/ found = {}
          \/ Scoped(found, "request") /\ (inSingleton \/ c = 0)

\* resolve() returns a value of the context or of the singleton cache.
Ready(t, found, c) ==
    IF Held(t, c) # {} THEN Held(t, c)
    ELSE IF Scoped(found, "singleton") THEN singletons[t]
    ELSE {}

\* Mutant: only the direct dependencies of a singleton are guarded.
BelowSingletonDirect(inSingleton, scope) == scope = "singleton"

\* singletonInChain of what a provider asks for.
BelowSingleton(inSingleton, scope) == inSingleton \/ scope = "singleton"

\* resolve() of token t for module m, called by the frames of below.
Resolve(t, m, c, inSingleton, below) ==
    LET found == FindRegisteredProvider(t, m) IN
    \/ /\ Refused(t, found, c, inSingleton)
       /\ stack' = <<>>
       /\ answer' = {}
    \/ /\ ~Refused(t, found, c, inSingleton)
       /\ Ready(t, found, c) # {}
       /\ stack' = below
       /\ answer' = {[token |-> t, asker |-> m, value |-> v] : v \in Ready(t, found, c)}
    \/ /\ ~Refused(t, found, c, inSingleton)
       /\ Ready(t, found, c) = {}
       /\ \E r \in found :
            stack' = Append(below,
                [reg |-> r, asker |-> m, todo |-> r.provider.deps, args |-> {},
                 guarded |-> BelowSingleton(inSingleton, r.provider.scope)])
       /\ answer' = {}

\* get(), with a request context or without.
Get(t, c) ==
    /\ stack = <<>> /\ gets < MaxGets
    /\ gets' = gets + 1
    /\ context' = c
    /\ Resolve(t, Nobody, c, FALSE, <<>>)
    /\ UNCHANGED <<wiring, singletons, instances>>

\* The next dependency of the provider under construction; an optional one
\* that nobody provides is left out.
NextDependency ==
    /\ stack # <<>> /\ answer = {} /\ Top.todo # <<>>
    /\ LET dep == Head(Top.todo)
           rest == [stack EXCEPT ![Len(stack)].todo = Tail(@)]
       IN IF dep.optional /\ FindRegisteredProvider(dep.token, Top.reg.module) = {}
          THEN stack' = rest /\ answer' = {}
          ELSE Resolve(dep.token, Top.reg.module, context, Top.guarded, rest)
    /\ UNCHANGED <<wiring, singletons, instances, context, gets>>

\* The provider under construction receives the dependency it asked for.
TakeDependency ==
    /\ stack # <<>> /\ answer # {}
    /\ stack' = [stack EXCEPT ![Len(stack)].args = @ \union {a.value : a \in answer}]
    /\ answer' = {}
    /\ UNCHANGED <<wiring, singletons, instances, context, gets>>

\* instantiate(): an alias returns its target, everything else a value of its
\* own that holds what its arguments hold; request scope binds the context.
Instantiate(frame) ==
    IF frame.reg.provider.kind = "existing" THEN frame.args
    ELSE {[module |-> frame.reg.module, token |-> frame.reg.token,
           holds |-> UNION {v.holds : v \in frame.args} \union
                     {c \in {context} : frame.reg.provider.scope = "request"}]}

\* The provider is built, cached by its scope and returned.
Build ==
    /\ stack # <<>> /\ answer = {} /\ Top.todo = <<>>
    /\ LET value == Instantiate(Top)
           t == Top.reg.token
           scope == Top.reg.provider.scope
       IN /\ singletons' = IF scope = "singleton" THEN [singletons EXCEPT ![t] = value]
                           ELSE singletons
          /\ instances' = IF scope = "request" THEN [instances EXCEPT ![context][t] = value]
                          ELSE instances
          /\ answer' = {[token |-> t, asker |-> Top.asker, value |-> v] : v \in value}
    /\ stack' = SubSeq(stack, 1, Len(stack) - 1)
    /\ UNCHANGED <<wiring, context, gets>>

-----------------------------------------------------------------------------
Next ==
    \/ \E t \in Tokens, c \in Contexts : PlaceValue(c, t)
    \/ \E t \in Tokens, c \in {0} \union Contexts : Get(t, c)
    \/ NextDependency
    \/ TakeDependency
    \/ Build

Spec == Init /\ [][Next]_vars

-----------------------------------------------------------------------------
\* Whatever the wiring, the order of the calls and the errors on the way, no
\* singleton holds request state, directly or through a transient or an alias,
\* and no request context holds the state of another.
RequestStateIsContained ==
    /\ \A t \in Tokens : \A v \in singletons[t] : v.holds = {}
    /\ \A c \in Contexts, t \in Tokens : \A v \in instances[c][t] : v.holds \subseteq {c}

\* A resolution returns a value of the provider that the asking module sees
\* under the token, or one the application placed in the context. The code
\* does not keep this: a request context caches by the token alone, so a
\* module gets the instance of another module's provider of the same token.
ProvidersStayLocal ==
    \A a \in answer :
        \/ a.value.module = Nobody
        \/ \E r \in FindRegisteredProvider(a.token, a.asker) :
             \/ r.provider.kind = "existing"
             \/ a.value.module = r.module /\ a.value.token = r.token
=============================================================================
