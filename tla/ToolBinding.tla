----------------------------- MODULE ToolBinding -----------------------------
(***************************************************************************)
(* How the arguments of a tool call reach the function, as components/     *)
(* tool.py passes them.  A signature is a sequence of parameters, each     *)
(* with its name, its kind ("positional" or "keyword": positional or       *)
(* keyword, or keyword only), whether it has a default, and whether it is  *)
(* injectable: annotated BeforeToolCallCtx, or a bare ctx.  Positional-    *)
(* only and variadic parameters are left out.                              *)
(***************************************************************************)
EXTENDS Naturals, Sequences, FiniteSets, TLC

LOCAL INSTANCE SequencesExt

CONSTANTS
  Ctx,      \* the BeforeToolCallCtx of the call
  Default,  \* the value of a parameter that is not passed
  TypeError \* what a call that does not fit raises

Names(params) == {p.name : p \in ToSet(params)}
Injectable(params) == Names(SelectSeq(params, LAMBDA p : p.injectable))

\* Mutant of SignatureMetadata: the injectable parameters are listed as well.
SignatureMetadataWhole(sig) == sig

\* _signature_metadata(): what the descriptor tells of the function.
SignatureMetadata(sig) == SelectSeq(sig, LAMBDA p : ~p.injectable)

Required(params) == Names(SelectSeq(params, LAMBDA p : ~p.default))

\* Signature.bind(): which parameter each argument is for.
Bind(params, args, kwargs) ==
  LET positional == SelectSeq(params, LAMBDA p : p.kind = "positional")
      given == SubSeq(positional, 1, IF Len(args) < Len(positional) THEN Len(args)
                                     ELSE Len(positional))
      passed == Names(given) \cup DOMAIN kwargs
  IN IF \/ Len(args) > Len(positional)
        \/ Names(given) \cap DOMAIN kwargs # {}
        \/ ~(DOMAIN kwargs \subseteq Names(params))
        \/ ~(Required(params) \subseteq passed)
     THEN TypeError
     ELSE [n \in passed |->
             IF n \in DOMAIN kwargs THEN kwargs[n]
             ELSE args[CHOOSE i \in DOMAIN given : given[i].name = n]]

\* _inject(), and then fn(**kwargs): the value of every parameter.
Invoked(sig, kwargs) ==
  LET given == [n \in Injectable(sig) |-> Ctx] @@ kwargs
  IN IF \/ ~(DOMAIN given \subseteq Names(sig))
        \/ ~(Required(sig) \subseteq DOMAIN given)
     THEN TypeError
     ELSE [n \in Names(sig) |-> IF n \in DOMAIN given THEN given[n] ELSE Default]

\* _RunToolProxy: bind to the signature of the descriptor, invoke the function
\* its source has.
Proxied(declared, sig, args, kwargs) ==
  LET bound == Bind(SignatureMetadata(declared), args, kwargs)
  IN IF bound = TypeError THEN TypeError ELSE Invoked(sig, bound)
==============================================================================
