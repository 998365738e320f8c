--------------------------- MODULE InformerFactory ---------------------------
(***************************************************************************)
(* The generated shared informer factory: which informers it has made and  *)
(* which it has started.  KubeStellar's factory comes from the same        *)
(* generator.  Shutdown is never called, and neither the namespace nor the *)
(* tweaks of a list are set.                                               *)
(***************************************************************************)

\* Values of sharedInformerFactory for informers of the given kinds.
Factories(kinds) == [informers : SUBSET kinds, started : SUBSET kinds]

NewSharedInformerFactory == [informers |-> {}, started |-> {}]

\* One informer for each kind, however often it is asked for.
InformerFor(factory, kind) == [factory EXCEPT !.informers = @ \cup {kind}]

\* An informer that is asked for later would need another Start.
Start(factory) == [factory EXCEPT !.started = factory.informers]
=============================================================================
