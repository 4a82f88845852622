---------------------------- MODULE MCContainers ----------------------------
(***************************************************************************)
(* Containers and tools that do not meet, in one model: each behaviour is  *)
(* one of the part that the first state chooses.                           *)
(***************************************************************************)
EXTENDS SmartObjectPool, PoolPointers, SmallContainers, ConfigStore, EntityText, PoolRanges, Images, TLC

CONSTANTS t1, t2

VARIABLE part

\* The threads differ in nothing but their names.
ThreadPerms == Permutations({t1, t2})

\* One entry of the pool is used again and again, the other once.
Versions == [e \in Entries |-> IF e = <<1, 1>> THEN 4 ELSE 1]

TwoNames == <<"a", "b">>
TwoUserFiles == {<<>>, <<<<"b", "junk">>, <<"a", "two">>>>}
DefaultNames == <<<<"b", "one">>>>
StringAndNumber == [n \in {"a", "b"} |-> IF n = "a" THEN "string" ELSE "number"]
AllOne == [n \in {"a", "b"} |-> "one"]

\* A few texts of entities: definitions that build on each other in any order, an include, instances.
Item(c, x) == [class |-> c, is |-> x]
I(k) == [form |-> "single", items |-> <<Item("whole", k)>>]
Is(s) == [form |-> "list", items |-> [k \in DOMAIN s |-> Item("whole", s[k])]]
One(c, x) == [form |-> "single", items |-> <<Item(c, x)>>]
Var(p, v) == [prop |-> p, value |-> v]
Comp(t, r, vs) == [type |-> t, replace |-> r, vars |-> vs]
Def(n, s, cs) == [kind |-> "define", name |-> n, super |-> s, comps |-> cs]
Inst(t, n, p, o) == [kind |-> "instance", type |-> t, name |-> n, position |-> p, orientation |-> o]
Incl(f) == [kind |-> "include", file |-> f]
Prop(n, t, w) == [name |-> n, type |-> t, writable |-> w]
TextElements ==
  {Def("a", NoName, <<Comp("walker", FALSE, <<Var("speed", I(1)), Var("way", Is(<<2>>))>>)>>),
   Def("b", "a", <<Comp("walker", FALSE, <<Var("speed", Is(<<>>)), Var("style", One("text", "x"))>>)>>),
   Def("b", "a", <<Comp("walker", TRUE, <<Var("turn", [form |-> "list", items |-> <<Item("turn", <<"x", 90>>)>>])>>),
                   Comp("walker", FALSE, <<Var("speed", I(1))>>)>>),
   Def("c", "b", <<Comp("light", FALSE, <<>>), Comp("walker", FALSE, <<Var("speed", I(2))>>)>>),
   Def("c", "b", <<Comp("light", FALSE, <<Var("on", I(2))>>)>>),
   Def("d", NoName, <<Comp("walker", FALSE, <<Var("speed", One("power", 1))>>)>>),
   Def("c", "a", <<Comp("engine", FALSE, <<>>)>>),
   Inst("b", "n", Is(<<1>>), Is(<<>>)),
   Inst("c", NoName, One("entity", "n"), Is(<<1>>)),
   Inst("c", "n", Is(<<>>), One("entity", "n")),
   Incl("library"), Incl("lost")}
TextDocuments ==
  {[f \in {"main", "library"} |-> IF f = "main" THEN m ELSE l] :
     m \in UNION {[1 .. n -> TextElements] : n \in 1 .. 2},
     l \in {<<Def("a", NoName, <<Comp("walker", FALSE, <<Var("speed", I(1))>>)>>), Inst("a", "n", Is(<<2, 2>>), Is(<<1, 0, 0, 1>>))>>}}
TextProperties ==
  [t \in {"walker", "light"} |->
     IF t = "walker" THEN <<Prop("speed", "integer", TRUE), Prop("way", "vector", TRUE), Prop("turn", "quaternion", TRUE)>>
     ELSE <<Prop("on", "bool", FALSE)>>]

\* A picture with all levels, a layered one and cubes.
Shape(kind, aspect, extent, layers, full, pre, queued) ==
  [kind |-> kind, aspect |-> aspect, extent |-> extent, layers |-> layers,
   full |-> full, preinitialized |-> pre, queued |-> queued]
Pictures ==
  {Shape(<<"2d", FALSE>>, "color", <<3, 2, 1>>, 1, TRUE, FALSE, TRUE),
   Shape(<<"1d", TRUE>>, "color", <<2, 1, 1>>, 2, FALSE, TRUE, FALSE),
   Shape(<<"cube", TRUE>>, "depth_stencil", <<1, 1, 1>>, 1, FALSE, FALSE, TRUE)}

smallVars == <<ptrVars, daVars, padVars, slVars, spVars>>
toolVars == <<smallVars, csVars, etVars, prVars, imVars>>

ToolsInit ==
  /\ part \in {"smart pool", "pointers", "dynamic array", "pads", "slots", "simple pool", "config", "text", "ranges", "images"}
  /\ Init
  /\ PtrInit /\ DaInit /\ PadInit /\ SlInit /\ SpInit /\ CsInit /\ EtInit /\ (part # "config" => csUserFile = <<>>)
  /\ ImInit
  /\ PrInit /\ (part # "ranges" => prMode = "ranges" /\ Ascending)

ToolsNext ==
  /\ UNCHANGED part
  /\ \/ part = "smart pool" /\ Next /\ UNCHANGED toolVars
     \/ part = "config" /\ CsNext /\ UNCHANGED <<vars, smallVars, etVars, prVars, imVars>>
     \/ part = "text" /\ EtNext /\ UNCHANGED <<vars, smallVars, csVars, prVars, imVars>>
     \/ part = "ranges" /\ PrNext /\ UNCHANGED <<vars, smallVars, csVars, etVars, imVars>>
     \/ part = "images" /\ ImNext /\ UNCHANGED <<vars, smallVars, csVars, etVars, prVars>>
     \/ /\ UNCHANGED <<vars, csVars, etVars, prVars, imVars>>
        /\ \/ part = "pointers" /\ PtrNext /\ UNCHANGED <<daVars, padVars, slVars, spVars>>
           \/ part = "dynamic array" /\ DaNext /\ UNCHANGED <<ptrVars, padVars, slVars, spVars>>
           \/ part = "pads" /\ PadNext /\ UNCHANGED <<ptrVars, daVars, slVars, spVars>>
           \/ part = "slots" /\ SlNext /\ UNCHANGED <<ptrVars, daVars, padVars, spVars>>
           \/ part = "simple pool" /\ SpNext /\ UNCHANGED <<ptrVars, daVars, padVars, slVars>>

ToolsSpec == ToolsInit /\ [][ToolsNext]_<<part, vars, toolVars>>

\* Arrays, pads, slots and the simple pool; ranges of a pool that are divided among tasks; images, their
\* views and layouts. Each is asked in its own part: in the others its state does not change.
ArraysAndImagesSafe ==
  CASE part = "images" -> ImagesSafe
    [] part = "ranges" -> RangesSafe
    [] part \in {"dynamic array", "pads", "slots", "simple pool"} -> SmallContainersSafe
    [] OTHER -> TRUE
=============================================================================
