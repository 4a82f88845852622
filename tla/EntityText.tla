----------------------------- MODULE EntityText -----------------------------
(***************************************************************************)
(* The entity template language: a file is a sequence of includes, entity  *)
(* definitions and entity instances. The back end goes through it twice,   *)
(* first for the definitions, each of which becomes a configuration built  *)
(* over a copy of its super configuration, then for the instances. An      *)
(* exception ends the load where it happens. A document is its syntax      *)
(* trees with the values still to be read: of the grammar only what        *)
(* decides the kind of a value is here.                                    *)
(***************************************************************************)
EXTENDS Integers, Sequences, FiniteSets, SequencesExt

CONSTANTS
  Documents,        \* functions from names of files to their elements; "main" is loaded
  Properties,       \* for each component type, its properties in order
  UnboundTypes,     \* component types that take values for properties they do not have
  Lowest, Highest,  \* the bounds of the integral properties
  MaxInstances

ASSUME EntityTextAssumption ==
  /\ \A d \in Documents : "main" \in DOMAIN d
  /\ Lowest <= 0 /\ 0 <= Highest
  /\ MaxInstances \in Nat

NoName == ""
Identity == <<1, 0, 0, 0>>

VARIABLES
  etText,      \* the document that is loaded
  etPass,      \* "idle", "definitions" or "instances"
  etStack,     \* files that are processed, each with the elements done
  etWork,      \* the definition that is processed
  etConfigs,   \* entity_configurations
  etOrder,     \* definitions in the order in which they were added
  etEntities,  \* created entities with their parts
  etStranded,  \* entities whose components could not be made
  etNamed      \* names of entities

etVars == <<etText, etPass, etStack, etWork, etConfigs, etOrder, etEntities, etStranded, etNamed>>

NoWork == [def |-> <<>>, comps |-> <<>>, at |-> <<0, 0>>]

EtInit ==
  /\ etText = <<>> /\ etPass = "idle" /\ etStack = <<>> /\ etWork = NoWork
  /\ etConfigs = <<>> /\ etOrder = <<>>
  /\ etEntities = <<>> /\ etStranded = 0 /\ etNamed = <<>>

(***************************************************************************)
(* Values: a value of the text has a kind and a content, a property a type *)
(***************************************************************************)

\* variable_value of the grammar: a literal has a form and items of some classes; the first alternative that
\* matches decides, and a whole number that goes on with an exponent matches none to its end.
Unparsed == [kind |-> "none"]

Parsed(l) ==
  LET of(classes) == \A k \in DOMAIN l.items : l.items[k].class \in classes
      all == [k \in DOMAIN l.items |-> l.items[k].is]
      read(kind, is) == [kind |-> kind, is |-> is]
  IN  CASE l.form = "list" /\ of({"whole"}) -> read("ints", all)
        [] l.form = "list" /\ ~of({"whole"}) /\ of({"whole", "decimal", "power"}) -> read("floats", all)
        [] l.form = "list" /\ all # <<>> /\ of({"text"}) -> read("strings", all)
        [] l.form = "list" /\ all # <<>> /\ of({"turn"}) -> read("rotations", all)
        [] l.form = "single" /\ of({"whole"}) -> read("int", all[1])
        [] l.form = "single" /\ of({"decimal"}) -> read("float", all[1])
        [] l.form = "single" /\ of({"text"}) -> read("string", all[1])
        [] l.form = "single" /\ of({"marker"}) -> read("marker", all[1])
        [] l.form = "single" /\ of({"entity"}) -> read("reference", all[1])
        [] OTHER -> Unparsed

\* A parameter of an instance is a list, a marker or a reference.
ParsedParam(l) == IF Parsed(l).kind \in {"int", "float", "string", "strings"} THEN Unparsed ELSE Parsed(l)

\* A file is parsed as a whole before any of it is processed.
Readable(elements) ==
  \A e \in ToSet(elements) :
    /\ e.kind = "define" => \A c \in ToSet(e.comps) : \A v \in ToSet(c.vars) : Parsed(v.value) # Unparsed
    /\ e.kind = "instance" => ParsedParam(e.position) # Unparsed /\ ParsedParam(e.orientation) # Unparsed

\* ast_value_mapper: the types a kind of value can be mapped to.
Mappers == [int |-> {"bool", "integer", "float"}, float |-> {"float"}, string |-> {"string"},
            strings |-> {"strings"}, floats |-> {"float", "vector", "quaternion"},
            ints |-> {"bool", "integer", "float", "integers", "vector", "quaternion"},
            rotations |-> {"quaternion"}, reference |-> {"reference"}, marker |-> {}]

\* checked_numeric_conversion; every number of a text fits a float.
Fits(type, x) == type \in {"integer", "integers"} => x \in Lowest .. Highest

\* Vectors have two places here; what the list does not give is zero.
Padded(s, n) == [k \in 1 .. n |-> IF k \in DOMAIN s THEN s[k] ELSE 0]

\* A list as scalar is its first element; as quaternion an angle and an axis.
FirstOf(s, n) == [k \in DOMAIN s \cap (1 .. n) |-> s[k]]
Scalars(v) == IF v.kind \in {"ints", "floats"} THEN FirstOf(v.is, 1) ELSE <<v.is>>

Used(v, type) ==
  IF type \in {"vector", "integers"} THEN FirstOf(v.is, 2) ELSE Scalars(v)

Convertible(v, type) ==
  /\ type \in Mappers[v.kind]
  /\ CASE type = "quaternion" -> v.kind = "rotations" \/ Len(v.is) >= 4
       [] type \in {"integer", "integers"} -> \A k \in DOMAIN Used(v, type) : Fits(type, Used(v, type)[k])
       [] OTHER -> TRUE

Converted(v, type) ==
  CASE type \in {"vector", "integers"} -> Padded(Used(v, type), 2)
    [] type \in {"integer", "float"} -> Padded(Scalars(v), 1)[1]
    [] type = "bool" -> Padded(Scalars(v), 1)[1] # 0
    [] type = "quaternion" /\ v.kind # "rotations" -> SubSeq(v.is, 1, 4)
    [] OTHER -> v.is

(***************************************************************************)
(* Configurations: per component its type, its assignments and the values  *)
(* that belong to no property                                              *)
(***************************************************************************)

PropertyOf(t, p) == SelectSeq(Properties[t], LAMBDA q : q.name = p)
IsBound(t, p) == PropertyOf(t, p) # <<>>
TypeOfProperty(t, p) == PropertyOf(t, p)[1].type

FreshComponent(t) == [type |-> t, assigned |-> <<>>, unbound |-> <<>>]

\* The copy takes the assignments; unbound_property_values_ stay empty.
CopyComponent(c) == [c EXCEPT !.unbound = <<>>]
MutantCopyComponents(cs) == [k \in DOMAIN cs |-> FreshComponent(cs[k].type)]
CopyComponents(cs) == [k \in DOMAIN cs |-> CopyComponent(cs[k])]

PlacesOf(cs, t) == {k \in DOMAIN cs : cs[k].type = t}

\* make_assignment where the property exists: parse over a found or a new assignment.
WithAssigned(c, p, x) ==
  LET old == {k \in DOMAIN c.assigned : c.assigned[k].prop = p}
      new == [prop |-> p, is |-> x]
  IN  IF old = {} THEN [c EXCEPT !.assigned = Append(@, new)]
      ELSE [c EXCEPT !.assigned = [@ EXCEPT ![CHOOSE k \in old : TRUE] = new]]

WithUnbound(c, p, v) ==
  [c EXCEPT !.unbound = [q \in DOMAIN @ \cup {p} |-> IF q = p THEN v ELSE @[q]]]

(***************************************************************************)
(* Loading                                                                 *)
(***************************************************************************)

Top == etStack[Len(etStack)]
Elements == etText[Top.file]
Element == Elements[Top.done + 1]
AtElement(kind) == etStack # <<>> /\ Top.done < Len(Elements) /\ Element.kind = kind

Passed == [etStack EXCEPT ![Len(etStack)].done = @ + 1]
Frame(file) == [file |-> file, done |-> 0]
Working == etWork.at # <<0, 0>>

LoadFile ==
  /\ etPass = "idle" /\ Len(etEntities) + etStranded < MaxInstances
  /\ \E d \in Documents :
       \/ Readable(d["main"]) /\ etText' = d /\ etPass' = "definitions" /\ etStack' = <<Frame("main")>>
       \/ ~Readable(d["main"]) /\ UNCHANGED <<etText, etPass, etStack>>
  /\ UNCHANGED <<etWork, etConfigs, etOrder, etEntities, etStranded, etNamed>>

\* What every exception comes to.
EtThrows ==
  /\ etPass' = "idle" /\ etStack' = <<>> /\ etWork' = NoWork /\ etText' = <<>>

\* An include processes the other file in the same pass; one that cannot be read throws.
Include ==
  /\ AtElement("include") /\ ~Working
  /\ IF Element.file \in DOMAIN etText /\ Readable(etText[Element.file])
     THEN etStack' = Append(Passed, Frame(Element.file)) /\ UNCHANGED <<etPass, etWork, etText>>
     ELSE EtThrows
  /\ UNCHANGED <<etConfigs, etOrder, etEntities, etStranded, etNamed>>

\* Each pass steps over the elements of the other.
StepOver ==
  /\ \/ etPass = "definitions" /\ AtElement("instance")
     \/ etPass = "instances" /\ AtElement("define")
  /\ etStack' = Passed
  /\ UNCHANGED <<etText, etPass, etWork, etConfigs, etOrder, etEntities, etStranded, etNamed>>

EndOfFile ==
  /\ etStack # <<>> /\ Top.done = Len(Elements)
  /\ IF Len(etStack) > 1
     THEN etStack' = SubSeq(etStack, 1, Len(etStack) - 1) /\ UNCHANGED <<etPass, etText>>
     ELSE IF etPass = "definitions"
     THEN etStack' = <<Frame("main")>> /\ etPass' = "instances" /\ UNCHANGED etText
     ELSE etStack' = <<>> /\ etPass' = "idle" /\ etText' = <<>>
  /\ UNCHANGED <<etWork, etConfigs, etOrder, etEntities, etStranded, etNamed>>

(***************************************************************************)
(* A definition: the copy of the super configuration, then the components  *)
(* and their variables in order, then the registration                     *)
(***************************************************************************)

BeginDefinition ==
  /\ etPass = "definitions" /\ AtElement("define") /\ ~Working
  /\ LET super == Element.super IN
     IF super # NoName /\ super \notin DOMAIN etConfigs THEN EtThrows
     ELSE /\ etWork' = [def |-> Element, at |-> <<1, 0>>,
                        comps |-> IF super = NoName THEN <<>> ELSE CopyComponents(etConfigs[super])]
          /\ UNCHANGED <<etPass, etStack, etText>>
  /\ UNCHANGED <<etConfigs, etOrder, etEntities, etStranded, etNamed>>

WorkComponent == etWork.def.comps[etWork.at[1]]
MoreComponents == Working /\ etWork.at[1] <= Len(etWork.def.comps)

\* The component is found, replaced or added, if its type is known.
BeginComponent ==
  /\ MoreComponents /\ etWork.at[2] = 0
  /\ LET t == WorkComponent.type
         found == PlacesOf(etWork.comps, t)
         then(cs) == /\ etWork' = [etWork EXCEPT !.comps = cs, !.at = <<@[1], 1>>]
                     /\ UNCHANGED <<etPass, etStack, etText>>
     IN  \/ found # {} /\ ~WorkComponent.replace /\ then(etWork.comps)
         \/ /\ found # {} /\ WorkComponent.replace
            /\ then([etWork.comps EXCEPT ![CHOOSE k \in found : TRUE] = FreshComponent(t)])
         \/ found = {} /\ t \in DOMAIN Properties /\ then(Append(etWork.comps, FreshComponent(t)))
         \/ found = {} /\ t \notin DOMAIN Properties /\ EtThrows
  /\ UNCHANGED <<etConfigs, etOrder, etEntities, etStranded, etNamed>>

\* component_configuration::make_assignment for the next variable.
MakeAssignment ==
  /\ MoreComponents /\ etWork.at[2] \in 1 .. Len(WorkComponent.vars)
  /\ LET t == WorkComponent.type
         var == WorkComponent.vars[etWork.at[2]]
         value == Parsed(var.value)
         k == CHOOSE i \in PlacesOf(etWork.comps, t) : TRUE
         then(c) == /\ etWork' = [etWork EXCEPT !.comps[k] = c, !.at[2] = @ + 1]
                    /\ UNCHANGED <<etPass, etStack, etText>>
     IN  \/ /\ IsBound(t, var.prop) /\ Convertible(value, TypeOfProperty(t, var.prop))
            /\ then(WithAssigned(etWork.comps[k], var.prop, Converted(value, TypeOfProperty(t, var.prop))))
         \/ ~IsBound(t, var.prop) /\ t \in UnboundTypes /\ then(WithUnbound(etWork.comps[k], var.prop, value))
         \/ /\ IF IsBound(t, var.prop) THEN ~Convertible(value, TypeOfProperty(t, var.prop))
               ELSE t \notin UnboundTypes
            /\ EtThrows
  /\ UNCHANGED <<etConfigs, etOrder, etEntities, etStranded, etNamed>>

EndComponent ==
  /\ MoreComponents /\ etWork.at[2] = Len(WorkComponent.vars) + 1
  /\ etWork' = [etWork EXCEPT !.at = <<@[1] + 1, 0>>]
  /\ UNCHANGED <<etText, etPass, etStack, etConfigs, etOrder, etEntities, etStranded, etNamed>>

\* add_entity_configuration: a name that is taken keeps its configuration.
AddConfiguration ==
  /\ Working /\ ~MoreComponents
  /\ LET n == etWork.def.name IN
     IF n \in DOMAIN etConfigs THEN UNCHANGED <<etConfigs, etOrder>>
     ELSE /\ etConfigs' = [m \in DOMAIN etConfigs \cup {n} |->
                             IF m = n THEN etWork.comps ELSE etConfigs[m]]
          /\ etOrder' = Append(etOrder, etWork.def)
  /\ etWork' = NoWork /\ etStack' = Passed
  /\ UNCHANGED <<etText, etPass, etEntities, etStranded, etNamed>>

(***************************************************************************)
(* An instance                                                             *)
(***************************************************************************)

\* Properties without setter refuse an assignment.
Refused(cs) ==
  \E k \in DOMAIN cs : \E a \in DOMAIN cs[k].assigned :
    ~PropertyOf(cs[k].type, cs[k].assigned[a].prop)[1].writable

\* The values a component has after its assignments, by property.
ValuesIn(c) ==
  [a \in {c.assigned[k].prop : k \in DOMAIN c.assigned} |->
     c.assigned[CHOOSE k \in DOMAIN c.assigned : c.assigned[k].prop = a].is]

Made(type, cs) == [type |-> type, comps |-> [k \in DOMAIN cs |-> [type |-> cs[k].type, has |-> ValuesIn(cs[k])]],
                   position |-> <<0, 0, 0>>, orientation |-> Identity]

\* ast_position_visitor and ast_orientation_visitor: a value, or <<>> for an exception.
Referred(v, entities) ==
  IF v.is \in DOMAIN etNamed THEN <<entities[etNamed[v.is]]>> ELSE <<>>

PositionOf(v, entities) ==
  CASE v.kind \in {"ints", "floats"} -> <<Padded(v.is, 3)>>
    [] v.kind = "reference" -> [k \in DOMAIN Referred(v, entities) |-> Referred(v, entities)[k].position]
    [] OTHER -> <<>>

OrientationOf(v, entities) ==
  CASE v.kind \in {"ints", "floats"} /\ v.is = <<>> -> <<Identity>>
    [] v.kind \in {"ints", "floats"} /\ Len(v.is) >= 4 -> <<SubSeq(v.is, 1, 4)>>
    [] v.kind = "rotations" -> <<v.is>>
    [] v.kind = "reference" -> [k \in DOMAIN Referred(v, entities) |-> Referred(v, entities)[k].orientation]
    [] OTHER -> <<>>

\* create_entity throws before the entity is known by its id.
CreateRefused ==
  /\ etPass = "instances" /\ AtElement("instance")
  /\ \/ Element.type \notin DOMAIN etConfigs /\ UNCHANGED etStranded
     \/ /\ Element.type \in DOMAIN etConfigs
        /\ Refused(etConfigs[Element.type])
        /\ etStranded' = etStranded + 1
  /\ EtThrows
  /\ UNCHANGED <<etConfigs, etOrder, etEntities, etNamed>>

\* The entity is created, then its position is set, then its orientation, then it is named.
CreateInstance ==
  /\ etPass = "instances" /\ AtElement("instance")
  /\ Element.type \in DOMAIN etConfigs /\ ~Refused(etConfigs[Element.type])
  /\ LET made == Made(Element.type, etConfigs[Element.type])
         pos == PositionOf(ParsedParam(Element.position), etEntities)
         or == OrientationOf(ParsedParam(Element.orientation), etEntities)
         placed == IF pos = <<>> THEN made ELSE [made EXCEPT !.position = pos[1]]
         turned == IF pos = <<>> \/ or = <<>> THEN placed ELSE [placed EXCEPT !.orientation = or[1]]
     IN  /\ etEntities' = Append(etEntities, turned)
         /\ IF pos = <<>> \/ or = <<>> THEN EtThrows /\ UNCHANGED etNamed
            ELSE /\ etStack' = Passed /\ UNCHANGED <<etPass, etWork, etText>>
                 /\ etNamed' = IF Element.name = NoName THEN etNamed
                               ELSE [n \in DOMAIN etNamed \cup {Element.name} |->
                                       IF n = Element.name THEN Len(etEntities') ELSE etNamed[n]]
  /\ UNCHANGED <<etConfigs, etOrder, etStranded>>

\* clear_entities, with or without entity_configurations.
ClearTextEntities ==
  /\ etPass = "idle" /\ Len(etEntities) + etStranded > 0
  /\ etEntities' = <<>> /\ etStranded' = 0 /\ etNamed' = <<>>
  /\ \/ UNCHANGED <<etConfigs, etOrder>>
     \/ etConfigs' = <<>> /\ etOrder' = <<>>
  /\ UNCHANGED <<etText, etPass, etStack, etWork>>

EtNext ==
  \/ LoadFile \/ Include \/ StepOver \/ EndOfFile
  \/ BeginDefinition \/ BeginComponent \/ MakeAssignment \/ EndComponent \/ AddConfiguration
  \/ CreateRefused \/ CreateInstance \/ ClearTextEntities

(***************************************************************************)
(* What a definition means, read off the text                              *)
(***************************************************************************)

\* PlacesOf of a definition that give property p of component t a value, and that replace t.
Givers(d, t, p) ==
  {<<i, j>> \in (DOMAIN d.comps) \X (1 .. 9) :
     d.comps[i].type = t /\ j \in DOMAIN d.comps[i].vars /\ d.comps[i].vars[j].prop = p}
Replacers(d, t) == {i \in DOMAIN d.comps : d.comps[i].type = t /\ d.comps[i].replace}

LastGiver(d, t, p) ==
  CHOOSE a \in Givers(d, t, p) :
    \A b \in Givers(d, t, p) : b[1] < a[1] \/ (b[1] = a[1] /\ b[2] <= a[2])

OwnValue(d, t, p) ==
  {Parsed(d.comps[a[1]].vars[a[2]].value) : a \in {b \in Givers(d, t, p) :
     b = LastGiver(d, t, p) /\ \A i \in Replacers(d, t) : i <= b[1]}}

PlaceOfName(n) == CHOOSE k \in DOMAIN etOrder : etOrder[k].name = n

\* For the k-th configuration the value of a property: its own, else the one of its super, else none.
Meaning(t, p) ==
  LET m[k \in DOMAIN etOrder] ==
        LET d == etOrder[k] IN
        IF OwnValue(d, t, p) # {} THEN OwnValue(d, t, p)
        ELSE IF Replacers(d, t) # {} \/ d.super = NoName THEN {}
        ELSE m[PlaceOfName(d.super)]
  IN  m

\* The configurations say what the text says: a property has the value of the last variable that gives it
\* one, in the definition or in those it inherits from, unless the component was replaced after that.
ConfigsMeanTheText ==
  \A k \in DOMAIN etOrder : \A c \in ToSet(etConfigs[etOrder[k].name]) :
    \A q \in ToSet(Properties[c.type]) :
      LET m == Meaning(c.type, q.name)[k] IN
      IF m = {} THEN q.name \notin DOMAIN ValuesIn(c)
      ELSE q.name \in DOMAIN ValuesIn(c) /\ m = {v \in m : ValuesIn(c)[q.name] = Converted(v, q.type)}

\* A component has a place in a configuration if the definition or one it inherits from names it, and one.
ComponentsInherited ==
  \A k \in DOMAIN etOrder :
    LET cs == etConfigs[etOrder[k].name]
        super == IF etOrder[k].super = NoName THEN <<>> ELSE etConfigs[etOrder[k].super]
    IN  /\ {c.type : c \in ToSet(cs)} = {c.type : c \in ToSet(etOrder[k].comps) \cup ToSet(super)}
        /\ Cardinality({c.type : c \in ToSet(cs)}) = Len(cs)

\* An entity has what its configuration said, and a name belongs to an entity that was placed.
EntitiesAsConfigured ==
  /\ \A e \in ToSet(etEntities) : e.type \in DOMAIN etConfigs /\ e.comps = Made(e.type, etConfigs[e.type]).comps
  /\ \A n \in DOMAIN etNamed : etNamed[n] \in DOMAIN etEntities

\* No instance is made before every definition of the files it may use has been read.
DefinitionsFirst ==
  etPass = "instances" =>
    \A f \in {"main"} \cup {s.file : s \in ToSet(etStack)} : \A e \in ToSet(etText[f]) :
      e.kind = "define" => e.name \in DOMAIN etConfigs

EntityTextSafe == ConfigsMeanTheText /\ ComponentsInherited /\ EntitiesAsConfigured /\ DefinitionsFirst
=============================================================================
