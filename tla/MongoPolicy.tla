----------------------------- MODULE MongoPolicy -----------------------------
(***************************************************************************)
(* The command policy of the MongoDB tunnel: which commands, queries,      *)
(* expressions, pipelines and updates pass, and which collections of an    *)
(* accepted command are then looked up (internal/dbproxy/mongodb_policy.go). *)
(*                                                                         *)
(* The policy is a set of functions that call each other on the parts of a *)
(* document.  A behaviour here is one path down one command: at each step  *)
(* `call' is the function that checks the value the path has come to, and  *)
(* the depth it was given; `read' is how a mongod reads the same value     *)
(* (external); `walk' is what mongoCommandNamespaces does with it.  Every  *)
(* value that the call lets pass is tried, and every part of it.  Only     *)
(* what a value says by itself is needed: its kind, and its keys in their  *)
(* order.  What the code asks of a part is asked when the path is there.   *)
(*                                                                         *)
(* One operator stands for each class the code treats alike: $abs for      *)
(* those with one argument, $sum for accumulators, $add for lists of       *)
(* arguments, $eq for pairs and comparisons, $limit for stages with a      *)
(* number; likewise one argument of a command for each kind of flag or     *)
(* number.  A key that is in no table, such as $where, $function or $out,  *)
(* is one the code does not list either.                                   *)
(***************************************************************************)
EXTENDS Integers, Sequences, FiniteSets

CONSTANTS
  MaxDepth,   \* 64 in the code
  Nodes       \* the values a command may hold anywhere

\* "coll1", "coll2" and "f" are names; "system" names a system collection,
\* "var" and "badvar" are $$-variables, "code" is a bson.JavaScript.
Strings == {"f", "coll1", "coll2", "system", "var", "badvar"}
Leaves == Strings \cup {"nil", "num", "true", "regex", "code"}

\* A value is a leaf, an array or a document; the parts of an array have no names.
Leaf(kind) == [t |-> kind, k |-> <<>>]
Arr(n) == [t |-> "A", k |-> [i \in 1 .. n |-> "item"]]
Doc(keys) == [t |-> "D", k |-> keys]

ASSUME DepthAssumption == MaxDepth \in Nat
ASSUME NodesAssumption ==
  \A v \in Nodes : \/ v.t \in Leaves /\ v.k = <<>>
                   \/ v.t = "A" /\ v.k \in Seq({"item"})
                   \/ v.t = "D" /\ v.k \in Seq(STRING)

\* The keys that do not start with a $; "f" stands for any field.
FieldNames ==
  {"item", "f", "g", "_id", "and", "name", "type", "from", "as", "localField", "foreignField",
   "let", "pipeline", "coll", "newRoot", "if", "then", "else", "vars", "in", "input",
   "branches", "case", "q", "u", "limit", "multi", "arrayFilters", "hint"}
IsOperator(k) == k \notin FieldNames

KeysOf(v) == {v.k[i] : i \in DOMAIN v.k}
NoDuplicates(v) == Cardinality(KeysOf(v)) = Len(v.k)
HasOperator(v) == v.t = "D" /\ \E k \in KeysOf(v) : IsOperator(k)
OperatorFirst(v) == v.k # <<>> /\ IsOperator(v.k[1])
Fields(v, allowed) == v.t = "D" /\ NoDuplicates(v) /\ KeysOf(v) \subseteq allowed
FieldDoc(v) == v.t = "D" /\ NoDuplicates(v) /\ ~HasOperator(v)
NonEmpty(v) == v.t = "A" /\ v.k # <<>>
Single(v) == v.t = "D" /\ Len(v.k) = 1
CollectionOK(v) == v.t \in {"f", "coll1", "coll2"}
FieldOK(v) == v.t \in {"f", "coll1", "coll2", "system"}

-----------------------------------------------------------------------------
(* The tables of the policy.                                               *)

Commands == {"ping", "find", "aggregate", "distinct", "getMore", "insert", "update",
             "delete", "findAndModify", "listCollections"}
OnCollections == Commands \ {"ping", "getMore", "listCollections"}

Takes(m) ==
  CASE m = "find" -> {"filter", "projection", "sort", "limit", "hint", "let"}
    [] m = "aggregate" -> {"pipeline", "cursor", "hint", "let"}
    [] m = "distinct" -> {"key", "query"}
    [] m = "getMore" -> {"collection", "batchSize"}
    [] m = "insert" -> {"documents", "ordered"}
    [] m = "update" -> {"updates", "ordered", "let"}
    [] m = "delete" -> {"deletes", "ordered", "let"}
    [] m = "findAndModify" -> {"query", "sort", "remove", "update", "fields",
                               "arrayFilters", "let", "hint"}
    [] m = "listCollections" -> {"filter", "nameOnly", "cursor"}
    [] OTHER -> {}
Needs(m) ==
  CASE m = "aggregate" -> {"pipeline", "cursor"}
    [] m = "distinct" -> {"key"}
    [] m = "getMore" -> {"collection"}
    [] m = "insert" -> {"documents"}
    [] m = "update" -> {"updates"}
    [] m = "delete" -> {"deletes"}
    [] OTHER -> {}

LogicKeys == {"$and", "$or"}
CondKeys == {"$eq", "$in", "$exists", "$regex", "$options", "$all", "$elemMatch", "$not"}
PredicateKeys == {"$eq", "$regex", "$options", "$in"}

\* How many arguments an operator takes, or which fields.
Operators == {"$abs", "$sum", "$add", "$and", "$or", "$eq", "$not", "$in",
              "$cond", "$let", "$map", "$switch", "$count"}
Structured(op, v) == op \in {"$let", "$map", "$switch"} \/ (op = "$cond" /\ v.t # "A")
TakesArgs(op, n) ==
  CASE op = "$add" -> n >= 1
    [] op \in {"$and", "$or"} -> TRUE
    [] op \in {"$eq", "$in"} -> n = 2
    [] op = "$not" -> n = 1
    [] op = "$cond" -> n = 3
Allowed(op) == CASE op = "$cond" -> {"if", "then", "else"}
                 [] op = "$let" -> {"vars", "in"}
                 [] op = "$map" -> {"input", "as", "in"}
                 [] OTHER -> {"branches", "else"}
Required(op) == CASE op = "$map" -> {"input", "in"}
                  [] op = "$switch" -> {"branches"}
                  [] OTHER -> Allowed(op)
Accumulators == {"$sum", "$count"}

Stages == {"$match", "$project", "$set", "$group", "$sort", "$limit", "$unset", "$lookup",
           "$unionWith", "$facet", "$replaceRoot", "$replaceWith"}
UpdateStages == {"$set", "$project", "$unset", "$replaceRoot", "$replaceWith"}
Modifiers == {"$set", "$unset", "$inc", "$pull", "$push", "$bit"}

-----------------------------------------------------------------------------
(* A call: the function, what it was told (a command, an operator, a kind  *)
(* of pipeline), and its depth parameter.  XOK is what the function X asks *)
(* of the value itself, XPart the call it makes on the part under key k.   *)

At(fn, op, depth) == [fn |-> fn, op |-> op, depth |-> depth]
Same(c, fn) == At(fn, "", c.depth)
Deeper(c, fn) == At(fn, "", c.depth + 1)
Is(c, what) == At("Is", what, c.depth)
Data == At("Data", "", 0)   \* the policy looks no further

\* mongoPolicyCommandOK.  Either remove or update is needed, remove being a flag.
CommandOK(c, v) ==
  /\ Len(v.k) >= 2 /\ v.k[1] = c.op
  /\ Fields(v, {c.op, "$db", "maxTimeMS"} \cup Takes(c.op))
  /\ {"$db"} \cup Needs(c.op) \subseteq KeysOf(v)
  /\ c.op = "findAndModify" => KeysOf(v) \cap {"update", "remove"} # {}
CommandPart(c, k) ==
  CASE k = c.op -> IF c.op \in OnCollections THEN Same(c, "Collection") ELSE Is(c, "number")
    [] k = "$db" -> Is(c, "name")
    [] k \in {"filter", "query"} ->
         IF c.op = "listCollections" THEN Same(c, "Listing") ELSE Same(c, "Match")
    [] k \in {"projection", "fields"} -> At("Projection", "find", c.depth)
    [] k = "pipeline" -> At("Pipeline", "aggregate", c.depth)
    [] k \in {"updates", "deletes"} -> At("Writes", k, c.depth)
    [] k = "documents" -> Same(c, "Documents")
    [] k = "update" /\ k # c.op -> Same(c, "Update")
    [] k = "arrayFilters" -> Same(c, "MatchArray")
    [] k = "let" -> Same(c, "Bindings")
    [] k = "collection" -> Same(c, "Collection")
    [] k \in {"sort", "hint"} -> At("Sort", k, c.depth)
    [] k = "key" -> Is(c, "field")
    [] k = "cursor" -> Is(c, "document")
    [] k \in {"ordered", "remove", "nameOnly"} -> Is(c, "flag")
    [] OTHER -> Is(c, "number")

\* mongoPolicyWrites.
WritesOK(c, v) == NonEmpty(v)
WritesPart(c, k) == At("Write", c.op, c.depth)
WriteOK(c, v) ==
  IF c.op = "updates"
  THEN Fields(v, {"q", "u", "multi", "arrayFilters", "hint"}) /\ {"q", "u"} \subseteq KeysOf(v)
  ELSE Fields(v, {"q", "limit", "hint"}) /\ {"q", "limit"} \subseteq KeysOf(v)
WritePart(c, k) ==
  CASE k = "q" -> Same(c, "Match")
    [] k = "u" -> Same(c, "Update")
    [] k = "arrayFilters" -> Same(c, "MatchArray")
    [] k = "hint" -> At("Sort", "hint", c.depth)
    [] k = "multi" -> Is(c, "flag")
    [] OTHER -> Is(c, "number")

\* Variant: any field may be asked about.
ListingOKAnyField(c, v) == c.depth <= MaxDepth /\ v.t = "D" /\ NoDuplicates(v)

\* mongoPolicyMetadataFilter: only these public fields may be asked about.
ListingOK(c, v) == c.depth <= MaxDepth /\ Fields(v, {"name", "type"} \cup LogicKeys)
ListingPart(c, k) == IF k \in LogicKeys THEN Same(c, "Listings") ELSE Same(c, "Predicate")
PredicateOK(c, v) ==
  \/ v.t \in Strings \cup {"regex"}
  \/ /\ v.k # <<>> /\ Fields(v, PredicateKeys)
     /\ "$options" \in KeysOf(v) => "$regex" \in KeysOf(v)
PredicatePart(c, k) ==
  CASE k = "$in" -> Same(c, "Patterns")
    [] k = "$regex" -> Is(c, "pattern")
    [] OTHER -> Is(c, "name")

\* Variant: the members of $and and $or are taken to be as deep as their operator.
MatchArrayPartSameDepth(c, k) == At("Match", "", c.depth - 1)

\* mongoPolicyMatch and mongoPolicyMatchArray.
MatchOK(c, v) ==
  /\ c.depth <= MaxDepth /\ v.t = "D" /\ NoDuplicates(v)
  /\ \A k \in KeysOf(v) : IsOperator(k) => k \in LogicKeys \cup {"$expr"}
MatchPart(c, k) ==
  CASE k \in LogicKeys -> Deeper(c, "MatchArray")
    [] k = "$expr" -> Deeper(c, "Expression")
    [] OTHER -> Deeper(c, "Condition")
MatchArrayPart(c, k) == Deeper(c, "Match")

\* mongoPolicyCondition.  A document with no operator is business data.
ConditionOK(c, v) ==
  /\ c.depth <= MaxDepth
  /\ HasOperator(v) =>
       Fields(v, CondKeys) /\ ("$options" \in KeysOf(v) => "$regex" \in KeysOf(v))
ConditionPart(c, v, k) ==
  IF ~HasOperator(v) \/ k = "$eq" THEN Data
  ELSE CASE k = "$in" -> Is(c, "array")
         [] k = "$exists" -> Is(c, "flag")
         [] k = "$regex" -> Is(c, "pattern")
         [] k = "$options" -> Is(c, "name")
         [] k = "$not" -> Same(c, "NotOperand")
         [] k = "$elemMatch" -> Deeper(c, "ElementMatch")
         [] OTHER -> Same(c, "AllItems")
NotOperandOK(c, v) == v.t = "regex" \/ (v.t = "D" /\ OperatorFirst(v))

\* The items of $all: data, or documents whose only operator is $elemMatch.
AllItemOK(c, v) == HasOperator(v) => v.k = <<"$elemMatch">>
AllItemPart(c, k) == IF k = "$elemMatch" THEN Deeper(c, "ElementMatch") ELSE Data

\* mongoPolicyElementMatch decides by the first key.
HoldsCondition(v) == OperatorFirst(v) /\ v.k[1] \notin LogicKeys \cup {"$expr"}
Element(c, v) == IF HoldsCondition(v) THEN Deeper(c, "Condition") ELSE Deeper(c, "Match")

\* mongoPolicyExpression.
ExpressionOK(c, v) ==
  /\ c.depth <= MaxDepth
  /\ v.t \notin {"badvar", "code"}
  /\ v.t = "D" => NoDuplicates(v) /\ (HasOperator(v) => Single(v))
ExpressionPart(c, v, k) ==
  CASE v.t = "A" -> Deeper(c, "Expression")
    [] v.t # "A" /\ k = "$literal" -> Data
    [] v.t # "A" /\ k # "$literal" ->
         IF IsOperator(k) THEN At("Operator", k, c.depth + 1) ELSE Deeper(c, "Expression")

\* mongoPolicyOperator.
OperatorOK(c, v) ==
  /\ c.depth <= MaxDepth /\ c.op \in Operators
  /\ IF Structured(c.op, v)
     THEN Fields(v, Allowed(c.op)) /\ Required(c.op) \subseteq KeysOf(v)
     ELSE CASE c.op = "$count" -> v = Doc(<<>>)
            [] c.op = "$abs" -> v.t = "A" => Len(v.k) = 1
            [] c.op = "$sum" -> TRUE
            [] OTHER -> v.t = "A" /\ TakesArgs(c.op, Len(v.k))
OperatorPart(c, k) ==
  CASE k = "as" -> Is(c, "variable")
    [] c.op = "$let" /\ k = "vars" -> Deeper(c, "Bindings")
    [] c.op = "$switch" /\ k = "branches" -> Same(c, "Branches")
    [] OTHER -> Deeper(c, "Expression")
BranchOK(c, v) == Len(v.k) = 2 /\ Fields(v, {"case", "then"})

\* mongoPolicyProjection.  $elemMatch has query syntax in the projection of find only.
ProjectionPart(c, k) == At("Projected", c.op, c.depth)
ElementOnly(v) == Single(v) /\ v.k[1] = "$elemMatch"

\* Variants: a stage may hold more than the key that is checked; an update
\* pipeline may hold any stage; a stage may hold nothing.
StageOKFirstKey(c, v) ==
  /\ v.t = "D" /\ Len(v.k) >= 1 /\ v.k[1] \in Stages
  /\ c.op = "update" => v.k[1] \in UpdateStages
StageOKAnyStage(c, v) == Single(v) /\ v.k[1] \in Stages
StageOKEmpty(c, v) ==
  /\ v.t = "D" /\ Len(v.k) <= 1
  /\ \A k \in KeysOf(v) : k \in (IF c.op = "update" THEN UpdateStages ELSE Stages)

\* mongoPolicyPipeline: the whole, and one stage of it.
PipelineOK(c, v) == c.depth <= MaxDepth /\ v.t = "A"
PipelinePart(c, k) == At("Stage", c.op, c.depth)
StageOK(c, v) ==
  /\ Single(v) /\ v.k[1] \in Stages
  /\ c.op = "update" => v.k[1] \in UpdateStages
StagePart(c, k) ==
  CASE k = "$match" -> Deeper(c, "Match")
    [] k \in {"$project", "$set"} -> At("Projection", "stage", c.depth + 1)
    [] k = "$group" -> Same(c, "Group")
    [] k = "$sort" -> At("Sort", "sort", c.depth)
    [] k = "$limit" -> Is(c, "number")
    [] k = "$unset" -> Same(c, "Unset")
    [] k = "$lookup" -> Same(c, "Lookup")
    [] k = "$unionWith" -> Same(c, "Union")
    [] k = "$facet" -> Same(c, "Facet")
    [] k = "$replaceRoot" -> Same(c, "ReplaceRoot")
    [] OTHER -> Deeper(c, "Expression")

GroupOK(c, v) == FieldDoc(v) /\ "_id" \in KeysOf(v)
GroupPart(c, k) == IF k = "_id" THEN Deeper(c, "Expression") ELSE Same(c, "Accumulator")
AccumulatorOK(c, v) == Single(v) /\ v.k[1] \in Accumulators
SortOK(c, v) ==
  \/ FieldDoc(v)
  \/ c.op = "hint" /\ FieldOK(v)
  \/ c.op = "$sort" /\ v.t = "num"

\* A localField or foreignField that is nil counts as one that is missing.
LookupOK(c, v) ==
  /\ Fields(v, {"from", "as", "localField", "foreignField", "let", "pipeline"})
  /\ {"from", "as"} \subseteq KeysOf(v)
  /\ "localField" \in KeysOf(v) <=> "foreignField" \in KeysOf(v)
  /\ KeysOf(v) \cap {"pipeline", "localField"} # {}
LookupPart(c, k) ==
  CASE k = "from" -> Same(c, "Collection")
    [] k = "pipeline" -> At("Pipeline", "aggregate", c.depth + 1)
    [] k = "let" -> Deeper(c, "Bindings")
    [] OTHER -> Is(c, "field")
UnionOK(c, v) == CollectionOK(v) \/ (Fields(v, {"coll", "pipeline"}) /\ "coll" \in KeysOf(v))
UnionPart(c, k) ==
  IF k = "coll" THEN Same(c, "Collection") ELSE At("Pipeline", "aggregate", c.depth + 1)
FacetPart(c, k) == At("Pipeline", "aggregate", c.depth + 1)
ReplaceRootOK(c, v) == Single(v) /\ v.k[1] = "newRoot"

\* mongoPolicyUpdate: a pipeline, modifiers, or a replacement document, which is data.
UpdateOK(c, v) == v.t = "A" \/ (v.t = "D" /\ (HasOperator(v) => Fields(v, Modifiers)))
UpdatePart(c, v, k) == IF HasOperator(v) THEN At("Modifier", k, c.depth) ELSE Data
ModifierPart(c, k) ==
  CASE c.op = "$pull" -> Deeper(c, "Pull")
    [] c.op = "$push" -> Same(c, "Push")
    [] c.op = "$bit" -> Same(c, "Bit")
    [] c.op = "$inc" -> Is(c, "number")
    [] OTHER -> Data

\* A $push operand that holds an operator must be a control document.
PushOK(c, v) ==
  HasOperator(v) => Fields(v, {"$each", "$sort"}) /\ "$each" \in KeysOf(v)
PushPart(c, v, k) ==
  CASE ~HasOperator(v) -> Data
    [] HasOperator(v) /\ k = "$each" -> Is(c, "array")
    [] HasOperator(v) /\ k # "$each" -> At("Sort", "$sort", c.depth)

\* The kinds of a value that is looked at and not into.
IsOK(c, v) ==
  CASE c.op = "number" -> v.t = "num"
    [] c.op = "flag" -> v.t = "true"
    [] c.op = "array" -> v.t = "A"
    [] c.op = "document" -> v.t = "D"
    [] c.op = "name" -> v.t \in Strings
    [] c.op = "pattern" -> v.t \in Strings \cup {"regex"}
    [] c.op = "field" -> FieldOK(v)
    [] c.op = "variable" -> v.t \in {"f", "coll1", "coll2"}

-----------------------------------------------------------------------------
(* The policy as a whole.                                                  *)

Accepts(c, v) ==
  /\ c.fn = "Command" => CommandOK(c, v)
  /\ c.fn = "Documents" => NonEmpty(v)
  /\ c.fn = "Writes" => WritesOK(c, v)
  /\ c.fn = "Write" => WriteOK(c, v)
  /\ c.fn = "Listing" => ListingOK(c, v)
  /\ c.fn = "Listings" => NonEmpty(v)
  /\ c.fn = "Predicate" => PredicateOK(c, v)
  /\ c.fn = "Patterns" => v.t = "A"
  /\ c.fn = "Match" => MatchOK(c, v)
  /\ c.fn = "MatchArray" => NonEmpty(v)
  /\ c.fn = "Condition" => ConditionOK(c, v)
  /\ c.fn = "NotOperand" => NotOperandOK(c, v)
  /\ c.fn = "ElementMatch" => v.t = "D"
  /\ c.fn = "AllItems" => v.t = "A"
  /\ c.fn = "AllItem" => AllItemOK(c, v)
  /\ c.fn = "Expression" => ExpressionOK(c, v)
  /\ c.fn = "Operator" => OperatorOK(c, v)
  /\ c.fn = "Bindings" => FieldDoc(v)
  /\ c.fn = "Branches" => NonEmpty(v)
  /\ c.fn = "Branch" => BranchOK(c, v)
  /\ c.fn = "Projection" => FieldDoc(v)
  /\ c.fn = "Pipeline" => PipelineOK(c, v)
  /\ c.fn = "Stage" => StageOK(c, v)
  /\ c.fn = "Group" => GroupOK(c, v)
  /\ c.fn = "Accumulator" => AccumulatorOK(c, v)
  /\ c.fn = "Sort" => SortOK(c, v)
  /\ c.fn = "Unset" => v.t = "A" \/ FieldOK(v)
  /\ c.fn = "Lookup" => LookupOK(c, v)
  /\ c.fn = "Union" => UnionOK(c, v)
  /\ c.fn = "Facet" => FieldDoc(v)
  /\ c.fn = "ReplaceRoot" => ReplaceRootOK(c, v)
  /\ c.fn = "Collection" => CollectionOK(v)
  /\ c.fn = "Update" => UpdateOK(c, v)
  /\ c.fn = "Modifier" => FieldDoc(v)
  /\ c.fn = "Push" => PushOK(c, v)
  /\ c.fn = "Bit" => Fields(v, {"and"})
  /\ c.fn = "Is" => IsOK(c, v)

\* The function that has the last word: some pass the value on as it is.
Settled(c, v) ==
  CASE c.fn = "NotOperand" /\ v.t = "D" -> Deeper(c, "Condition")
    [] c.fn \in {"ElementMatch", "Pull"} /\ v.t = "D" -> Element(c, v)
    [] c.fn = "Operator" /\ c.op # "$count" /\ ~Structured(c.op, v) -> Deeper(c, "Expression")
    [] c.fn \in {"Branch", "Accumulator"} -> Deeper(c, "Expression")
    [] c.fn = "Projected" /\ ~(c.op = "find" /\ ElementOnly(v)) -> Deeper(c, "Expression")
    [] c.fn = "Update" /\ v.t = "A" -> At("Pipeline", "update", c.depth + 1)
    [] OTHER -> c

Passes(c, v) == Accepts(c, v) /\ Accepts(Settled(c, v), v)

Part(c, v, k) ==
  CASE c.fn = "Command" -> CommandPart(c, k)
    [] c.fn = "Documents" -> Is(c, "document")
    [] c.fn = "Writes" -> WritesPart(c, k)
    [] c.fn = "Write" -> WritePart(c, k)
    [] c.fn = "Listing" -> ListingPart(c, k)
    [] c.fn = "Listings" -> Deeper(c, "Listing")
    [] c.fn = "Predicate" -> PredicatePart(c, k)
    [] c.fn = "Patterns" -> Is(c, "pattern")
    [] c.fn = "Match" -> MatchPart(c, k)
    [] c.fn = "MatchArray" -> MatchArrayPart(c, k)
    [] c.fn = "Condition" -> ConditionPart(c, v, k)
    [] c.fn = "AllItems" -> Same(c, "AllItem")
    [] c.fn = "AllItem" -> AllItemPart(c, k)
    [] c.fn = "Expression" -> ExpressionPart(c, v, k)
    [] c.fn = "Operator" -> OperatorPart(c, k)
    [] c.fn = "Bindings" -> Deeper(c, "Expression")
    [] c.fn = "Branches" -> Same(c, "Branch")
    [] c.fn = "Projection" -> ProjectionPart(c, k)
    [] c.fn = "Projected" -> Deeper(c, "ElementMatch")
    [] c.fn = "Pipeline" -> PipelinePart(c, k)
    [] c.fn = "Stage" -> StagePart(c, k)
    [] c.fn = "Group" -> GroupPart(c, k)
    [] c.fn = "Sort" -> Is(c, "number")
    [] c.fn = "Unset" -> Is(c, "field")
    [] c.fn = "Lookup" -> LookupPart(c, k)
    [] c.fn = "Union" -> UnionPart(c, k)
    [] c.fn = "Facet" -> FacetPart(c, k)
    [] c.fn = "ReplaceRoot" -> Deeper(c, "Expression")
    [] c.fn = "Update" -> UpdatePart(c, v, k)
    [] c.fn = "Modifier" -> ModifierPart(c, k)
    [] c.fn = "Push" -> PushPart(c, v, k)
    [] c.fn = "Bit" -> Is(c, "number")
    [] OTHER -> Data   \* the parts of data and of what is not looked into

-----------------------------------------------------------------------------
(* What a mongod does with the same value (external): the way it reads it, *)
(* "none" when it is data.  Stages, operators and arguments that the       *)
(* tables do not list are "unlisted", and "private" are the fields of a    *)
(* collection's metadata that are not its name and type.                   *)

Arguments ==
  {"filter", "query", "projection", "fields", "pipeline", "updates", "deletes", "documents",
   "update", "arrayFilters", "let", "collection", "sort", "hint", "key", "cursor", "ordered",
   "remove", "nameOnly", "limit", "batchSize", "$db", "maxTimeMS"}

ReadCommand(m, k) ==
  CASE k = m -> IF m \in OnCollections THEN "name" ELSE "none"
    [] k = "collection" -> "name"
    [] k \in {"filter", "query"} -> IF m = "listCollections" THEN "listing" ELSE "query"
    [] k \in {"projection", "fields"} -> "projection"
    [] k = "pipeline" -> "stages"
    [] k \in {"updates", "deletes"} -> "writes"
    [] k = "update" /\ k # m -> "update"
    [] k = "arrayFilters" -> "queries"
    [] k = "let" -> "expr"
    [] OTHER -> IF k \in Arguments THEN "none" ELSE "unlisted"
ReadWrite(k) ==
  CASE k = "q" -> "query"
    [] k = "u" -> "update"
    [] k = "arrayFilters" -> "queries"
    [] OTHER -> IF k \in {"hint", "multi", "limit"} THEN "none" ELSE "unlisted"
ReadListing(k) ==
  CASE k \in LogicKeys -> "listings"
    [] k \in {"name", "type"} -> "predicate"
    [] OTHER -> "private"
ReadPredicate(k) == IF k \in PredicateKeys THEN "none" ELSE "unlisted"
ReadQuery(k) ==
  CASE k \in LogicKeys -> "queries"
    [] k = "$expr" -> "expr"
    [] OTHER -> IF IsOperator(k) THEN "unlisted" ELSE "cond"
ReadCondition(k) ==
  CASE k = "$not" -> "cond"
    [] k = "$elemMatch" -> "elem"
    [] k = "$all" -> "alls"
    [] OTHER -> IF k \in CondKeys THEN "none" ELSE "unlisted"
ReadExpression(k) ==
  CASE k = "$literal" -> "none"
    [] OTHER -> IF IsOperator(k) /\ k \notin Operators THEN "unlisted" ELSE "expr"
ReadStage(k) ==
  CASE k = "$match" -> "query"
    [] k \in {"$project", "$set", "$group", "$replaceRoot", "$replaceWith"} -> "expr"
    [] k \in {"$lookup", "$unionWith"} -> "join"
    [] k = "$facet" -> "facet"
    [] OTHER -> IF k \in Stages THEN "none" ELSE "unlisted"
ReadJoin(k) ==
  CASE k \in {"from", "coll"} -> "name"
    [] k = "pipeline" -> "stages"
    [] k = "let" -> "expr"
    [] OTHER -> IF IsOperator(k) THEN "unlisted" ELSE "none"
ReadModifier(k) ==
  IF k = "$pull" THEN "pulls" ELSE IF k \in Modifiers THEN "none" ELSE "unlisted"

\* The way that the value itself decides.
Read(e, v) ==
  CASE e \in {"elem", "pull"} ->
         IF v.t # "D" THEN "none" ELSE IF HoldsCondition(v) THEN "cond" ELSE "query"
    [] e = "all" -> IF HasOperator(v) THEN "cond" ELSE "none"
    [] e = "cond" -> IF HasOperator(v) THEN "cond" ELSE "none"
    [] e = "projected" -> IF ElementOnly(v) THEN "projected" ELSE "expr"
    [] e = "update" -> IF v.t = "A" THEN "stages" ELSE IF HasOperator(v) THEN "update" ELSE "none"
    [] OTHER -> e

ReadPart(m, e, v, k) ==
  CASE e = "command" -> ReadCommand(m, k)
    [] e = "writes" -> "write"
    [] e = "write" -> ReadWrite(k)
    [] e = "listings" -> "listing"
    [] e = "listing" -> ReadListing(k)
    [] e = "predicate" -> ReadPredicate(k)
    [] e = "queries" -> "query"
    [] e = "query" -> ReadQuery(k)
    [] e = "cond" -> ReadCondition(k)
    [] e = "alls" -> "all"
    [] e = "expr" -> IF v.t = "A" THEN "expr" ELSE ReadExpression(k)
    [] e = "projection" -> "projected"
    [] e = "projected" -> "elem"
    [] e = "stages" -> "stage"
    [] e = "stage" -> ReadStage(k)
    [] e = "join" -> ReadJoin(k)
    [] e = "facet" -> "stages"
    [] e = "update" -> ReadModifier(k)
    [] e = "pulls" -> "pull"
    [] OTHER -> "none"

\* What it would run, and the collections it reads.
Runs(e, v) == e = "expr" /\ v.t \in {"badvar", "code"}
Reads(e, v) == e = "name" \/ (e = "join" /\ v.t \in Strings)

-----------------------------------------------------------------------------
(* mongoCommandNamespaces: the second walk, over commands that passed.  A  *)
(* name with ! is a value that is asserted to be an array.                 *)

\* Variant: pipelines of $facet are not walked.
WalkStageNoFacet(k) ==
  CASE k = "$lookup" -> "lookup"
    [] k = "$unionWith" -> "union"
    [] OTHER -> "none"

WalkStage(k) ==
  CASE k = "$lookup" -> "lookup"
    [] k = "$unionWith" -> "union"
    [] k = "$facet" -> "facet"
    [] OTHER -> "none"

WalkCommand(m, k) ==
  CASE k = m /\ m \in OnCollections -> "collection"
    [] m = "getMore" /\ k = "collection" -> "collection"
    [] m = "aggregate" /\ k = "pipeline" -> "pipeline!"
    [] OTHER -> "none"

WalkPart(m, w, v, i) ==
  CASE w = "command" -> WalkCommand(m, v.k[i])
    [] w \in {"pipeline!", "pipeline"} -> IF v.t = "A" THEN "stage" ELSE "none"
    [] w = "stage" -> IF i = 1 THEN WalkStage(v.k[1]) ELSE "none"
    [] w = "lookup" /\ v.k[i] = "from" -> "collection"
    [] w = "union" /\ v.k[i] = "coll" -> "collection"
    [] w \in {"lookup", "union"} /\ v.k[i] = "pipeline" -> "pipeline"
    [] w = "facet" -> "pipeline!"
    [] OTHER -> "none"

\* What is added, and what the unchecked type assertions and indexes rely on.
Adds(w, v) == w = "collection" \/ (w = "union" /\ v.t \in Strings)
Asserts(m, w, v) ==
  CASE w = "command" -> /\ v.k # <<>> /\ "$db" \in KeysOf(v)
                        /\ m = "getMore" => "collection" \in KeysOf(v)
                        /\ m = "aggregate" => "pipeline" \in KeysOf(v)
    [] w = "pipeline!" -> v.t = "A"
    [] w = "stage" -> v.t = "D" /\ v.k # <<>>
    [] w = "lookup" -> v.t = "D" /\ "from" \in KeysOf(v)
    [] w = "union" -> v.t \in Strings \/ (v.t = "D" /\ "coll" \in KeysOf(v))
    [] w = "facet" -> v.t = "D"
    [] w = "collection" -> v.t \in Strings
    [] OTHER -> TRUE

-----------------------------------------------------------------------------
(* One path down one command.                                              *)

VARIABLES
  cmd,    \* the command
  call,   \* what checks the value the path has come to
  read,   \* how a mongod reads it
  walk,   \* what the second walk does with it
  level   \* how many documents and arrays it is in

place == <<cmd, call, read, walk, level>>

Top ==
  /\ cmd \in Commands /\ call = At("Command", cmd, 0)
  /\ read = "command" /\ walk = "command" /\ level = 0

\* Nothing looks further: not the policy, not the server, not the second walk.
Over == call = Data /\ read = "none" /\ walk = "none"

Descend ==
  \E v \in Nodes : \E i \in DOMAIN v.k :
    /\ ~Over /\ Passes(call, v)
    /\ call' = Part(Settled(call, v), v, v.k[i])
    /\ read' = ReadPart(cmd, Read(read, v), v, v.k[i])
    /\ walk' = WalkPart(cmd, walk, v, i)
    /\ level' = level + 1 /\ cmd' = cmd

Descent == Top /\ [][Descend]_place

-----------------------------------------------------------------------------
(* Properties, of every value that passes where it stands.                 *)

\* Whatever passes evaluates only what the tables list: no server-side code, no
\* unlisted operator, stage or argument, no system variable, at any depth and
\* however it is wrapped ("an explicit protocol policy", mongoCheckCommand).
OnlyListedEvaluates ==
  \A v \in Nodes : Passes(call, v) => read # "unlisted" /\ ~Runs(Read(read, v), v)

\* "A predicate can disclose private metadata even when its matching reply is
\* sanitized": a filter of listCollections asks about public fields only.
OnlyPublicMetadata == \A v \in Nodes : Passes(call, v) => read # "private"

\* Only pipelines of aggregate are walked: what passes elsewhere (update
\* pipelines, filters, projections) reads no collection but the command's own.
NothingElseReads ==
  \A v \in Nodes : Passes(call, v) /\ cmd # "aggregate" /\ level > 1 => ~Reads(read, v)

\* Every collection the server reads is among those whose type the tunnel looks
\* up before it forwards the command, and no other is.
EveryCollectionIsLookedUp ==
  \A v \in Nodes : Passes(call, v) => (Reads(read, v) <=> Adds(walk, v))

\* The second walk asserts the type of what it meets without looking ("call only
\* after mongoCheckCommand succeeds"), and nothing recovers from a panic.
WalkNeverPanics == \A v \in Nodes : Passes(call, v) => Asserts(cmd, walk, v)

\* The depth parameter, which each call passes on by hand, bounds how deep a value
\* can be that is still looked at: no chain of calls forgets to increase it.
DepthIsBounded ==
  \A v \in Nodes : Passes(call, v) => Over \/ level <= 3 * MaxDepth + 7
=============================================================================
