---------------------------- MODULE MCMongoPolicy ----------------------------
(***************************************************************************)
(* MongoPolicy checked over documents of up to two parts, over those with  *)
(* more that some table asks for, over arrays of up to three, and over     *)
(* every kind of leaf.                                                     *)
(***************************************************************************)
EXTENDS MongoPolicy

Keys == CondKeys \cup LogicKeys \cup Operators \cup Stages \cup Modifiers \cup FieldNames
        \cup Commands \cup Arguments
        \cup {"$expr", "$where", "$literal", "$function", "$out", "$each"}

\* Keys that meet each other in one document, in either order.
Mixed == {"f", "g", "name", "$eq", "$and", "$expr", "$elemMatch", "$not", "$literal", "$abs",
          "$match", "$lookup", "$out", "$where", "$set", "$pull", "$each"}

\* Documents of the forms that a table asks for.
Wholes ==
  {<<m, "$db", k>> : m \in Commands, k \in Arguments}
  \cup {<<"aggregate", "$db", "pipeline", "cursor">>,
        <<"aggregate", "$db", "cursor", "pipeline", "let">>,
        <<"aggregate", "$db", "cursor", "pipeline", "$out">>,
        <<"findAndModify", "$db", "query", "update", "arrayFilters">>,
        <<"findAndModify", "$db", "query", "sort", "remove">>,
        <<"q", "u">>, <<"q", "u", "arrayFilters", "hint", "multi">>, <<"q", "limit", "hint">>,
        <<"if", "then", "else">>, <<"vars", "in">>, <<"input", "in">>, <<"input", "as", "in">>,
        <<"branches", "else">>, <<"case", "then">>, <<"_id", "f">>, <<"name", "type">>,
        <<"from", "as", "pipeline">>, <<"from", "as", "pipeline", "let">>,
        <<"from", "as", "localField", "foreignField">>, <<"as", "pipeline">>,
        <<"from", "as", "localField">>, <<"coll", "pipeline">>, <<"coll", "f">>,
        <<"$each", "$sort">>, <<"$regex", "$options">>, <<"$in", "$options">>,
        <<"f", "f">>, <<"$eq", "$eq">>, <<"f", "name", "$eq">>}

Values == {Leaf(kind) : kind \in Leaves} \cup {Arr(n) : n \in 0 .. 3}
          \cup {Doc(<<>>)} \cup {Doc(<<k>>) : k \in Keys}
          \cup {Doc(<<j, k>>) : j \in Mixed, k \in Mixed} \cup {Doc(ks) : ks \in Wholes}
=============================================================================
