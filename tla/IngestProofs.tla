---------------------------- MODULE IngestProofs ----------------------------
(***************************************************************************)
(* Proofs about Ingest, for every header an INSERT may be read as, every   *)
(* row, every number of rows, width of words and length of texts: what a   *)
(* Stream Load acknowledges is in the table as it was sent, only rows      *)
(* without a key or with a text that is too long are refused, and by Kafka *)
(* only the columns of Events are lost.                                    *)
(*                                                                         *)
(* The proof goes along the row: the names of the four schemas and tables  *)
(* and what their types have in common; a value through Decoded and        *)
(* JsonValue into a column; a name through JsonKey and a path back to its  *)
(* value; then a row, a block, and the steps.                              *)
(***************************************************************************)
EXTENDS IngestInvariant, SequenceTheorems, WellFoundedInduction, TLAPS

-----------------------------------------------------------------------------
\* A set of places in a list has a last one.

LEMMA NatOrdered ==
    \E R : IsWellFoundedOn(R, Nat) /\ \A x, y \in Nat : x < y => <<x, y>> \in R
<1>1. \A x, y \in Nat : x < y => <<x, y>> \in OpToRel(<, Nat)
  BY DEF OpToRel
<1> QED
  BY <1>1, NatLessThanWellFounded, Zenon

LEMMA LeastNat ==
    ASSUME NEW T \in SUBSET Nat, T # {}
    PROVE  \E n \in T : \A m \in T : n <= m
<1>1. PICK R : IsWellFoundedOn(R, Nat) /\ \A x, y \in Nat : x < y => <<x, y>> \in R
  BY NatOrdered
<1>2. PICK n \in T : \A y \in T : ~(<<y, n>> \in R)
  <2>1. IsWellFoundedOn(R, Nat)
    BY <1>1
  <2>2. \E n \in T : \A y \in T : ~(<<y, n>> \in R)
    BY <2>1, WFMin
  <2> QED
    BY <2>2
<1>3. \A m \in T : ~(m < n) /\ m \in Nat /\ n \in Nat
  BY <1>1, <1>2
<1> QED
  BY <1>3

LEMMA MaxIsIn ==
    ASSUME NEW n \in Nat, NEW I \in SUBSET (1 .. n), I # {}
    PROVE  Max(I) \in I
<1> DEFINE T == {k \in Nat : \E i \in I : k = n - i}
<1>1. T \in SUBSET Nat /\ T # {}
  <2>1. PICK i \in I : TRUE
    OBVIOUS
  <2>2. n - i \in Nat
    BY <2>1
  <2> QED
    BY <2>1, <2>2
<1>2. PICK m \in T : \A k \in T : m <= k
  BY <1>1, LeastNat
<1>3. PICK i \in I : m = n - i
  BY <1>2
<1>4. \A j \in I : i >= j
  <2>1. \A j \in I : n - j \in T
    OBVIOUS
  <2> HIDE DEF T
  <2> QED
    BY <1>2, <1>3, <2>1
<1> QED
  BY <1>4 DEF Max

-----------------------------------------------------------------------------
\* The names and types of the schemas and of the tables.

LEMMA TypeOfName ==
    ASSUME NEW names, NEW n \in DOMAIN Typed(names)
    PROVE  Typed(names)[n] \in DOMAIN names /\ n \in names[Typed(names)[n]]
BY DEF Typed

\* A column of a type takes the values of a column of a schema.
Takes(column, type) ==
    \/ column = "DATETIME" /\ type = "dt64"
    \/ column \in {"VARCHAR", "LONG"} /\ type = "str"
    \/ column = "INT" /\ type \in {"i32", "u32"}
    \/ column = "BIGINT" /\ type \in {"i64", "u64"}
    \/ column = "MAP" /\ type = "map"
    \/ column = "DATETIMES" /\ type = "dt64Arr"
    \/ column = "VARCHARS" /\ type = "strArr"
    \/ column = "MAPS" /\ type = "mapArr"

\* A name is a word, or a field of Events or Links; a table has no Links.
Plain(n) == n = <<n[1]>> /\ n[1] \notin {".", "Events"}
FieldOf(n, parents) == n = <<n[1], ".", n[3]>> /\ n[1] \in parents /\ n[3] # "."

SchemaName(n) == Plain(n) \/ FieldOf(n, {"Events", "Links"})
TableName(n) == Plain(n) \/ FieldOf(n, {"Events"})

Agree(schema, columns) ==
    /\ \A n \in DOMAIN schema : SchemaName(n)
    /\ \A c \in DOMAIN columns : TableName(c) /\ (columns[c] = "LONG" <=> c = <<"Body">>)
    /\ \A n \in DOMAIN schema \cap DOMAIN columns : Takes(columns[n], schema[n])

LEMMA LogsAgree == Agree(InsertSchemas["otel_logs"], Tables["otel_logs"])
<1> DEFINE schema == InsertSchemas["otel_logs"]
           columns == Tables["otel_logs"]
<1>1. ASSUME NEW n \in DOMAIN schema
      PROVE  \/ schema[n] = "dt64" /\ n \in Words({"Timestamp"})
             \/ schema[n] = "map" /\ n \in Words({"ResourceAttributes", "LogAttributes"})
             \/ schema[n] = "u32" /\ n \in Words({"TraceFlags"})
             \/ schema[n] = "i32" /\ n \in Words({"SeverityNumber"})
             \/ /\ schema[n] = "str"
                /\ n \in Words({"TraceId", "SpanId", "SeverityText", "ServiceName", "Body"})
  BY TypeOfName DEF InsertSchemas
<1>2. ASSUME NEW c \in DOMAIN columns
      PROVE  \/ columns[c] = "DATETIME" /\ c \in Words({"Timestamp"})
             \/ columns[c] = "MAP" /\ c \in Words({"ResourceAttributes", "LogAttributes"})
             \/ columns[c] = "INT" /\ c \in Words({"TraceFlags", "SeverityNumber"})
             \/ /\ columns[c] = "VARCHAR"
                /\ c \in Words({"TraceId", "SpanId", "SeverityText", "ServiceName"})
             \/ columns[c] = "LONG" /\ c \in Words({"Body"})
  BY TypeOfName DEF Tables, LogsTable
<1> HIDE DEF schema, columns
<1>3. \A n \in DOMAIN schema : SchemaName(n)
  BY <1>1 DEF SchemaName, Plain, Words
<1>4. \A c \in DOMAIN columns : TableName(c) /\ (columns[c] = "LONG" <=> c = <<"Body">>)
  BY <1>2 DEF TableName, Plain, Words
<1>5. \A n \in DOMAIN schema \cap DOMAIN columns : Takes(columns[n], schema[n])
  BY <1>1, <1>2 DEF Takes, Words
<1> QED
  BY <1>3, <1>4, <1>5 DEF Agree, schema, columns

LEMMA TracesAgree == Agree(InsertSchemas["otel_traces"], Tables["otel_traces"])
<1> DEFINE schema == InsertSchemas["otel_traces"]
           columns == Tables["otel_traces"]
<1>1. ASSUME NEW n \in DOMAIN schema
      PROVE  \/ schema[n] = "dt64" /\ n \in Words({"Timestamp"})
             \/ schema[n] = "map" /\ n \in Words({"ResourceAttributes", "SpanAttributes"})
             \/ schema[n] = "i64" /\ n \in Words({"Duration"})
             \/ /\ schema[n] = "str"
                /\ n \in Words({"TraceId", "SpanId", "ParentSpanId", "TraceState", "SpanName",
                              "SpanKind", "ServiceName", "StatusCode", "StatusMessage"})
             \/ schema[n] = "dt64Arr" /\ n \in Fields("Events", {"Timestamp"})
             \/ /\ schema[n] = "strArr"
                /\ \/ n \in Fields("Events", {"Name"})
                   \/ n \in Fields("Links", {"TraceId", "SpanId", "TraceState"})
             \/ /\ schema[n] = "mapArr"
                /\ \/ n \in Fields("Events", {"Attributes"})
                   \/ n \in Fields("Links", {"Attributes"})
  BY TypeOfName DEF InsertSchemas
<1>2. ASSUME NEW c \in DOMAIN columns
      PROVE  \/ columns[c] = "DATETIME" /\ c \in Words({"Timestamp"})
             \/ columns[c] = "MAP" /\ c \in Words({"ResourceAttributes", "SpanAttributes"})
             \/ columns[c] = "BIGINT" /\ c \in Words({"Duration"})
             \/ /\ columns[c] = "VARCHAR"
                /\ c \in Words({"TraceId", "SpanId", "ParentSpanId", "TraceState", "SpanName",
                              "SpanKind", "ServiceName", "StatusCode", "StatusMessage",
                              "NetSockPeerAddr"})
             \/ columns[c] = "DATETIMES" /\ c \in Fields("Events", {"Timestamp"})
             \/ columns[c] = "VARCHARS" /\ c \in Fields("Events", {"Name"})
             \/ columns[c] = "MAPS" /\ c \in Fields("Events", {"Attributes"})
  BY TypeOfName DEF Tables, TracesTable
<1> HIDE DEF schema, columns
<1>3. \A n \in DOMAIN schema : SchemaName(n)
  BY <1>1 DEF SchemaName, Plain, FieldOf, Fields, Words
<1>4. \A c \in DOMAIN columns : TableName(c) /\ (columns[c] = "LONG" <=> c = <<"Body">>)
  BY <1>2 DEF TableName, Plain, FieldOf, Fields, Words
<1>5. \A n \in DOMAIN schema \cap DOMAIN columns : Takes(columns[n], schema[n])
  BY <1>1, <1>2 DEF Takes, Fields, Words
<1> QED
  BY <1>3, <1>4, <1>5 DEF Agree, schema, columns

LEMMA StacksAgree == Agree(InsertSchemas["profiling_stacks"], Tables["profiling_stacks"])
<1> DEFINE schema == InsertSchemas["profiling_stacks"]
           columns == Tables["profiling_stacks"]
<1>1. ASSUME NEW n \in DOMAIN schema
      PROVE  \/ schema[n] = "str" /\ n \in Words({"ServiceName"})
             \/ schema[n] = "u64" /\ n \in Words({"Hash"})
             \/ schema[n] = "dt64" /\ n \in Words({"LastSeen"})
             \/ schema[n] = "strArr" /\ n \in Words({"Stack"})
  BY TypeOfName DEF InsertSchemas
<1>2. ASSUME NEW c \in DOMAIN columns
      PROVE  \/ columns[c] = "VARCHAR" /\ c \in Words({"ServiceName"})
             \/ columns[c] = "BIGINT" /\ c \in Words({"Hash"})
             \/ columns[c] = "DATETIME" /\ c \in Words({"LastSeen"})
             \/ columns[c] = "VARCHARS" /\ c \in Words({"Stack"})
  BY TypeOfName DEF Tables, StacksTable
<1> HIDE DEF schema, columns
<1>3. \A n \in DOMAIN schema : SchemaName(n)
  BY <1>1 DEF SchemaName, Plain, Words
<1>4. \A c \in DOMAIN columns : TableName(c) /\ (columns[c] = "LONG" <=> c = <<"Body">>)
  BY <1>2 DEF TableName, Plain, Words
<1>5. \A n \in DOMAIN schema \cap DOMAIN columns : Takes(columns[n], schema[n])
  BY <1>1, <1>2 DEF Takes, Words
<1> QED
  BY <1>3, <1>4, <1>5 DEF Agree, schema, columns

LEMMA SamplesAgree == Agree(InsertSchemas["profiling_samples"], Tables["profiling_samples"])
<1> DEFINE schema == InsertSchemas["profiling_samples"]
           columns == Tables["profiling_samples"]
<1>1. ASSUME NEW n \in DOMAIN schema
      PROVE  \/ schema[n] = "str" /\ n \in Words({"ServiceName", "Type"})
             \/ schema[n] = "dt64" /\ n \in Words({"Start", "End"})
             \/ schema[n] = "map" /\ n \in Words({"Labels"})
             \/ schema[n] = "u64" /\ n \in Words({"StackHash"})
             \/ schema[n] = "i64" /\ n \in Words({"Value"})
  BY TypeOfName DEF InsertSchemas
<1>2. ASSUME NEW c \in DOMAIN columns
      PROVE  \/ columns[c] = "VARCHAR" /\ c \in Words({"ServiceName", "Type"})
             \/ columns[c] = "DATETIME" /\ c \in Words({"Start", "End"})
             \/ columns[c] = "MAP" /\ c \in Words({"Labels"})
             \/ columns[c] = "BIGINT" /\ c \in Words({"StackHash", "Value"})
  BY TypeOfName DEF Tables, SamplesTable
<1> HIDE DEF schema, columns
<1>3. \A n \in DOMAIN schema : SchemaName(n)
  BY <1>1 DEF SchemaName, Plain, Words
<1>4. \A c \in DOMAIN columns : TableName(c) /\ (columns[c] = "LONG" <=> c = <<"Body">>)
  BY <1>2 DEF TableName, Plain, Words
<1>5. \A n \in DOMAIN schema \cap DOMAIN columns : Takes(columns[n], schema[n])
  BY <1>1, <1>2 DEF Takes, Words
<1> QED
  BY <1>3, <1>4, <1>5 DEF Agree, schema, columns

LEMMA SchemasAgree ==
    ASSUME NEW t \in DOMAIN InsertSchemas
    PROVE  Agree(InsertSchemas[t], Tables[t])
<1>1. t \in {"otel_logs", "otel_traces", "profiling_stacks", "profiling_samples"}
  BY DEF InsertSchemas
<1> QED
  BY <1>1, LogsAgree, TracesAgree, StacksAgree, SamplesAgree

-----------------------------------------------------------------------------
\* Names, keys and paths.

LEMMA OfOne ==
    ASSUME NEW i \in 1 .. 1
    PROVE  i = 1
OBVIOUS

LEMMA OfThree ==
    /\ \A i \in 1 .. 3 : i = 1 \/ i = 2 \/ i = 3
    /\ 1 \in 1 .. 3 /\ 2 \in 1 .. 3 /\ 3 \in 1 .. 3
OBVIOUS

LEMMA OfLength ==
    ASSUME NEW S, NEW m \in Nat, NEW s \in [1 .. m -> S]
    PROVE  s \in Seq(S) /\ Len(s) = m
OBVIOUS

LEMMA Triple ==
    ASSUME NEW S, NEW s \in Seq(S), Len(s) = 3
    PROVE  s = <<s[1], s[2], s[3]>>
<1> DEFINE t == <<s[1], s[2], s[3]>>
<1>1. t \in Seq(S) /\ Len(t) = 3 /\ t[1] = s[1] /\ t[2] = s[2] /\ t[3] = s[3]
  <2>1. s[1] \in S /\ s[2] \in S /\ s[3] \in S
    OBVIOUS
  <2> QED
    BY <2>1
<1> HIDE DEF t
<1>2. \A i \in 1 .. 3 : s[i] = t[i]
  BY <1>1, OfThree
<1>3. s = t
  BY <1>1, <1>2, SeqEqual
<1> QED
  BY <1>3 DEF t

LEMMA PartsOfField ==
    ASSUME NEW p, NEW q, NEW f
    PROVE  SubSeq(<<p, q, f>>, 1, 1) = <<p>> /\ SubSeq(<<p, q, f>>, 3, 3) = <<f>>
<1> DEFINE t == <<p, q, f>>
           u == SubSeq(t, 1, 1)
           v == SubSeq(t, 3, 3)
<1>1. t \in Seq({p, q, f}) /\ Len(t) = 3 /\ t[1] = p /\ t[2] = q /\ t[3] = f
  OBVIOUS
<1> HIDE DEF t
<1>2. Len(u) = 1 /\ u[1] = p /\ u \in Seq({p, q, f})
  BY <1>1
<1>3. Len(v) = 1 /\ v[1] = f /\ v \in Seq({p, q, f})
  BY <1>1
<1> HIDE DEF u, v
<1>4. u = <<p>> /\ v = <<f>>
  BY <1>2, <1>3
<1> QED
  BY <1>4 DEF t, u, v

LEMMA KeyOfWord ==
    ASSUME NEW w, w # "."
    PROVE  JsonKey(<<w>>) = <<w>>
<1> DEFINE n == <<w>>
           key == JsonKey(n)
<1>1. DOMAIN n = 1 .. 1 /\ n[1] = w
  OBVIOUS
<1> HIDE DEF n
<1>2. key = [i \in 1 .. 1 |-> IF n[i] = "." THEN "_" ELSE n[i]]
  BY <1>1 DEF JsonKey
<1> HIDE DEF key
<1>3. \A i \in 1 .. 1 : (IF n[i] = "." THEN "_" ELSE n[i]) = w
  BY <1>1, OfOne
<1>4. key \in [1 .. 1 -> {w}]
  BY <1>2, <1>3
<1>5. key \in Seq({w}) /\ Len(key) = 1
  BY <1>4, OfLength
<1>6. key = <<w>>
  BY <1>5
<1> QED
  BY <1>6 DEF n, key

LEMMA KeyOfField ==
    ASSUME NEW p, NEW f, p # ".", f # "."
    PROVE  JsonKey(<<p, ".", f>>) = <<p, "_", f>>
<1> DEFINE n == <<p, ".", f>>
           key == JsonKey(n)
<1>1. DOMAIN n = 1 .. 3 /\ n[1] = p /\ n[2] = "." /\ n[3] = f
  OBVIOUS
<1> HIDE DEF n
<1>2. key = [i \in 1 .. 3 |-> IF n[i] = "." THEN "_" ELSE n[i]]
  BY <1>1 DEF JsonKey
<1> HIDE DEF key
<1>3. key[1] = p /\ key[2] = "_" /\ key[3] = f
  BY <1>1, <1>2, OfThree
<1>4. \A i \in 1 .. 3 : key[i] \in {p, "_", f}
  BY <1>3, OfThree
<1>5. key \in [1 .. 3 -> {p, "_", f}]
  BY <1>2, <1>4
<1>6. key \in Seq({p, "_", f}) /\ Len(key) = 3
  BY <1>5, OfLength
<1> QED
  BY <1>3, <1>6, Triple DEF n, key

LEMMA KeyOfName ==
    ASSUME NEW n, SchemaName(n)
    PROVE  \/ Plain(n) /\ JsonKey(n) = <<n[1]>>
           \/ FieldOf(n, {"Events", "Links"}) /\ JsonKey(n) = <<n[1], "_", n[3]>>
<1>1. CASE Plain(n)
  <2>1. JsonKey(<<n[1]>>) = <<n[1]>>
    BY <1>1, KeyOfWord DEF Plain
  <2> QED
    BY <1>1, <2>1 DEF Plain
<1>2. CASE FieldOf(n, {"Events", "Links"})
  <2>1. JsonKey(<<n[1], ".", n[3]>>) = <<n[1], "_", n[3]>>
    BY <1>2, KeyOfField DEF FieldOf
  <2> QED
    BY <1>2, <2>1 DEF FieldOf
<1> QED
  BY <1>1, <1>2 DEF SchemaName

\* No two columns have the same key in the document of a Stream Load.
LEMMA KeysDiffer ==
    ASSUME NEW m, NEW n, SchemaName(m), SchemaName(n), JsonKey(m) = JsonKey(n)
    PROVE  m = n
<1>1. CASE Plain(m) /\ Plain(n)
  BY <1>1, KeyOfName DEF Plain, FieldOf
<1>2. CASE ~Plain(m) /\ ~Plain(n)
  <2>1. <<m[1], "_", m[3]>> = <<n[1], "_", n[3]>>
    BY <1>2, KeyOfName
  <2>2. m[1] = n[1] /\ m[3] = n[3]
    BY <2>1
  <2>3. m = <<m[1], ".", m[3]>> /\ n = <<n[1], ".", n[3]>>
    BY <1>2, KeyOfName DEF FieldOf
  <2> QED
    BY <2>2, <2>3, Zenon
<1>3. ASSUME NEW p, NEW q, Plain(p), ~Plain(q), SchemaName(p), SchemaName(q)
      PROVE  JsonKey(p) # JsonKey(q)
  <2>1. JsonKey(p) = <<p[1]>>
    BY <1>3, KeyOfWord DEF Plain
  <2>2. JsonKey(q) = <<q[1], "_", q[3]>>
    BY <1>3, KeyOfName
  <2>3. \A x, y, z, w : <<w>> # <<x, y, z>>
    OBVIOUS
  <2> QED
    BY <2>1, <2>2, <2>3, Zenon
<1> QED
  BY <1>1, <1>2, <1>3

\* A path without a dot leads to a key of the document.
LEMMA AtKey ==
    ASSUME NEW S, NEW path \in Seq(S), \A i \in DOMAIN path : path[i] # ".", NEW doc
    PROVE  At(doc, path) = Under(Json("object", doc), path)
<1> DEFINE I == {i \in 1 .. Len(path) : path[i] = "."}
<1>1. I = {}
  OBVIOUS
<1>2. SelectInSeq(path, LAMBDA ch : ch = ".") = 0
  BY <1>1 DEF SelectInSeq
<1> QED
  BY <1>2 DEF At

\* A path with a dot leads through the object of its first part.
LEMMA AtField ==
    ASSUME NEW c, NEW parents, FieldOf(c, parents), "." \notin parents, NEW doc
    PROVE  At(doc, c) = Under(Under(Json("object", doc), <<c[1]>>), <<c[3]>>)
<1> DEFINE I == {i \in 1 .. Len(c) : c[i] = "."}
           p == c[1]
           f == c[3]
<1>1. c = <<p, ".", f>> /\ p # "." /\ f # "."
  BY DEF FieldOf
<1> HIDE DEF p, f
<1>2. I = {2}
  BY <1>1
<1>3. Min(I) = 2
  BY <1>2 DEF Min
<1>4. SelectInSeq(c, LAMBDA ch : ch = ".") = 2
  BY <1>2, <1>3 DEF SelectInSeq
<1>5. SubSeq(c, 1, 1) = <<p>> /\ SubSeq(c, 3, 3) = <<f>> /\ Len(c) = 3
  BY <1>1, PartsOfField
<1>6. At(doc, c) = Under(Under(Json("object", doc), SubSeq(c, 1, 1)), SubSeq(c, 3, 3))
  BY <1>4, <1>5 DEF At
<1> QED
  BY <1>5, <1>6 DEF p, f

\* The path of a column in a Stream Load leads to its key.
LEMMA AtJsonKey ==
    ASSUME NEW n, SchemaName(n), NEW doc, JsonKey(n) \in DOMAIN doc
    PROVE  At(doc, JsonKey(n)) = doc[JsonKey(n)]
<1>1. JsonKey(n) \in Seq({n[1], "_", n[3]}) /\ \A i \in DOMAIN JsonKey(n) : JsonKey(n)[i] # "."
  <2>1. CASE Plain(n) /\ JsonKey(n) = <<n[1]>>
    BY <2>1 DEF Plain
  <2>2. CASE FieldOf(n, {"Events", "Links"}) /\ JsonKey(n) = <<n[1], "_", n[3]>>
    <3> DEFINE p == n[1]
               f == n[3]
    <3>1. p # "." /\ f # "."
      BY <2>2 DEF FieldOf
    <3> HIDE DEF p, f
    <3> DEFINE key == <<p, "_", f>>
    <3>2. key \in Seq({p, "_", f}) /\ DOMAIN key = 1 .. 3
          /\ key[1] = p /\ key[2] = "_" /\ key[3] = f
      OBVIOUS
    <3> HIDE DEF key
    <3>3. \A i \in DOMAIN key : key[i] # "."
      BY <3>1, <3>2, OfThree
    <3>4. JsonKey(n) = key
      BY <2>2 DEF key, p, f
    <3> QED
      BY <3>2, <3>3, <3>4 DEF p, f
  <2> QED
    BY <2>1, <2>2, KeyOfName
<1>2. At(doc, JsonKey(n)) = Under(Json("object", doc), JsonKey(n))
  BY <1>1, AtKey
<1> QED
  BY <1>2 DEF Under, Json

-----------------------------------------------------------------------------
\* Values: what jsonValue makes of one, and what the column holds of that.

LEMMA JsonOfScalar ==
    ASSUME NEW x
    PROVE  /\ JsonOne(DecodedOne("dt64", x)) = Json("time", x)
           /\ JsonOne(DecodedOne("str", x)) = Json("text", x)
           /\ \A type \in {"i32", "u32", "i64", "u64"} :
                JsonOne(DecodedOne(type, x)) = Json("number", x)
BY DEF JsonOne, DecodedOne, JsonScalar, Value, KindOf, TimeText

LEMMA JsonOfMap ==
    ASSUME NEW x
    PROVE  JsonOne(DecodedOne("map", x)) = Json("object", [k \in DOMAIN x |-> Json("text", x[k])])
<1> DEFINE texts == [k \in DOMAIN x |-> Value("String", x[k])]
<1>1. JsonOne(Value("Map", texts)) = Json("object", [k \in DOMAIN texts |-> JsonScalar(texts[k])])
  BY DEF JsonOne, Value
<1>2. \A k \in DOMAIN x : JsonScalar(texts[k]) = Json("text", x[k])
  BY DEF JsonScalar, Value
<1>3. [k \in DOMAIN texts |-> JsonScalar(texts[k])] = [k \in DOMAIN x |-> Json("text", x[k])]
  BY <1>2
<1> QED
  BY <1>1, <1>3 DEF DecodedOne

LEMMA JsonOfOne ==
    ASSUME NEW x, NEW type \in {"str", "dt64", "i32", "u32", "i64", "u64", "map"}
    PROVE  JsonValue(Decoded(type, x)) = JsonOne(DecodedOne(type, x))
<1>1. Decoded(type, x) = DecodedOne(type, x)
  BY DEF Decoded, ElementType
<1>2. DecodedOne(type, x).kind # "Array"
  BY DEF DecodedOne, Value, KindOf
<1> QED
  BY <1>1, <1>2 DEF JsonValue

LEMMA JsonOfList ==
    ASSUME NEW x, NEW type \in {"strArr", "dt64Arr", "mapArr"}
    PROVE  JsonValue(Decoded(type, x)) =
               Json("list", [i \in DOMAIN x |-> JsonOne(DecodedOne(ElementType[type], x[i]))])
<1> DEFINE elems == [i \in DOMAIN x |-> DecodedOne(ElementType[type], x[i])]
<1>1. Decoded(type, x) = Value("Array", elems)
  BY DEF Decoded, ElementType
<1>2. JsonValue(Value("Array", elems)) = JsonList(elems)
  BY DEF JsonValue, Value
<1> QED
  BY <1>1, <1>2 DEF JsonList

\* No value is lost or changed on the way, but for the part of a microsecond.
LEMMA HeldOfOne ==
    ASSUME NEW x, NEW type \in {"str", "dt64", "i32", "u32", "i64", "u64", "map"}, IsOf(type, x)
    PROVE  /\ JsonOne(DecodedOne(type, x)).tag \notin {"null", "list"}
           /\ HeldOne(JsonOne(DecodedOne(type, x))) = InMicroseconds(type, x)
<1> DEFINE json == JsonOne(DecodedOne(type, x))
<1>1. CASE type = "dt64"
  BY <1>1, JsonOfScalar DEF HeldOne, HeldScalar, Json, InMicroseconds
<1>2. CASE type = "str"
  BY <1>2, JsonOfScalar DEF HeldOne, HeldScalar, Json, InMicroseconds
<1>3. CASE type \in {"i32", "u32", "i64", "u64"}
  <2>1. json = Json("number", x)
    BY <1>3, JsonOfScalar
  <2> QED
    BY <1>3, <2>1 DEF HeldOne, HeldScalar, Json, InMicroseconds
<1>4. CASE type = "map"
  <2> DEFINE obj == [k \in DOMAIN x |-> Json("text", x[k])]
  <2>1. json = Json("object", obj)
    BY <1>4, JsonOfMap
  <2>2. HeldOne(Json("object", obj)) = [k \in DOMAIN obj |-> HeldScalar(obj[k])]
    BY DEF HeldOne, Json
  <2>3. \A k \in DOMAIN x : HeldScalar(obj[k]) = x[k]
    BY DEF HeldScalar, Json
  <2>4. [k \in DOMAIN obj |-> HeldScalar(obj[k])] = [k \in DOMAIN x |-> x[k]]
    BY <2>3
  <2>5. x = [k \in DOMAIN x |-> x[k]]
    BY <1>4 DEF IsOf
  <2>6. InMicroseconds(type, x) = x
    BY <1>4 DEF InMicroseconds
  <2>7. json.tag = "object"
    BY <2>1 DEF Json
  <2> HIDE DEF obj
  <2> QED
    BY <2>1, <2>2, <2>4, <2>5, <2>6, <2>7
<1> QED
  BY <1>1, <1>2, <1>3, <1>4

LEMMA HeldOfList ==
    ASSUME NEW x, NEW type \in {"strArr", "dt64Arr", "mapArr"}, IsOf(type, x)
    PROVE  /\ JsonValue(Decoded(type, x)).tag = "list"
           /\ Held(JsonValue(Decoded(type, x))) = InMicroseconds(type, x)
<1> DEFINE type1 == ElementType[type]
           elems == [i \in DOMAIN x |-> JsonOne(DecodedOne(type1, x[i]))]
<1>1. JsonValue(Decoded(type, x)) = Json("list", elems)
  BY JsonOfList
<1>2. Held(Json("list", elems)) = [i \in DOMAIN elems |-> HeldOne(elems[i])]
  BY DEF Held, Json
<1>3. type1 \in {"str", "dt64", "map"} /\ \A i \in DOMAIN x : IsOf(type1, x[i])
  <2>1. CASE type = "strArr"
    BY <2>1 DEF IsOf, ElementType
  <2>2. CASE type = "dt64Arr"
    BY <2>2 DEF IsOf, ElementType
  <2>3. CASE type = "mapArr"
    BY <2>3 DEF IsOf, ElementType
  <2> QED
    BY <2>1, <2>2, <2>3
<1>4. \A i \in DOMAIN x : HeldOne(elems[i]) = InMicroseconds(type1, x[i])
  BY <1>3, HeldOfOne
<1>5. Held(Json("list", elems)) = [i \in DOMAIN x |-> InMicroseconds(type1, x[i])]
  BY <1>2, <1>4
<1>6. [i \in DOMAIN x |-> InMicroseconds(type1, x[i])] = InMicroseconds(type, x)
  <2>1. CASE type = "dt64Arr"
    BY <2>1 DEF InMicroseconds, ElementType
  <2>2. CASE type \in {"strArr", "mapArr"}
    <3>1. x = [i \in DOMAIN x |-> x[i]]
      <4>1. x \in Seq(ToSet(x))
        BY <2>2 DEF IsOf
      <4>2. \A S : \A y \in Seq(S) : y = [i \in DOMAIN y |-> y[i]]
        OBVIOUS
      <4> QED
        BY <4>1, <4>2
    <3>2. \A i \in DOMAIN x : InMicroseconds(type1, x[i]) = x[i]
      BY <2>2 DEF InMicroseconds, ElementType
    <3>3. InMicroseconds(type, x) = x
      BY <2>2 DEF InMicroseconds
    <3> QED
      BY <3>1, <3>2, <3>3
  <2> QED
    BY <2>1, <2>2
<1> HIDE DEF elems
<1> QED
  BY <1>1, <1>5, <1>6 DEF Json

SchemaTypes == {"str", "dt64", "i32", "u32", "i64", "u64", "map", "strArr", "dt64Arr", "mapArr"}

LEMMA CellAsMeant ==
    ASSUME NEW x, NEW type \in SchemaTypes, IsOf(type, x)
    PROVE  Cell(JsonValue(Decoded(type, x))) = <<InMicroseconds(type, x)>>
<1> DEFINE json == JsonValue(Decoded(type, x))
<1>1. CASE type \in {"strArr", "dt64Arr", "mapArr"}
  BY <1>1, HeldOfList DEF Cell
<1>2. CASE type \in {"str", "dt64", "i32", "u32", "i64", "u64", "map"}
  <2>1. json.tag \notin {"null", "list"} /\ HeldOne(json) = InMicroseconds(type, x)
    BY <1>2, HeldOfOne, JsonOfOne
  <2> HIDE DEF json
  <2>2. Cell(json) = <<InMicroseconds(type, x)>>
    BY <2>1 DEF Cell, Held
  <2> QED
    BY <2>2 DEF json
<1> QED
  BY <1>1, <1>2 DEF SchemaTypes

\* A column takes the values of its column in the schema, but for numbers that are too
\* large and texts that are too long.
LEMMA FitsScalarColumn ==
    ASSUME NEW x, NEW type \in {"str", "dt64", "i32", "u32", "i64", "u64"}, IsOf(type, x),
           NEW column, Takes(column, type), NEW c, column = "LONG" <=> c = <<"Body">>
    PROVE  Fits(column, JsonValue(Decoded(type, x)))
               <=> ~Overflows(type, x) /\ ~(type = "str" /\ Long(c, x))
<1> DEFINE json == JsonValue(Decoded(type, x))
<1>1. json = Json(IF type = "dt64" THEN "time" ELSE IF type = "str" THEN "text" ELSE "number", x)
  BY JsonOfScalar, JsonOfOne
<1>2. type = "i32" => InWord(x, Word)
  BY DEF IsOf
<1>3. type = "i64" => InWord(x, 2 * Word)
  BY DEF IsOf
<1> HIDE DEF json
<1>4. Fits(column, json) <=> FitsScalar(column, json)
  BY <1>1 DEF Fits, FitsOne, Json
<1>5. CASE type = "str"
  <2>1. FitsScalar(column, json) <=> Short(x, Limits[column])
    BY <1>1, <1>5 DEF Takes, FitsScalar, Limits, Json
  <2>2. Limits[column] = IF c = <<"Body">> THEN MaxBody ELSE MaxText
    BY <1>5 DEF Takes, Limits
  <2> QED
    BY <1>4, <1>5, <2>1, <2>2 DEF Long, Overflows, json
<1>6. CASE type \in {"dt64", "i32", "u32", "i64", "u64"}
  <2>1. FitsScalar(column, json) <=> ~Overflows(type, x)
    BY <1>1, <1>2, <1>3, <1>6 DEF Takes, FitsScalar, Overflows, Limits, Json
  <2> QED
    BY <1>4, <1>6, <2>1 DEF json
<1> QED
  BY <1>5, <1>6

LEMMA FitsMap ==
    ASSUME NEW x, NEW c, c # <<"Body">>
    PROVE  FitsOne("MAP", JsonOne(DecodedOne("map", x))) <=> ~LongMap(c, x)
<1> DEFINE obj == [k \in DOMAIN x |-> Json("text", x[k])]
<1>1. JsonOne(DecodedOne("map", x)) = Json("object", obj)
  BY JsonOfMap
<1>2. \A k \in DOMAIN x : FitsScalar("VARCHAR", obj[k]) <=> Short(x[k], MaxText)
  BY DEF FitsScalar, Limits, Json
<1>3. DOMAIN obj = DOMAIN x
  OBVIOUS
<1> HIDE DEF obj
<1>4. FitsOne("MAP", Json("object", obj)) <=>
          \A k \in DOMAIN x : Short(k, MaxText) /\ FitsScalar("VARCHAR", obj[k])
  BY <1>3 DEF FitsOne, FitsScalar, Limits, Json
<1>5. \A text : Long(c, text) <=> ~Short(text, MaxText)
  BY DEF Long
<1> QED
  BY <1>1, <1>2, <1>4, <1>5 DEF LongMap

LEMMA FitsList ==
    ASSUME NEW x, NEW type \in {"strArr", "dt64Arr", "mapArr"}, NEW column, Takes(column, type),
           NEW c, c # <<"Body">>
    PROVE  Fits(column, JsonValue(Decoded(type, x))) <=>
               /\ ~(type = "strArr" /\ \E i \in DOMAIN x : Long(c, x[i]))
               /\ ~(type = "mapArr" /\ \E i \in DOMAIN x : LongMap(c, x[i]))
<1> DEFINE json == JsonValue(Decoded(type, x))
           elems == [i \in DOMAIN x |-> JsonOne(DecodedOne(ElementType[type], x[i]))]
<1>1. json = Json("list", elems)
  BY JsonOfList
<1>2. column \in DOMAIN ElementOf /\ column \notin {"MAP", "DATETIME", "VARCHAR", "LONG"}
  BY DEF Takes, ElementOf
<1>3. \A i \in DOMAIN x : elems[i] = JsonOne(DecodedOne(ElementType[type], x[i]))
  OBVIOUS
<1>4. DOMAIN elems = DOMAIN x
  OBVIOUS
<1> HIDE DEF json, elems
<1>5. Fits(column, json) <=> \A i \in DOMAIN x : FitsOne(ElementOf[column], elems[i])
  BY <1>1, <1>2, <1>4 DEF Fits, FitsOne, FitsScalar, Limits, Json
<1>6. \A text : Long(c, text) <=> ~Short(text, MaxText)
  BY DEF Long
<1>7. CASE type = "strArr"
  <2>1. \A i \in DOMAIN x : elems[i] = Json("text", x[i])
    BY <1>3, <1>7, JsonOfScalar DEF ElementType
  <2>2. ElementOf[column] = "VARCHAR"
    BY <1>7 DEF Takes, ElementOf
  <2>3. ASSUME NEW y
        PROVE  FitsOne("VARCHAR", Json("text", y)) <=> Short(y, MaxText)
    BY DEF FitsOne, FitsScalar, Limits, Json
  <2> QED
    BY <1>5, <1>6, <1>7, <2>1, <2>2, <2>3 DEF json
<1>8. CASE type = "dt64Arr"
  <2>1. \A i \in DOMAIN x : elems[i] = Json("time", x[i])
    BY <1>3, <1>8, JsonOfScalar DEF ElementType
  <2>2. ElementOf[column] = "DATETIME"
    BY <1>8 DEF Takes, ElementOf
  <2>3. ASSUME NEW y
        PROVE  FitsOne("DATETIME", Json("time", y))
    BY DEF FitsOne, FitsScalar, Json
  <2> QED
    BY <1>5, <1>8, <2>1, <2>2, <2>3 DEF json
<1>9. CASE type = "mapArr"
  <2>1. \A i \in DOMAIN x : elems[i] = JsonOne(DecodedOne("map", x[i]))
    BY <1>3, <1>9 DEF ElementType
  <2>2. ElementOf[column] = "MAP"
    BY <1>9 DEF Takes, ElementOf
  <2>3. \A i \in DOMAIN x : FitsOne("MAP", elems[i]) <=> ~LongMap(c, x[i])
    BY <2>1, FitsMap
  <2> QED
    BY <1>5, <1>9, <2>2, <2>3 DEF json
<1> QED
  BY <1>7, <1>8, <1>9

-----------------------------------------------------------------------------
\* Documents.

LEMMA ObjectOfKeys ==
    ASSUME NEW S, NEW keys \in Seq(S), NEW record
    PROVE  /\ DOMAIN Object(keys, record) = ToSet(keys)
           /\ \A k \in ToSet(keys) :
                \E i \in DOMAIN keys : keys[i] = k /\ Object(keys, record)[k] = JsonValue(record[i])
<1>1. ASSUME NEW k \in ToSet(keys)
      PROVE  \E i \in DOMAIN keys : keys[i] = k /\ Object(keys, record)[k] = JsonValue(record[i])
  <2> DEFINE I == {i \in 1 .. Len(keys) : keys[i] = k}
  <2>1. I # {} /\ I \in SUBSET (1 .. Len(keys)) /\ Len(keys) \in Nat
    BY DEF ToSet
  <2>2. Max(I) \in I
    BY <2>1, MaxIsIn
  <2>3. Object(keys, record)[k] = JsonValue(record[IF I # {} THEN Max(I) ELSE 0])
    BY DEF Object, SelectLastInSeq
  <2>4. Object(keys, record)[k] = JsonValue(record[Max(I)])
    BY <2>1, <2>3
  <2>5. Max(I) \in DOMAIN keys /\ keys[Max(I)] = k
    BY <2>2
  <2> HIDE DEF I
  <2> QED
    BY <2>4, <2>5
<1>2. DOMAIN Object(keys, record) = ToSet(keys)
  BY DEF Object
<1> QED
  BY <1>1, <1>2

LEMMA TableOfInsert ==
    ASSUME KnownInsert
    PROVE  Agree(Schema(insert), Columns) /\ ToSet(insert.names) \subseteq DOMAIN Schema(insert)
<1>1. insert.table[1] \in DOMAIN InsertSchemas
  BY DEF KnownInsert, Known, Words
<1> QED
  BY <1>1, SchemasAgree DEF KnownInsert, Known, Schema, Columns

LEMMA TypeOfColumn ==
    ASSUME KnownInsert, NEW c \in DOMAIN Columns, c \in ToSet(insert.names)
    PROVE  Takes(Columns[c], Schema(insert)[c]) /\ Schema(insert)[c] \in SchemaTypes
<1>1. Takes(Columns[c], Schema(insert)[c])
  BY TableOfInsert DEF Agree
<1> QED
  BY <1>1 DEF Takes, SchemaTypes

\* A Stream Load has for a column of the table what the row has.
LEMMA FoundInLoad ==
    ASSUME KnownInsert, NEW records, NEW d \in DOMAIN records, NEW row, RowOfInsert(row),
           records[d] = RecordOf(row), NEW c \in DOMAIN Columns
    PROVE  Found(StreamLoad(insert, records), StreamLoad(insert, records).docs[d], c) =
               IF c \in ToSet(insert.names) THEN JsonValue(Decoded(Schema(insert)[c], row[c]))
               ELSE JsonNull
<1> DEFINE names == insert.names
           keys == [i \in DOMAIN names |-> JsonKey(names[i])]
           load == StreamLoad(insert, records)
           doc == Object(keys, RecordOf(row))
<1>1. load.docs[d] = doc /\ DOMAIN load.paths = ToSet(names)
      /\ \A n \in ToSet(names) : load.paths[n] = JsonKey(n)
  BY DEF StreamLoad
<1>2. CASE c \notin ToSet(names)
  BY <1>1, <1>2 DEF Found
<1>3. CASE c \in ToSet(names)
  <2>1. names \in Seq(ToSet(names))
    BY DEF KnownInsert, IsList
  <2>2. \A i \in DOMAIN names : names[i] \in ToSet(names) /\ SchemaName(names[i])
    <3>1. \A i \in DOMAIN names : names[i] \in ToSet(names)
      BY <2>1
    <3> QED
      BY <3>1, TableOfInsert DEF Agree
  <2>3. keys \in Seq({JsonKey(n) : n \in ToSet(names)}) /\ DOMAIN keys = DOMAIN names
    BY <2>1, <2>2
  <2>4. JsonKey(c) \in ToSet(keys)
    BY <1>3, <2>3 DEF ToSet
  <2>5. PICK i \in DOMAIN keys :
                 keys[i] = JsonKey(c) /\ doc[JsonKey(c)] = JsonValue(RecordOf(row)[i])
    <3> HIDE DEF keys
    <3> QED
      BY <2>3, <2>4, ObjectOfKeys
  <2>6. names[i] = c
    <3>1. SchemaName(c) /\ SchemaName(names[i])
      BY <1>3, <2>2, <2>3, TableOfInsert DEF Agree
    <3>2. JsonKey(names[i]) = JsonKey(c)
      BY <2>3, <2>5
    <3> QED
      BY <3>1, <3>2, KeysDiffer
  <2>7. RecordOf(row)[i] = Decoded(Schema(insert)[c], row[c])
    BY <2>3, <2>6 DEF RecordOf
  <2>8. SchemaName(c) /\ JsonKey(c) \in DOMAIN doc
    BY <1>3, <2>3, <2>4, TableOfInsert, ObjectOfKeys DEF Agree
  <2>9. At(doc, JsonKey(c)) = doc[JsonKey(c)]
    <3> HIDE DEF doc
    <3> QED
      BY <2>8, AtJsonKey
  <2>10. Found(load, load.docs[d], c) = At(doc, JsonKey(c))
    <3> HIDE DEF doc, load
    <3> QED
      BY <1>1, <1>3 DEF Found
  <2> HIDE DEF doc, keys
  <2>11. Found(load, load.docs[d], c) = JsonValue(Decoded(Schema(insert)[c], row[c]))
    BY <2>5, <2>7, <2>9, <2>10
  <2> QED
    BY <1>3, <2>11
<1> QED
  BY <1>2, <1>3

\* A Routine Load has the same, but nothing for the columns of Events.
LEMMA FoundInMessage ==
    ASSUME KnownInsert, NEW row, RowOfInsert(row), NEW c \in DOMAIN Columns
    PROVE  LET doc == EncodeRecord(insert, RecordOf(row))
           IN  Found(RoutineLoad(doc), doc, c) =
                   IF c \in ToSet(insert.names) /\ c[1] # "Events"
                   THEN JsonValue(Decoded(Schema(insert)[c], row[c]))
                   ELSE JsonNull
<1> DEFINE names == insert.names
           doc == EncodeRecord(insert, RecordOf(row))
           json == JsonValue(Decoded(Schema(insert)[c], row[c]))
<1>1. names \in Seq(ToSet(names)) /\ TableName(c)
  BY TableOfInsert DEF KnownInsert, IsList, Agree
<1>2. DOMAIN doc = ToSet(names) /\ (c \in ToSet(names) => doc[c] = json)
  <2>1. doc = Object(names, RecordOf(row))
    BY DEF EncodeRecord
  <2>2. DOMAIN Object(names, RecordOf(row)) = ToSet(names)
    BY <1>1, ObjectOfKeys
  <2>3. ASSUME c \in ToSet(names)
        PROVE  Object(names, RecordOf(row))[c] = json
    <3>1. PICK i \in DOMAIN names :
                   names[i] = c /\ Object(names, RecordOf(row))[c] = JsonValue(RecordOf(row)[i])
      BY <1>1, <2>3, ObjectOfKeys
    <3>2. RecordOf(row)[i] = Decoded(Schema(insert)[c], row[c])
      BY <3>1 DEF RecordOf
    <3> QED
      BY <3>1, <3>2
  <2> QED
    BY <2>1, <2>2, <2>3
<1>3. Found(RoutineLoad(doc), doc, c) = At(doc, c)
  BY DEF Found, RoutineLoad
<1> HIDE DEF doc, json
<1>4. CASE Plain(c)
  <2>1. At(doc, c) = Under(Json("object", doc), c)
    <3>1. c \in Seq({c[1]}) /\ \A i \in DOMAIN c : c[i] # "."
      <4> DEFINE w == c[1]
      <4>1. w # "." /\ c = <<w>>
        BY <1>4 DEF Plain
      <4> HIDE DEF w
      <4>2. c \in Seq({w}) /\ \A i \in DOMAIN c : c[i] # "."
        BY <4>1
      <4> QED
        BY <4>2 DEF w
    <3> QED
      BY <3>1, AtKey
  <2>2. Under(Json("object", doc), c) = IF c \in ToSet(names) THEN json ELSE JsonNull
    BY <1>2 DEF Under, Json
  <2>3. c[1] # "Events"
    BY <1>4 DEF Plain
  <2> QED
    BY <1>3, <2>1, <2>2, <2>3 DEF doc, json
<1>5. CASE FieldOf(c, {"Events"})
  <2>1. At(doc, c) = Under(Under(Json("object", doc), <<c[1]>>), <<c[3]>>)
    BY <1>5, AtField
  <2>2. c[1] = "Events"
    BY <1>5 DEF FieldOf
  <2>3. <<"Events">> \notin ToSet(names)
    <3>1. ~SchemaName(<<"Events">>)
      BY DEF SchemaName, Plain, FieldOf
    <3> QED
      BY <3>1, TableOfInsert DEF Agree
  <2>4. Under(Json("object", doc), <<c[1]>>) = JsonNull
    BY <1>2, <2>2, <2>3 DEF Under, Json
  <2>5. Under(JsonNull, <<c[3]>>) = JsonNull
    BY DEF Under, JsonNull, Json
  <2> QED
    BY <1>3, <2>1, <2>2, <2>4, <2>5 DEF doc, json
<1> QED
  BY <1>1, <1>4, <1>5 DEF TableName

-----------------------------------------------------------------------------
\* Rows.

LEMMA FitsColumn ==
    ASSUME KnownInsert, NEW c \in DOMAIN Columns, c \in ToSet(insert.names),
           NEW x, IsOf(Schema(insert)[c], x)
    PROVE  Fits(Columns[c], JsonValue(Decoded(Schema(insert)[c], x)))
               <=> ~Overflows(Schema(insert)[c], x) /\ ~TooLong(c, x)
<1> DEFINE type == Schema(insert)[c]
           json == JsonValue(Decoded(type, x))
<1>1. /\ Takes(Columns[c], type) /\ type \in SchemaTypes
      /\ Columns[c] = "LONG" <=> c = <<"Body">>
  BY TypeOfColumn, TableOfInsert DEF Agree
<1>2. TooLong(c, x) <=>
          \/ type = "str" /\ Long(c, x)
          \/ type = "map" /\ LongMap(c, x)
          \/ type = "strArr" /\ \E i \in DOMAIN x : Long(c, x[i])
          \/ type = "mapArr" /\ \E i \in DOMAIN x : LongMap(c, x[i])
  BY DEF TooLong
<1> DEFINE column == Columns[c]
<1>3. IsOf(type, x) /\ Takes(column, type) /\ (column = "LONG" <=> c = <<"Body">>)
  BY <1>1
<1> HIDE DEF type, column
<1>4. CASE type \in {"str", "dt64", "i32", "u32", "i64", "u64"}
  <2>1. Fits(column, json) <=> ~Overflows(type, x) /\ ~(type = "str" /\ Long(c, x))
    BY <1>3, <1>4, FitsScalarColumn
  <2> QED
    BY <1>2, <1>4, <2>1 DEF type, column
<1>5. CASE type = "map"
  <2>1. c # <<"Body">> /\ column = "MAP"
    BY <1>3, <1>5 DEF Takes
  <2>2. json = JsonOne(DecodedOne("map", x))
    BY <1>5, JsonOfOne
  <2>3. Fits("MAP", json) <=> FitsOne("MAP", json)
    BY DEF Fits, ElementOf
  <2>4. Fits(column, json) <=> ~LongMap(c, x)
    BY <2>1, <2>2, <2>3, FitsMap
  <2> QED
    BY <1>2, <1>5, <2>4 DEF type, column, Overflows
<1>6. CASE type \in {"strArr", "dt64Arr", "mapArr"}
  <2>1. c # <<"Body">>
    BY <1>3, <1>6 DEF Takes
  <2>2. Fits(column, json) <=>
            /\ ~(type = "strArr" /\ \E i \in DOMAIN x : Long(c, x[i]))
            /\ ~(type = "mapArr" /\ \E i \in DOMAIN x : LongMap(c, x[i]))
    BY <1>3, <1>6, <2>1, FitsList
  <2>3. ~Overflows(type, x)
    BY <1>6 DEF Overflows
  <2> QED
    BY <1>2, <1>6, <2>2, <2>3 DEF type, column
<1> QED
  BY <1>1, <1>4, <1>5, <1>6 DEF SchemaTypes, type

\* The columns of a key are of the table, and none of Events.
LEMMA KeyOfTable ==
    ASSUME KnownInsert, NEW c \in Key
    PROVE  c \in DOMAIN Columns /\ c[1] # "Events"
<1>1. insert.table = <<"profiling_stacks">> /\ c \in Words({"ServiceName", "Hash"})
  BY DEF Key
<1>2. Columns = StacksTable
  BY <1>1 DEF Columns, Tables
<1>3. Words({"ServiceName", "Hash"}) \subseteq DOMAIN StacksTable
  BY DEF StacksTable, Typed, Words
<1>4. \A k \in Words({"ServiceName", "Hash"}) : k[1] # "Events"
  BY DEF Words
<1> QED
  BY <1>1, <1>2, <1>3, <1>4

\* What is found for a column becomes what is stored of it; it fits unless it
\* overflows or is too long.
LEMMA CellOfColumn ==
    ASSUME KnownInsert, NEW row, RowOfInsert(row), NEW c \in DOMAIN Columns, NEW json,
           json = IF c \in ToSet(insert.names) THEN JsonValue(Decoded(Schema(insert)[c], row[c]))
                  ELSE JsonNull
    PROVE  /\ (IF Fits(Columns[c], json) THEN Cell(json) ELSE Nothing) = Stored(row)[c]
           /\ Stored(row)[c] = Nothing =>
                c \notin DOMAIN row \/ Overflows(Schema(insert)[c], row[c]) \/ TooLong(c, row[c])
           /\ Columns[c] \notin {"INT", "BIGINT"} /\ ~Fits(Columns[c], json) =>
                c \in DOMAIN row /\ TooLong(c, row[c])
<1>1. DOMAIN row = ToSet(insert.names)
  BY DEF RowOfInsert
<1>2. CASE c \in ToSet(insert.names)
  <2> DEFINE type == Schema(insert)[c]
             x == row[c]
  <2>1. IsOf(type, x) /\ type \in SchemaTypes /\ Takes(Columns[c], type)
    BY <1>1, <1>2, TypeOfColumn DEF RowOfInsert
  <2>2. Fits(Columns[c], json) <=> ~Overflows(type, x) /\ ~TooLong(c, x)
    BY <1>2, <2>1, FitsColumn
  <2>3. Cell(json) = <<InMicroseconds(type, x)>>
    BY <1>2, <2>1, CellAsMeant
  <2>4. Stored(row)[c] = IF ~Overflows(type, x) /\ ~TooLong(c, x)
                         THEN <<InMicroseconds(type, x)>> ELSE Nothing
    BY <1>1, <1>2 DEF Stored, Sent
  <2>5. <<InMicroseconds(type, x)>> # Nothing
    BY DEF Nothing
  <2>6. Columns[c] \notin {"INT", "BIGINT"} => ~Overflows(type, x)
    BY <2>1 DEF Takes, Overflows
  <2> HIDE DEF type, x
  <2> QED
    BY <1>1, <1>2, <2>2, <2>3, <2>4, <2>5, <2>6 DEF type, x
<1>3. CASE c \notin ToSet(insert.names)
  <2>1. Cell(JsonNull) = Nothing /\ Fits(Columns[c], JsonNull)
    BY DEF Cell, Fits, FitsOne, FitsScalar, JsonNull, Json
  <2>2. Stored(row)[c] = Nothing
    BY <1>1, <1>3 DEF Stored, Sent
  <2> QED
    BY <1>1, <1>3, <2>1, <2>2
<1> QED
  BY <1>2, <1>3

\* A Stream Load makes of a row what is stored of it, and refuses it only if it is at
\* fault.
LEMMA RowOfLoad ==
    ASSUME KnownInsert, NEW records, NEW d \in DOMAIN records, NEW row, RowOfInsert(row),
           records[d] = RecordOf(row)
    PROVE  LET load == StreamLoad(insert, records)
           IN  /\ RowOf(load, load.docs[d]) = Stored(row)
               /\ Refusable(load, load.docs[d]) => HasFault(row)
<1> DEFINE load == StreamLoad(insert, records)
           doc == load.docs[d]
           json(c) == Found(load, doc, c)
<1>1. \A c \in DOMAIN Columns :
        json(c) = IF c \in ToSet(insert.names) THEN JsonValue(Decoded(Schema(insert)[c], row[c]))
                  ELSE JsonNull
  BY FoundInLoad
<1> HIDE DEF load
<1>2. ASSUME NEW c \in DOMAIN Columns
      PROVE  /\ (IF Fits(Columns[c], json(c)) THEN Cell(json(c)) ELSE Nothing) = Stored(row)[c]
             /\ Stored(row)[c] = Nothing =>
                  c \notin DOMAIN row \/ Overflows(Schema(insert)[c], row[c]) \/ TooLong(c, row[c])
             /\ Columns[c] \notin {"INT", "BIGINT"} /\ ~Fits(Columns[c], json(c)) =>
                  c \in DOMAIN row /\ TooLong(c, row[c])
  BY <1>1, CellOfColumn
<1>3. RowOf(load, doc) = Stored(row)
  <2>1. RowOf(load, doc) = [c \in DOMAIN Columns |-> Stored(row)[c]]
    BY <1>2 DEF RowOf
  <2>2. Stored(row) = [c \in DOMAIN Columns |-> Stored(row)[c]]
    BY DEF Stored
  <2> QED
    BY <2>1, <2>2
<1>4. ASSUME Refusable(load, doc)
      PROVE  HasFault(row)
  <2>1. CASE Refused(load, doc)
    <3>1. PICK c \in Key : Stored(row)[c] = Nothing
      BY <1>3, <2>1 DEF Refused
    <3>2. c \in DOMAIN Columns
      BY <3>1, KeyOfTable
    <3> QED
      BY <1>2, <3>1, <3>2 DEF HasFault
  <2>2. CASE ~Refused(load, doc)
    <3>1. PICK c \in DOMAIN Columns :
                   Columns[c] \notin {"INT", "BIGINT"} /\ ~Fits(Columns[c], json(c))
      BY <1>4, <2>2 DEF Refusable
    <3> QED
      BY <1>2, <3>1 DEF HasFault
  <2> QED
    BY <2>1, <2>2
<1> QED
  BY <1>3, <1>4 DEF load

\* A Routine Load makes of a message the same, without the columns of Events.
LEMMA RowOfMessage ==
    ASSUME KnownInsert, NEW row, RowOfInsert(row)
    PROVE  LET doc == EncodeRecord(insert, RecordOf(row))
               load == RoutineLoad(doc)
           IN  /\ RowOf(load, doc) = Routed(row)
               /\ Refusable(load, doc) => HasFault(row)
<1> DEFINE doc == EncodeRecord(insert, RecordOf(row))
           load == RoutineLoad(doc)
           json(c) == Found(load, doc, c)
<1>1. \A c \in DOMAIN Columns :
        json(c) = IF c \in ToSet(insert.names) /\ c[1] # "Events"
                  THEN JsonValue(Decoded(Schema(insert)[c], row[c])) ELSE JsonNull
  BY FoundInMessage
<1> HIDE DEF load, doc
<1>2. ASSUME NEW c \in DOMAIN Columns, c[1] # "Events"
      PROVE  /\ (IF Fits(Columns[c], json(c)) THEN Cell(json(c)) ELSE Nothing) = Stored(row)[c]
             /\ Stored(row)[c] = Nothing =>
                  c \notin DOMAIN row \/ Overflows(Schema(insert)[c], row[c]) \/ TooLong(c, row[c])
             /\ Columns[c] \notin {"INT", "BIGINT"} /\ ~Fits(Columns[c], json(c)) =>
                  c \in DOMAIN row /\ TooLong(c, row[c])
  BY <1>1, <1>2, CellOfColumn
<1>3. ASSUME NEW c \in DOMAIN Columns, c[1] = "Events"
      PROVE  Fits(Columns[c], json(c)) /\ Cell(json(c)) = Nothing
  <2>1. json(c) = JsonNull
    BY <1>1, <1>3
  <2> HIDE DEF json
  <2> QED
    BY <2>1 DEF Cell, Fits, FitsOne, FitsScalar, JsonNull, Json
<1>4. RowOf(load, doc) = Routed(row)
  <2>1. \A c \in DOMAIN Columns :
          (IF Fits(Columns[c], json(c)) THEN Cell(json(c)) ELSE Nothing) = Routed(row)[c]
    BY <1>2, <1>3 DEF Routed
  <2>2. RowOf(load, doc) = [c \in DOMAIN Columns |-> Routed(row)[c]]
    BY <2>1 DEF RowOf
  <2>3. Routed(row) = [c \in DOMAIN Columns |-> Routed(row)[c]]
    BY DEF Routed
  <2> QED
    BY <2>2, <2>3
<1>5. ASSUME Refusable(load, doc)
      PROVE  HasFault(row)
  <2>1. CASE Refused(load, doc)
    <3>1. PICK c \in Key : Routed(row)[c] = Nothing
      BY <1>4, <2>1 DEF Refused
    <3>2. c \in DOMAIN Columns /\ c[1] # "Events"
      BY <3>1, KeyOfTable
    <3>3. Stored(row)[c] = Nothing
      BY <3>1, <3>2 DEF Routed
    <3> QED
      BY <1>2, <3>2, <3>3 DEF HasFault
  <2>2. CASE ~Refused(load, doc)
    <3>1. PICK c \in DOMAIN Columns :
                   Columns[c] \notin {"INT", "BIGINT"} /\ ~Fits(Columns[c], json(c))
      BY <1>5, <2>2 DEF Refusable
    <3>2. c[1] # "Events"
      BY <1>3, <3>1
    <3> QED
      BY <1>2, <3>1, <3>2 DEF HasFault
  <2> QED
    BY <2>1, <2>2
<1> QED
  BY <1>4, <1>5 DEF load, doc

\* What is not NULL in the key is as it was sent, so that rows of one key are of the
\* key that was sent.
LEMMA KeyAsSent ==
    ASSUME KnownInsert, NEW row, NEW held, NEW new, SameKey(held, new),
           new = Stored(row) \/ new = Routed(row), \A c \in Key : new[c] # Nothing
    PROVE  SameKey(held, Sent(row))
<1>1. ASSUME NEW c \in Key
      PROVE  new[c] = Sent(row)[c]
  <2>1. c \in DOMAIN Columns /\ c[1] # "Events" /\ new[c] # Nothing
    BY KeyOfTable
  <2> QED
    BY <2>1 DEF Stored, Routed
<1> QED
  BY <1>1 DEF SameKey

LEMMA OwnList ==
    ASSUME NEW n \in Nat, NEW s, s = [i \in 1 .. n |-> s[i]]
    PROVE  IsList(s) /\ Len(s) = n
<1>1. s \in [1 .. n -> ToSet(s)]
  BY DEF ToSet
<1> QED
  BY <1>1, OfLength DEF IsList

-----------------------------------------------------------------------------
\* The invariant.

\* What depends on the INSERT alone.
LEMMA InsertStays ==
    ASSUME UNCHANGED insert
    PROVE  /\ KnownInsert' <=> KnownInsert
           /\ \A row : /\ RowOfInsert(row)' <=> RowOfInsert(row)
                       /\ RecordOf(row)' = RecordOf(row)
                       /\ Sent(row)' = Sent(row)
                       /\ Routed(row)' = Routed(row)
                       /\ HasFault(row)' <=> HasFault(row)
<1>1. Columns' = Columns /\ Key' = Key
  BY DEF Columns, Key
<1>2. KnownInsert' <=> KnownInsert
  BY DEF KnownInsert
<1>3. ASSUME NEW row
      PROVE  /\ RowOfInsert(row)' <=> RowOfInsert(row)
             /\ RecordOf(row)' = RecordOf(row)
  BY DEF RowOfInsert, RecordOf
<1>4. ASSUME NEW row
      PROVE  Sent(row)' = Sent(row)
  BY <1>1 DEF Sent
<1>5. ASSUME NEW c, NEW x
      PROVE  TooLong(c, x)' <=> TooLong(c, x)
  BY DEF TooLong
<1>6. ASSUME NEW row
      PROVE  Routed(row)' = Routed(row)
  BY <1>1, <1>4, <1>5 DEF Routed, Stored
<1>7. ASSUME NEW row
      PROVE  HasFault(row)' <=> HasFault(row)
  BY <1>1, <1>5 DEF HasFault
<1> QED
  BY <1>2, <1>3, <1>4, <1>6, <1>7

\* What a step that changes the table alone makes of its rows.
LEMMA TableNext ==
    ASSUME UNCHANGED <<insert, block>>, NEW r
    PROVE  /\ InTable(r)' <=> \E k \in DOMAIN table' : k = r \/ SameKey(table'[k], Sent(block[r]))
           /\ \A c : Holds(table[r], block[r], c)' <=> Holds(table'[r], block[r], c)
<1>1. Sent(block[r])' = Sent(block[r]) /\ Key' = Key
  BY DEF Sent, Columns, Key
<1>2. ASSUME NEW c, NEW x
      PROVE  TooLong(c, x)' <=> TooLong(c, x)
  BY DEF TooLong
<1>3. InTable(r)' <=> \E k \in DOMAIN table' : k = r \/ SameKey(table'[k], Sent(block[r]))
  BY <1>1 DEF InTable, SameKey
<1>4. ASSUME NEW c
      PROVE  Holds(table[r], block[r], c)' <=> Holds(table'[r], block[r], c)
  BY <1>1, <1>2 DEF Holds
<1> QED
  BY <1>3, <1>4

\* A step that changes no row.
LEMMA RowStays ==
    ASSUME UNCHANGED <<insert, block, table>>, NEW r, NEW c
    PROVE  /\ InTable(r)' <=> InTable(r)
           /\ Holds(table[r], block[r], c)' <=> Holds(table[r], block[r], c)
           /\ Routed(block[r])' = Routed(block[r])
           /\ RecordOf(block[r])' = RecordOf(block[r])
<1>1. InTable(r)' <=> InTable(r)
  BY TableNext DEF InTable
<1>2. Holds(table[r], block[r], c)' <=> Holds(table[r], block[r], c)
  BY TableNext
<1>3. Routed(block[r])' = Routed(block[r]) /\ RecordOf(block[r])' = RecordOf(block[r])
  BY DEF Routed, Stored, Sent, TooLong, Columns, RecordOf
<1> QED
  BY <1>1, <1>2, <1>3

LEMMA ByKafkaStays ==
    ASSUME ByKafka, UNCHANGED <<config, pc, insert, block, topic, table>>
    PROVE  ByKafka'
<1>1. ASSUME NEW r, InTable(r)
      PROVE  InTable(r)'
  BY <1>1, RowStays
<1>2. ASSUME NEW r
      PROVE  Routed(block[r])' = Routed(block[r]) /\ RecordOf(block[r])' = RecordOf(block[r])
  BY RowStays
<1> QED
  BY <1>1, <1>2 DEF ByKafka

LEMMA IngestInitially == Init => IngestInv
<1>1. IsList(<<>>)
  BY DEF IsList
<1> QED
  BY <1>1 DEF Init, IngestInv, ConfigRead, InsertRead, BlockRead, NothingYet, RowsArrive, FailedFor,
              ByKafka

LEMMA StartKeeps == IngestInv /\ Start => IngestInv'
<1> SUFFICES ASSUME IngestInv, Start
             PROVE  IngestInv'
  OBVIOUS
<1>1. /\ pc = "start" /\ pc' \in {"insert", "exited"} /\ config' = FromEnv(env)
      /\ UNCHANGED <<env, written, insert, block, topic, table, stopped>>
  BY DEF Start
<1>2. table = <<>> /\ topic = <<>> /\ ~stopped /\ IsList(block) /\ written \in DOMAIN Headers
  BY <1>1 DEF IngestInv, NothingYet, BlockRead, InsertRead
<1> QED
  BY <1>1, <1>2 DEF IngestInv, ConfigRead, InsertRead, BlockRead, NothingYet, RowsArrive, FailedFor,
                    ByKafka

LEMMA ReadInsertKeeps == IngestInv /\ ReadInsert => IngestInv'
<1> SUFFICES ASSUME IngestInv, ReadInsert
             PROVE  IngestInv'
  OBVIOUS
<1>1. /\ pc = "insert" /\ insert' = Headers[written]
      /\ pc' \in {"block", "rejected"} /\ (pc' = "block" => Known(insert'))
      /\ UNCHANGED <<env, config, written, block, topic, table, stopped>>
  BY DEF ReadInsert
<1>2. /\ table = <<>> /\ topic = <<>> /\ ~stopped /\ IsList(block)
      /\ written \in DOMAIN Headers /\ config = FromEnv(env)
  BY <1>1 DEF IngestInv, NothingYet, BlockRead, InsertRead, ConfigRead
<1>3. IsList(insert'.names)
  BY <1>1, <1>2, IngestAssumption DEF IsList
<1>4. pc' = "block" => KnownInsert'
  BY <1>1, <1>3 DEF KnownInsert
<1>5. ConfigRead' /\ InsertRead'
  BY <1>1, <1>2, <1>4 DEF ConfigRead, InsertRead
<1>6. BlockRead' /\ NothingYet' /\ RowsArrive' /\ FailedFor' /\ ByKafka'
  BY <1>1, <1>2 DEF BlockRead, NothingYet, RowsArrive, FailedFor, ByKafka
<1> QED
  BY <1>5, <1>6 DEF IngestInv

LEMMA SendBlockKeeps == IngestInv /\ SendBlock => IngestInv'
<1> SUFFICES ASSUME IngestInv, SendBlock
             PROVE  IngestInv'
  OBVIOUS
<1>1. pc = "block" /\ pc' = "write"
      /\ UNCHANGED <<env, config, written, insert, topic, table, stopped>>
  BY DEF SendBlock
<1>2. /\ table = <<>> /\ topic = <<>> /\ ~stopped /\ KnownInsert
      /\ written \in DOMAIN Headers /\ config = FromEnv(env)
  BY <1>1 DEF IngestInv, NothingYet, InsertRead, ConfigRead
<1>3. PICK n \in 1 .. MaxRows : \E rows \in [1 .. n -> CorootRows] :
              block' = [r \in DOMAIN rows |-> [c \in ToSet(insert.names) |-> rows[r][c]]]
  BY DEF SendBlock
<1> PICK rows \in [1 .. n -> CorootRows] :
             block' = [r \in DOMAIN rows |-> [c \in ToSet(insert.names) |-> rows[r][c]]]
  BY <1>3
<1>4. n \in Nat
  BY IngestAssumption
<1>5. DOMAIN block' = 1 .. n /\ block' = [r \in 1 .. n |-> block'[r]]
  OBVIOUS
<1>6. IsList(block')
  BY <1>4, <1>5, OwnList
<1>7. ASSUME NEW r \in DOMAIN block'
      PROVE  RowOfInsert(block[r])'
  <2>1. block'[r] = [c \in ToSet(insert.names) |-> rows[r][c]] /\ rows[r] \in CorootRows
    BY <1>5, <1>7
  <2>2. DOMAIN block'[r] = ToSet(insert.names)
        /\ \A c \in ToSet(insert.names) : block'[r][c] = rows[r][c]
    BY <2>1
  <2>3. \A c \in ToSet(insert.names) : IsOf(Schema(insert)[c], rows[r][c])
    <3>1. insert.table[1] \in DOMAIN InsertSchemas
      BY <1>2 DEF KnownInsert, Known, Words
    <3> QED
      BY <1>2, <2>1, <3>1, TableOfInsert, IngestAssumption DEF Schema
  <2> QED
    BY <1>1, <2>2, <2>3 DEF RowOfInsert
<1>8. ConfigRead' /\ InsertRead'
  BY <1>1, <1>2, InsertStays DEF ConfigRead, InsertRead
<1>9. BlockRead'
  BY <1>6, <1>7 DEF BlockRead
<1>10. NothingYet' /\ RowsArrive' /\ FailedFor' /\ ByKafka'
  BY <1>1, <1>2 DEF NothingYet, RowsArrive, FailedFor, ByKafka
<1> QED
  BY <1>8, <1>9, <1>10 DEF IngestInv

\* A step that leaves the block and the INSERT alone.
LEMMA BlockStays ==
    ASSUME IngestInv, pc \in {"write", "acked", "failed"}, pc' \in {"write", "acked", "failed"},
           UNCHANGED <<env, config, written, insert, block>>
    PROVE  /\ ConfigRead' /\ InsertRead' /\ BlockRead'
           /\ KnownInsert /\ IsList(block) /\ \A r \in DOMAIN block : RowOfInsert(block[r])
<1>1. ConfigRead /\ InsertRead /\ BlockRead
  BY DEF IngestInv
<1>2. ConfigRead' /\ InsertRead'
  BY <1>1, InsertStays DEF ConfigRead, InsertRead
<1>3. BlockRead'
  BY <1>1 DEF BlockRead, RowOfInsert
<1> QED
  BY <1>1, <1>2, <1>3 DEF InsertRead, BlockRead

LEMMA WriteToStarRocksKeeps == IngestInv /\ WriteToStarRocks => IngestInv'
<1> SUFFICES ASSUME IngestInv, WriteToStarRocks
             PROVE  IngestInv'
  OBVIOUS
<1> DEFINE records == Records(insert, block)
           load == StreamLoad(insert, records)
           rows == [d \in DOMAIN load.docs |-> RowOf(load, load.docs[d])]
<1>1. /\ pc = "write" /\ config.sink = "starrocks" /\ pc' \in {"acked", "failed"}
      /\ UNCHANGED <<env, config, written, insert, block, topic, stopped>>
  BY DEF WriteToStarRocks
<1>2. pc' = "acked" =>
        /\ \A d \in DOMAIN rows : ~Refused(load, load.docs[d])
        /\ \E kept \in SUBSET DOMAIN rows :
             /\ \A d \in DOMAIN rows : \E k \in kept : k = d \/ SameKey(rows[k], rows[d])
             /\ table' = Restrict(rows, kept)
  BY DEF WriteToStarRocks
<1>3. pc' = "failed" =>
        /\ UNCHANGED table
        /\ config.database = "" \/ \E d \in DOMAIN rows : Refusable(load, load.docs[d])
  BY DEF WriteToStarRocks
<1>4. /\ ConfigRead' /\ InsertRead' /\ BlockRead'
      /\ KnownInsert /\ \A r \in DOMAIN block : RowOfInsert(block[r])
  <2> HIDE DEF load, rows
  <2> QED
    BY <1>1, BlockStays
<1>5. table = <<>> /\ topic = <<>> /\ ~stopped
  BY <1>1 DEF IngestInv, NothingYet
<1>6. DOMAIN load.docs = DOMAIN block
  BY DEF StreamLoad, Records
<1>7. ASSUME NEW r \in DOMAIN block
      PROVE  /\ RowOf(load, load.docs[r]) = Stored(block[r])
             /\ Refusable(load, load.docs[r]) => HasFault(block[r])
  <2>1. r \in DOMAIN records /\ records[r] = RecordOf(block[r])
    BY DEF Records, RecordOf
  <2> HIDE DEF records
  <2> QED
    BY <1>4, <2>1, RowOfLoad
<1> HIDE DEF load
<1>8. DOMAIN rows = DOMAIN block /\ \A r \in DOMAIN block : rows[r] = Stored(block[r])
  BY <1>6, <1>7
<1> HIDE DEF rows
<1>9. NothingYet' /\ ByKafka'
  BY <1>1, <1>3, <1>5 DEF NothingYet, ByKafka
<1>10. ASSUME pc' = "acked"
       PROVE  RowsArrive'
  <2>1. PICK kept \in SUBSET DOMAIN rows :
               /\ \A d \in DOMAIN rows : \E k \in kept : k = d \/ SameKey(rows[k], rows[d])
               /\ table' = Restrict(rows, kept)
    BY <1>2, <1>10
  <2>2. DOMAIN table' = kept /\ \A k \in kept : k \in DOMAIN block /\ table'[k] = Stored(block[k])
    BY <1>8, <2>1 DEF Restrict
  <2>3. ASSUME NEW r \in kept, NEW c \in DOMAIN Columns
        PROVE  Holds(table'[r], block[r], c)
    BY <2>2 DEF Holds, Stored
  <2>4. ASSUME NEW r \in DOMAIN block
        PROVE  \E k \in DOMAIN table' : k = r \/ SameKey(table'[k], Sent(block[r]))
    <3>1. PICK k \in kept : k = r \/ SameKey(rows[k], rows[r])
      BY <1>8, <2>1
    <3>2. \A c \in Key : Stored(block[r])[c] # Nothing
      BY <1>2, <1>7, <1>8, <1>10 DEF Refused
    <3>3. rows[k] = table'[k] /\ rows[r] = Stored(block[r])
      BY <1>8, <2>2
    <3>4. SameKey(rows[k], rows[r]) => SameKey(table'[k], Sent(block[r]))
      BY <1>4, <3>2, <3>3, KeyAsSent
    <3> QED
      BY <2>2, <3>1, <3>4
  <2>5. Columns' = Columns
    BY <1>1 DEF Columns
  <2> QED
    BY <1>1, <2>2, <2>3, <2>4, <2>5, TableNext DEF RowsArrive
<1>11. RowsArrive'
  BY <1>1, <1>10 DEF RowsArrive
<1>12. FailedFor'
  <2>1. CASE pc' = "acked"
    BY <1>1, <1>5, <2>1 DEF FailedFor
  <2>2. CASE pc' = "failed"
    <3>1. config.database = "" \/ \E r \in DOMAIN block : HasFault(block[r])
      BY <1>3, <1>7, <1>8, <2>2
    <3>2. \A r : HasFault(block[r])' <=> HasFault(block[r])
      BY <1>1 DEF HasFault, Columns, Key, TooLong
    <3> QED
      BY <1>1, <1>5, <3>1, <3>2 DEF FailedFor
  <2> QED
    BY <1>1, <2>1, <2>2
<1> QED
  BY <1>4, <1>9, <1>11, <1>12 DEF IngestInv

LEMMA WriteToKafkaKeeps == IngestInv /\ WriteToKafka => IngestInv'
<1> SUFFICES ASSUME IngestInv, WriteToKafka
             PROVE  IngestInv'
  OBVIOUS
<1> DEFINE records == Records(insert, block)
           messages == [r \in DOMAIN records |-> EncodeRecord(insert, records[r])]
<1>1. /\ pc = "write" /\ config.sink = "kafka"
      /\ UNCHANGED <<env, config, written, insert, block, table, stopped>>
      /\ \/ pc' = "acked" /\ topic' = messages
         \/ pc' = "failed" /\ UNCHANGED topic
  BY DEF WriteToKafka
<1>2. /\ DOMAIN messages = DOMAIN block
      /\ \A r \in DOMAIN block : messages[r] = EncodeRecord(insert, RecordOf(block[r]))
  BY DEF Records, RecordOf
<1> HIDE DEF messages
<1>3. ConfigRead' /\ InsertRead' /\ BlockRead'
  BY <1>1, BlockStays
<1>4. table = <<>> /\ topic = <<>> /\ ~stopped
  BY <1>1 DEF IngestInv, NothingYet
<1>5. NothingYet' /\ RowsArrive' /\ FailedFor'
  BY <1>1, <1>4 DEF NothingYet, RowsArrive, FailedFor
<1>6. ASSUME pc' = "acked"
      PROVE  ByKafka'
  <2>1. topic' = messages /\ DOMAIN table' = {}
    BY <1>1, <1>4, <1>6
  <2>2. \A r : RecordOf(block[r])' = RecordOf(block[r])
    BY <1>1 DEF RecordOf
  <2> QED
    BY <1>1, <1>2, <2>1, <2>2 DEF ByKafka
<1>7. ByKafka'
  BY <1>1, <1>6 DEF ByKafka
<1> QED
  BY <1>3, <1>5, <1>7 DEF IngestInv

\* Where a message is taken from.
LEMMA OfTopic ==
    ASSUME IngestInv, NEW r \in DOMAIN topic
    PROVE  /\ pc = "acked" /\ config.sink = "kafka" /\ r \in DOMAIN block
           /\ LET load == RoutineLoad(topic[r])
              IN  /\ RowOf(load, topic[r]) = Routed(block[r])
                  /\ Refusable(load, topic[r]) => HasFault(block[r])
<1>1. pc = "acked" /\ config.sink = "kafka"
  BY DEF IngestInv, NothingYet
<1>2. r \in DOMAIN block /\ topic[r] = EncodeRecord(insert, RecordOf(block[r]))
  BY <1>1 DEF IngestInv, ByKafka
<1>3. KnownInsert /\ RowOfInsert(block[r])
  BY <1>1, <1>2 DEF IngestInv, InsertRead, BlockRead
<1> QED
  BY <1>1, <1>2, <1>3, RowOfMessage

LEMMA ConsumeKeeps ==
    ASSUME IngestInv, NEW r, Consume(r)
    PROVE  IngestInv'
<1> DEFINE load == RoutineLoad(topic[r])
           row == RowOf(load, topic[r])
           others == {k \in DOMAIN table : ~SameKey(table[k], row)}
<1>1. /\ r \in DOMAIN topic /\ ~Refused(load, topic[r])
      /\ table' = [k \in others \cup {r} |-> IF k = r THEN row ELSE table[k]]
      /\ topic' = Restrict(topic, DOMAIN topic \ {r})
      /\ UNCHANGED <<env, config, written, pc, insert, block, stopped>>
  BY DEF Consume
<1>2. pc = "acked" /\ config.sink = "kafka" /\ r \in DOMAIN block /\ row = Routed(block[r])
  BY <1>1, OfTopic
<1>3. \A c \in Key : row[c] # Nothing
  BY <1>1 DEF Refused
<1> HIDE DEF load, row
<1>4. ConfigRead' /\ InsertRead' /\ BlockRead' /\ KnownInsert
  <2> HIDE DEF others
  <2> QED
    BY <1>1, <1>2, BlockStays
<1>5. /\ \A x \in DOMAIN topic :
           x \in DOMAIN block /\ topic[x] = EncodeRecord(insert, RecordOf(block[x]))
      /\ \A x \in DOMAIN table : x \in DOMAIN block /\ table[x] = Routed(block[x])
      /\ \A x \in DOMAIN block : x \in DOMAIN topic \/ InTable(x)
  BY <1>2 DEF IngestInv, ByKafka
<1>6. NothingYet' /\ RowsArrive'
  BY <1>1, <1>2 DEF NothingYet, RowsArrive
<1>7. FailedFor'
  <2>1. \A x : HasFault(block[x])' <=> HasFault(block[x])
    BY <1>1 DEF HasFault, Columns, Key, TooLong
  <2> QED
    BY <1>1, <1>2, <2>1 DEF IngestInv, FailedFor
<1>8. DOMAIN topic' = DOMAIN topic \ {r} /\ \A x \in DOMAIN topic' : topic'[x] = topic[x]
  BY <1>1 DEF Restrict
<1>9. /\ DOMAIN table' = others \cup {r} /\ table'[r] = row
      /\ \A x \in others : table'[x] = table[x]
  BY <1>1, <1>2, <1>5
<1>10. ASSUME NEW x \in DOMAIN block, x \notin DOMAIN topic'
       PROVE  \E k \in DOMAIN table' : k = x \/ SameKey(table'[k], Sent(block[x]))
  <2>1. CASE x = r
    BY <1>9, <2>1
  <2>2. CASE x # r
    <3>1. PICK k \in DOMAIN table : k = x \/ SameKey(table[k], Sent(block[x]))
      BY <1>5, <1>8, <1>10, <2>2 DEF InTable
    <3>2. CASE k \in others
      BY <1>9, <3>1, <3>2
    <3>3. CASE k \notin others
      <4>1. SameKey(table[k], row)
        BY <3>1, <3>3
      <4>2. CASE k = x
        <5>1. table[k] = Routed(block[x])
          BY <1>5, <3>1, <4>2
        <5>2. SameKey(row, table[k]) /\ \A c \in Key : table[k][c] # Nothing
          BY <1>3, <4>1 DEF SameKey
        <5>3. SameKey(row, Sent(block[x]))
          BY <1>4, <5>1, <5>2, KeyAsSent
        <5> QED
          BY <1>9, <5>3
      <4>3. CASE SameKey(table[k], Sent(block[x]))
        <5>1. SameKey(row, Sent(block[x]))
          BY <4>1, <4>3 DEF SameKey
        <5> QED
          BY <1>9, <5>1
      <4> QED
        BY <3>1, <4>2, <4>3
    <3> QED
      BY <3>2, <3>3
  <2> QED
    BY <2>1, <2>2
<1>11. \A x \in DOMAIN table' : x \in DOMAIN block /\ table'[x] = Routed(block[x])
  BY <1>2, <1>5, <1>9
<1> HIDE DEF others
<1>12. ByKafka'
  <2>1. \A x : Routed(block[x])' = Routed(block[x]) /\ RecordOf(block[x])' = RecordOf(block[x])
    BY <1>1 DEF Routed, Stored, Sent, TooLong, Columns, RecordOf
  <2>2. \A x \in DOMAIN topic' :
          x \in DOMAIN block /\ topic'[x] = EncodeRecord(insert, RecordOf(block[x]))
    BY <1>5, <1>8
  <2>3. \A x \in DOMAIN block : x \in DOMAIN topic' \/ InTable(x)'
    BY <1>1, <1>10, TableNext
  <2> QED
    BY <1>1, <1>11, <2>1, <2>2, <2>3 DEF ByKafka
<1> QED
  BY <1>4, <1>6, <1>7, <1>12 DEF IngestInv

LEMMA StopKeeps ==
    ASSUME IngestInv, NEW r, Stop(r)
    PROVE  IngestInv'
<1>1. /\ r \in DOMAIN topic /\ Refusable(RoutineLoad(topic[r]), topic[r])
      /\ UNCHANGED <<env, config, written, pc, insert, block, topic, table>>
  BY DEF Stop
<1>2. pc = "acked" /\ config.sink = "kafka" /\ r \in DOMAIN block /\ HasFault(block[r])
  BY <1>1, OfTopic
<1>3. ConfigRead' /\ InsertRead' /\ BlockRead'
  BY <1>1, <1>2, BlockStays
<1>4. NothingYet' /\ RowsArrive'
  BY <1>1, <1>2 DEF NothingYet, RowsArrive
<1>5. FailedFor'
  <2>1. HasFault(block[r])'
    BY <1>1, <1>2 DEF HasFault, Columns, Key, TooLong
  <2> QED
    BY <1>1, <1>2, <2>1 DEF FailedFor
<1>6. ByKafka'
  <2>1. ByKafka
    BY DEF IngestInv
  <2> QED
    BY <1>1, <2>1, ByKafkaStays
<1> QED
  BY <1>3, <1>4, <1>5, <1>6 DEF IngestInv

\* IngestInv is inductive: whatever the headers, the rows and their number.
THEOREM IngestInvariance == Spec => []IngestInv
<1>1. Init => IngestInv
  BY IngestInitially
<1>2. IngestInv /\ [Next]_vars => IngestInv'
  <2>1. CASE Next
    <3>1. ASSUME IngestInv, NEW r \in DOMAIN topic, Consume(r) \/ Stop(r)
          PROVE  IngestInv'
      BY <3>1, ConsumeKeeps, StopKeeps
    <3> QED
      BY <2>1, <3>1, StartKeeps, ReadInsertKeeps, SendBlockKeeps, WriteToStarRocksKeeps,
         WriteToKafkaKeeps DEF Next
  <2>2. IngestInv /\ UNCHANGED vars => IngestInv'
    <3> SUFFICES ASSUME IngestInv, UNCHANGED vars
                 PROVE  IngestInv'
      OBVIOUS
    <3>1. UNCHANGED <<env, config, written, pc, insert, block, topic, table, stopped>>
      BY DEF vars
    <3>2. ConfigRead' /\ InsertRead'
      BY <3>1, InsertStays DEF IngestInv, ConfigRead, InsertRead
    <3>3. BlockRead'
      BY <3>1 DEF IngestInv, BlockRead, RowOfInsert
    <3>4. NothingYet' /\ FailedFor'
      BY <3>1 DEF IngestInv, NothingYet, FailedFor, HasFault, Columns, Key, TooLong
    <3>5. RowsArrive'
      <4>1. Columns' = Columns
        BY <3>1 DEF Columns
      <4>2. ASSUME NEW r, NEW c, Holds(table[r], block[r], c)
            PROVE  Holds(table[r], block[r], c)'
        BY <3>1, <4>2, RowStays
      <4>3. ASSUME NEW r, InTable(r)
            PROVE  InTable(r)'
        BY <3>1, <4>3, RowStays
      <4> QED
        BY <3>1, <4>1, <4>2, <4>3 DEF IngestInv, RowsArrive
    <3>6. ByKafka'
      BY <3>1, ByKafkaStays DEF IngestInv
    <3> QED
      BY <3>2, <3>3, <3>4, <3>5, <3>6 DEF IngestInv
  <2> QED
    BY <2>1, <2>2
<1> QED
  BY <1>1, <1>2, PTL DEF Spec

-----------------------------------------------------------------------------
\* What a client of Coroot's can count on.

\* What a Stream Load acknowledges is in the table as it was sent, each row or another
\* one of its key: RowsArrive is a part of the invariant.
THEOREM LoadedAsSent == Spec => []RowsArrive
<1>1. IngestInv => RowsArrive
  BY DEF IngestInv
<1> QED
  BY <1>1, IngestInvariance, PTL

\* With a database only a row without a key or with a text that is too long makes a
\* Write to StarRocks fail, or a Routine Load stop: FailedFor, of the environment.
THEOREM OnlyFaultsRefused == Spec => []OnlyKeysAndTextsRefused
<1>1. IngestInv => OnlyKeysAndTextsRefused
  <2> SUFFICES ASSUME IngestInv,
                      \/ pc = "failed" /\ config.sink = "starrocks" /\ env.database # ""
                      \/ stopped
               PROVE  \E r \in DOMAIN block : HasFault(block[r])
    BY DEF OnlyKeysAndTextsRefused
  <2>1. CASE stopped
    BY <2>1 DEF IngestInv, FailedFor
  <2>2. CASE pc = "failed" /\ config.sink = "starrocks" /\ env.database # ""
    <3>1. config = FromEnv(env)
      BY <2>2 DEF IngestInv, ConfigRead
    <3>2. config.database # ""
      BY <2>2, <3>1 DEF FromEnv, Default, Or
    <3> QED
      BY <2>2, <3>2 DEF IngestInv, FailedFor
  <2> QED
    BY <2>1, <2>2
<1> QED
  BY <1>1, IngestInvariance, PTL

\* By way of Kafka, in whatever order messages are taken, each row is in the topic or
\* the table, or one of its key is, as it was sent but for the columns of Events:
\* ByKafka, of what Routed leaves of a row.
THEOREM KafkaLosesEvents == Spec => []OnlyEventsLost
<1>1. IngestInv => OnlyEventsLost
  <2> SUFFICES ASSUME IngestInv, config.sink = "kafka"
               PROVE  /\ \A r \in DOMAIN table :
                           /\ r \in DOMAIN block
                           /\ \A c \in DOMAIN Columns :
                                IF c[1] = "Events" THEN table[r][c] = Nothing
                                ELSE Holds(table[r], block[r], c)
                      /\ pc = "acked" => \A r \in DOMAIN block : r \in DOMAIN topic \/ InTable(r)
    BY DEF OnlyEventsLost
  <2>1. CASE pc = "acked"
    <3>1. /\ \A r \in DOMAIN table : r \in DOMAIN block /\ table[r] = Routed(block[r])
          /\ \A r \in DOMAIN block : r \in DOMAIN topic \/ InTable(r)
      BY <2>1 DEF IngestInv, ByKafka
    <3>2. ASSUME NEW row, NEW c \in DOMAIN Columns
          PROVE  IF c[1] = "Events" THEN Routed(row)[c] = Nothing ELSE Holds(Routed(row), row, c)
      BY DEF Routed, Stored, Holds
    <3> QED
      BY <3>1, <3>2
  <2>2. CASE pc # "acked"
    <3>1. DOMAIN table = {}
      BY <2>2 DEF IngestInv, NothingYet
    <3> QED
      BY <2>2, <3>1
  <2> QED
    BY <2>1, <2>2
<1> QED
  BY <1>1, IngestInvariance, PTL
=============================================================================
