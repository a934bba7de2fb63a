---------------------------- MODULE MCTypeTables ----------------------------
(* Units with definitions of definitions, enumerations and records, with and *)
(* without names, declared twice, and the functions that use them.           *)
EXTENDS TypeTables

P(n) == <<"", n>>
Typedef(n)  == [k |-> "typedef", n |-> P(n)]
Record(n)   == [k |-> "record", n |-> n]
Uses(n)     == [k |-> "function", n |-> n]
Enum(n, vs) == [k |-> "enum", n |-> n, values |-> vs]
Field       == [k |-> "field", n |-> P("field")]

E1 == <<"enum", "e">>
E2 == <<"enum", "f">>
Source == <<"enum of", "source">>
Sites == {<<"anonymous", "one">>, <<"anonymous", "two">>, <<"anonymous", "three">>,
          <<"anonymous", "four">>}
E3 == <<"enum", "of the system">>
Opaque == <<"enum", "opaque">>
Crate == <<"struct of", "crate">>
T == <<"struct", "of the system">>
S == <<"struct", "s">>
Box == <<"struct of", "box">>
U == <<"union", "u">>
Inner == <<"unnamed", "inner">>
Depends == <<"enum", "depends">>

MCUnit == [
  audio |-> <<Typedef("uint32_t"), Enum(Source, <<3, 4>>), Typedef("source"), Typedef("source2"),
              Typedef("source3"), Typedef("loff_t"), Enum(E1, <<5>>), Typedef("left"), Uses(P("source3")),
              Uses(P("left")), Typedef("offset"), Typedef("rate"), Record(S), Uses(S), Typedef("size_t"),
              Enum(<<"anonymous", "one">>, <<1, 2>>), Typedef("devices"), Enum(<<"anonymous", "two">>, <<6>>),
              Typedef("e_t"), Enum(<<"anonymous", "four">>, <<2, 3>>), Typedef("length"),
              Uses(P("devices")), Uses(P("e_t")), Uses(P("length"))>>,
  camera |-> <<Typedef("uint32_t"), Enum(<<"anonymous", "one">>, <<1, 2>>), Typedef("devices"), Enum(E1, <<5>>),
               Enum(E2, <<>>), Enum(Opaque, <<>>), Uses(Opaque), Record(T), Uses(T)>>,
  media |-> <<Enum(E2, <<7, 8>>), Enum(<<"anonymous", "three">>, <<9>>), Typedef("name"),
              Typedef("off_t"), Enum(E3, <<1>>), Record(Inner), Field, Enum(Depends, <<1, 1>>),
              Record(Crate), Typedef("crate"), Record(U), Typedef("u_t"), Typedef("u_t2"),
              Record(Box), Typedef("box"), Uses(P("box")), Uses(P("u_t2"))>>]
MCUnder ==
  P("uint32_t") :> P("unsigned int") @@ P("source") :> Source @@ P("source2") :> P("source")
  @@ P("source3") :> P("source2") @@ P("loff_t") :> P("long long") @@ P("off_t") :> P("long")
  @@ P("size_t") :> P("unsigned long") @@ P("devices") :> P("uint32_t") @@ P("rate") :> P("offset")
  @@ P("e_t") :> E1 @@ P("name") :> <<"pointer", "char">> @@ P("box") :> Box @@ P("u_t") :> U
  @@ P("left") :> P("source2") @@ P("crate") :> Crate @@ P("u_t2") :> P("u_t") @@ P("length") :> P("size_t")
  @@ P("offset") :> P("loff_t")
MCPromotion ==
  E1 :> P("int") @@ E2 :> P("unsigned int") @@ Source :> P("unsigned int")
  @@ Depends :> P("dependent") @@ Opaque :> P("int") @@ E3 :> P("int") @@ [x \in Sites |-> P("unsigned int")]
MCFields ==
  Box :> {P("off_t"), E2, P("name"), P("u_t"), Inner, Depends}
  @@ U :> {P("long"), P("crate"), E3, <<"vector", "long">>}
  @@ T :> {P("int")} @@ S :> {P("rate"), P("source3")} @@ Crate :> {P("int")}
  @@ Inner :> {P("float"), <<"interface", "I">>}
MCSuffix == {<<P("off_t"), P("loff_t")>>}
MCPrefix == {<<P("long"), P("long long")>>}
MCLeftOut == {P("left")}
MCSystem == {T, E3}
=============================================================================
