--------------------------- MODULE MCEncodedIndex ---------------------------
(***************************************************************************)
(* Callers of the encoded index for TLC, where a byte has eight values: an *)
(* integer of four bytes is in -2048 .. 2047, and a length prefix holds    *)
(* lengths below 64.                                                       *)
(***************************************************************************)
EXTENDS EncodedIndex

Column(type) == [compound |-> FALSE, columns |-> << type >>]
Compound(types) == [compound |-> TRUE, columns |-> types]
Singles(S) == {<< v >> : v \in S}
Zeros(n) == [i \in 1 .. n |-> 0]

Caller(encoder, values) == [encoder |-> encoder, values |-> values]

MCCallers ==
  [counts   |-> Caller(Column("INTEGER"), Singles({0, 1, 7, 8, 2047})),
   integers |-> Caller(Column("INTEGER"), Singles({-2048, -1, 0, 1, 2047})),
   large    |-> Caller(Column("INTEGER"), Singles({1, 2, 2049, 4097, 4098})),
   sizes    |-> Caller(Column("REAL"), Singles({0, 1, 8, 9, 8388607})),
   reals    |-> Caller(Column("REAL"), Singles({-8388608, -2, -1, 0, 3})),
   names    |-> Caller(Column("TEXT"), Singles({<< >>, <<0>>, <<0, 4>>, <<0, 3>>, <<4>>})),
   lone     |-> Caller(Column("TEXT"), Singles({<<0>>, <<6>>, <<7>>, <<0, 6>>, <<0, 7>>, <<0, 5>>})),
   decimals |-> Caller(Column("NUMERIC"), Singles({-4, -1, 0, 2, 3, 10})),
   blobs    |-> Caller(Column("BLOB"), Singles({<< >>, <<0>>, <<7>>, <<7, 0>>, <<0, 7>>})),
   pairs    |-> Caller(Compound(<<"TEXT", "INTEGER">>),
                       {<<<<0>>, 7>>, <<<<0>>, 8>>, <<<<0, 0>>, 1>>, <<<<1>>, 0>>, <<<< >>, 9>>}),
   long     |-> Caller(Compound(<<"TEXT">>),
                       Singles({<<0>>, Zeros(2), Zeros(62), Zeros(63), <<1>>}))]
=============================================================================
