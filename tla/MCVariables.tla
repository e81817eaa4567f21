---------------------------- MODULE MCVariables ----------------------------
(* An instance of Variables for TLC.                                       *)
EXTENDS Variables

MCStatements == {
  <<"$", "A", "=", "v">>,
  <<"$", Space, "B", Space, "=", "v", Space, "v">>,   \* spaces around name and value
  <<"$", "A", "=", "$", "B">>,                  \* a value with a variable
  <<"$", "B", "=", "$", "A", "v">>,
  <<"$", "B", "=", "$", "A", Space, "$", "A">>,
  <<"$", "A", "=", "v", "v", "v", "v", "v", "v", "v">>,   \* of full length
  <<"$", "B", "=", "v", "v", "v", "v", "v", "v">>,   \* a value too long to be printed
  <<"$", "=", "v">>,                            \* an empty name
  <<"$", "v", "=">>,                            \* an empty value
  <<"$", "A">>,                                 \* no '='
  <<">", "$", "A">>,                            \* ends in a variable
  <<">", "v", "$", "A", Space, "v">>,
  <<">", "$", "B", Space, "$", "A", Space>>,
  <<">", "$", "B", Space, "v", "v", "v", "$", "A", Space>>,   \* text between variables
  <<">", "$", Space, "A", Space, "v">>,             \* a space behind the '$'
  <<">", "$">>,                                 \* a '$' without a name
  <<"@", "v">>}
=============================================================================
