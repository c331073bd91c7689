----------------------------- MODULE MCObjectKey -----------------------------
(***************************************************************************)
(* Names made of what a key gives a meaning to: slashes, dots, percent     *)
(* signs, and the encodings of other names.                                *)
(***************************************************************************)
EXTENDS Onboard, TLC

Conf(engine, host, port, database, prefix) ==
  [engine |-> engine, host |-> host, port |-> port, database |-> database, prefix |-> prefix]

Pg(database) == Conf("postgres", <<"h">>, DefaultPort.postgres, database, <<>>)

Names == {<<"a">>, <<".">>, <<".", ".">>, <<"/">>, <<"%", "2", "F">>, <<"%">>, <<"underscore">>, <<"a", "/", "a">>}

\* Databases of one server; the same name on another port, on an unnamed host and
\* in another engine; a destination whose prefix is the scope of one of them; and
\* destinations whose prefix is written with slashes around it, encoded, or with dots.
ManyConfigs ==
  {Pg(name) : name \in Names}
  \cup {Conf("postgres", <<"h">>, <<"1">>, <<"a">>, <<>>),
        Conf("postgres", <<>>, DefaultPort.postgres, <<"a">>, <<>>),
        Conf("mysql", <<"h">>, DefaultPort.mysql, <<"a">>, <<>>),
        Conf("postgres", <<"h">>, DefaultPort.postgres, <<"underscore">>, <<"postgres", "/", "h", "/", "a">>)}
  \cup {Conf("postgres", <<"h">>, DefaultPort.postgres, <<"a">>, prefix) :
         prefix \in {<<"/", "a", "/">>, <<"a", "%", "2", "F", "a">>, <<"a", "/", ".", ".">>}}

\* A host whose name ends as the label of another port does.
UnderscoreHosts ==
  {Conf("postgres", <<"h", "underscore", "1">>, DefaultPort.postgres, <<"a">>, <<>>),
   Conf("postgres", <<"h">>, <<"1">>, <<"a">>, <<>>)}

MCChars ==
  {"/", "%", "space", "\\", ".", "underscore", "0", "1", "2", "3", "4", "5", "6", "C", "E", "F", "a", "h", "postgres", "id1", "id2", "id3"}

ThreeIDs == <<"id1", "id2", "id3">>

\* The servers of the first run have labels of their own.
ASSUME LabelsAssumption == Configs = ManyConfigs => LabelsApart

JobSymmetry == Permutations(Jobs)
=============================================================================
