--------------------------- MODULE MCTemplateBuilder ---------------------------
(* TemplateBuilder on small instances: see the .cfg files that name it. *)
EXTENDS TemplateBuilder, TLC

(* A value with a quotation mark comes back with the backslash that %q wrote before it. *)
Quoted  == "\"a"
Escaped == "\\\"a"
Long    == "long"

MCWords    == {"a", "b", "x", "f", "my", "../up", "alpine", "0644", "K", "J", Quoted, Escaped, Long}
MCLong     == {Long}
MCUnquoted == [w \in Words |-> IF w = Quoted THEN Escaped ELSE w]  \* nobody sets Escaped

MCImages  == {<<>>, <<"alpine">>}
MCTexts   == {<<>>, <<"a">>, <<"a", "b">>}
MCSources == {<<"f">>, <<"my", "f">>, <<"../up">>}
MCItems   == {<<first, second>> : first, second \in MCSources}
MCUsers   == {<<>>, <<"root">>}
MCModes   == {<<>>, <<"0644">>}
MCEnvMaps == {{}, {<<"K", <<>>>>}, {<<"K", <<"a">>>>}, {<<"K", <<"a", "b">>>>},
              {<<"K", <<Quoted>>>>}, {<<"K", <<Long>>>>},
              {<<"K", <<"a">>>>, <<"J", <<"b">>>>}}

MCDockerfiles ==
    { << Line("FROM", <<"alpine">>), Line("RUN", <<"a", "b">>) >>,
      << EnvLine(<<Token("K", "a"), Token("", "x"), Token("K", "b")>>), Line("COPY", <<"f", "d">>) >>,
      << Line("COPY", <<"../up", "d">>), Line("USER", <<"root">>) >>,
      << Line("RUN", <<"a">>), Line("RUN", <<Long>>), Line("COPY", <<"f", "d">>) >>,
      << Line("LABEL", <<"x">>), Line("COPY", <<"f">>), EnvLine(<<Token("", "x")>>), Line("WORKDIR", <<>>) >> }
===============================================================================
