-------------------------------- MODULE MCHttp --------------------------------
(* Messages, URLs and connections for TLC. *)
EXTENDS HttpServer

Header(name, value) == [name |-> name, value |-> value]
HeaderLists ==
  {<<>>, <<Header(<<"Host">>, <<"h", "folded">>)>>,
   <<Header(<<"Connection">>, <<"close">>), Header(<<"Host">>, <<"h">>)>>,
   <<Header(<<"Connection">>, <<"keep-alive">>)>>}
Bodies ==
  {[form |-> "none", content |-> <<>>], [form |-> "length", content |-> <<"x">>],
   [form |-> "length", content |-> <<CR, LF, "0", "x", "y", "z", "0", CR, LF, "high", NUL>>]}
     \cup [form : {"chunks", "extensions", "trailers"}, content : {<<"x", LF>>, <<"0", CR, LF, "1", "x", "y", "z", "0", CR, LF, "1">>}]

MCRequests ==
  {[method |-> m, uri |-> u, major |-> v[1], minor |-> v[2], headers |-> h,
    form |-> b.form, content |-> b.content] :
     m \in {<<"GET">>, <<"POST">>, <<"PUT">>}, u \in {<<"/">>, <<"/", "a", "?", "k", "=", "1">>},
     v \in {<<1, 0>>, <<1, 1>>, <<2, 0>>, <<0, 10>>}, h \in HeaderLists, b \in Bodies}
MCBodiesAllowed == {d \in MCRequests : d.method = <<"GET">> => d.form = "none"}
MCResponses ==
  {[code |-> c, status |-> s, major |-> v[1], minor |-> v[2], headers |-> h,
    form |-> b.form, content |-> b.content] :
     c \in {<<"2", "0", "0">>, <<"1", "0", "0">>, <<"9", "9", "9">>}, s \in {<<"OK">>, <<"not", SP, "found">>},
     v \in {<<1, 0>>, <<1, 1>>, <<12, 3>>}, h \in HeaderLists, b \in Bodies}
MCUrls ==
  [scheme : {<<"http">>, <<"https">>}, username : {<<>>, <<"u">>},
   password : {<<>>, <<"1">>, <<"1", "x", "2">>, <<"x">>}, hostname : {<<"h">>, <<"h", ".", "com">>},
   port : {<<>>, <<"8", "0", "8", "0">>}, path : {<<>>, <<"/">>, <<"/", "a", "/">>},
   query : {<<>>, <<"k", "=", "v">>}, fragment : {<<>>, <<"f", "?">>}, integerPort : {0}]

Described(method, url, query, params, minor, headers, form, content) ==
  [method |-> method, uri |-> url \o query, target |-> [url |-> url, params |-> params],
   major |-> 1, minor |-> minor, headers |-> headers, form |-> form, content |-> content]
Get == Described(<<"GET">>, <<"/">>, <<>>, <<>>, 1, <<>>, "none", <<>>)
Ask == Described(<<"GET">>, <<"/", "v2">>, <<"?", "k", "=", "1", "&", "flag">>, <<"k">> :> <<"1">>,
                 0, <<>>, "none", <<>>)
Missing == Described(<<"GET">>, <<"/", "nook">>, <<"?">>, <<>>,
                     1, <<Header(<<"Connection">>, <<"close">>)>>, "none", <<>>)
Post == Described(<<"POST">>, <<"/">>, <<>>, <<>>, 1, <<>>, "length", <<"x", CR, NUL>>)
Upload == Described(<<"PUT">>, <<"/">>, <<>>, <<>>, 0, <<>>, "chunks", <<"0", LF, "1">>)
MCStreams == {<<Get, Ask>>, <<Ask>>, <<Missing, Get>>, <<Post, Get>>, <<Upload>>}
MCHandled == {<<"/">>, <<"/", "v2">>}
=============================================================================
