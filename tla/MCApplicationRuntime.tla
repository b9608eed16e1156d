----------------------- MODULE MCApplicationRuntime -------------------------
(* Instances of ApplicationRuntime for TLC. *)
EXTENDS ApplicationRuntime

CONSTANTS r1, r2, path, auth, role, trace, timeout

Plain == [throttle |-> <<>>, guards |-> <<auth>>, interceptors |-> <<trace>>]
Bare(throttle) == [throttle |-> throttle, guards |-> <<>>, interceptors |-> <<>>]

Method(throttle, guards, interceptors, takes, limit) ==
    [throttle |-> throttle, guards |-> guards, interceptors |-> interceptors,
     takes |-> takes, bodies |-> IF "body" \in takes THEN 1 ELSE 0, limit |-> limit,
     options |-> <<>>, validator |-> FALSE]
Checked(method, options) == [method EXCEPT !.options = options, !.validator = TRUE]
Form == Method(<<>>, <<>>, <<>>, {"multipart"}, 1)
Mixed == Checked(Method(<<"policy">>, <<role>>, <<timeout>>, {"body", "option"}, 0),
                 <<"validate", "max_size">>)
Sniffed == Checked(Method(<<"skip">>, <<>>, <<>>, {"file"}, 0), <<"content_type">>)
Trusting == Checked(Method(<<>>, <<>>, <<>>, {"files"}, 0),
                    <<"content_type", "trust_content_type_header">>)

Of(controller, method) == [controller |-> controller, method |-> method]

SomeDeclarations ==
    {Of(Plain, Mixed),
     Of(Bare(<<"skip">>), Method(<<"policy">>, <<>>, <<>>, {}, 0)),
     Of(Bare(<<"policy">>), Form),
     Of(Bare(<<"policy">>), Sniffed),
     Of(Bare(<<>>), Trusting),
     \* these do not compile
     Of(Bare(<<"policy", "skip">>), Form),
     Of(Plain, [Mixed EXCEPT !.throttle = <<"skip", "skip">>]),
     Of(Plain, [Form EXCEPT !.takes = @ \cup {"file"}]),
     Of(Plain, [Mixed EXCEPT !.bodies = 2]),
     Of(Plain, [Mixed EXCEPT !.validator = FALSE]),
     Of(Plain, [Mixed EXCEPT !.options = <<"max_size", "max_size">>]),
     Of(Plain, [Sniffed EXCEPT !.options = <<"trust_content_type_header">>]),
     Of(Plain, [Sniffed EXCEPT !.options = <<"min_size">>])}

SomeBodies ==
    {[length |-> 1, type |-> "json", flaws |-> {}],
     [length |-> 1, type |-> "multipart", flaws |-> {<<1, "max_size">>}],
     [length |-> 2, type |-> "multipart", flaws |-> {<<1, "bytes">>, <<2, "header">>}],
     [length |-> 3, type |-> "multipart", flaws |-> {}]}

(* The requests are interchangeable. *)
Same == Permutations(Requests)
=============================================================================
