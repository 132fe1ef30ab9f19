------------------------------ MODULE MCProgram ------------------------------
EXTENDS Program

CONSTANT Empty

MCTexts == {"Object", "A", "B", "P", "Q", "I", "[LA;", "[[LP;", "[[I", "[[[LObject;",
            "m", "h", "s", "f", "g", "k", "()V", "(J[LA;I)V", "int", "Note",
            "Code", "LineNumberTable", "SourceFile", "RuntimeVisibleAnnotations", "A.java"}
\* Descriptors, and what occurs in them, in ASCII, and any bytes for others.
MCEncoding ==
    LET ascii == [x \in {"Object", "A", "B", "P", "I", "[LA;", "[[LP;", "[[I", "[[[LObject;",
                          "()V", "(J[LA;I)V"} |->
            CASE x = "Object" -> <<79>> [] x = "A" -> <<65>> [] x = "B" -> <<66>>
              [] x = "P" -> <<80>> [] x = "I" -> <<73>>
              [] x = "[LA;" -> <<91, 76, 65, 59>> [] x = "[[LP;" -> <<91, 91, 76, 80, 59>>
              [] x = "[[I" -> <<91, 91, 73>> [] x = "[[[LObject;" -> <<91, 91, 91, 76, 79, 59>>
              [] x = "()V" -> <<40, 41, 86>>
              [] x = "(J[LA;I)V" -> <<40, 74, 91, 76, 65, 59, 73, 41, 86>>]
        others == FoldSet(LAMBDA x, s : Append(s, x), <<>>, MCTexts \ DOMAIN ascii)
    IN  [x \in MCTexts |-> IF x \in DOMAIN ascii THEN ascii[x]
                           ELSE <<1, CHOOSE i \in 1..Len(others) : others[i] = x>>]
MCArity == [x \in {"()V", "(J[LA;I)V"} |-> IF x = "()V" THEN 0 ELSE 3]
MCType(x, dims) == [base |-> x, dims |-> dims]
MCMeaning == [x \in {"Object", "A", "B", "P", "Q", "[LA;", "[[LP;", "[[I", "[[[LObject;"} |->
    CASE x = "[LA;" -> MCType("A", 1) [] x = "[[LP;" -> MCType("P", 2)
      [] x = "[[I" -> MCType("int", 2) [] x = "[[[LObject;" -> MCType("Object", 3)
      [] OTHER -> MCType(x, 0)]
MCPrimitives == {<<"int", "I">>}
MCOrder == <<"B", "P", "Object", "A", "Q">>

MCMember(x, desc, flags, body) ==
    [name |-> x, desc |-> desc, flags |-> flags, body |-> body,
     lines |-> IF body THEN <<<<0, 300>>, <<3, 12>>, <<1, 11>>, <<2, 12>>>> ELSE <<>>,
     notes |-> IF flags = 8 THEN <<"Note", "Note">> ELSE <<>>]
MCField(x, flags) == MCMember(x, "int", flags, FALSE)
MCRef(tag, class, x, desc) == [tag |-> tag, class |-> class, text |-> x, desc |-> desc]
MCClass(x, super, interfaces, fields, methods) ==
    [name |-> x, super |-> super, interfaces |-> interfaces, fields |-> fields,
     methods |-> methods, source |-> "A.java", numbers |-> <<>>, refs |-> <<>>]

\* Ways to have m: not at all, abstract, native, or with a body.
MCWays == [none |-> <<>>, abstract |-> <<MCMember("m", "()V", 1025, FALSE)>>,
           native |-> <<MCMember("m", "()V", 257, FALSE)>>, body |-> <<MCMember("m", "()V", 1, TRUE)>>]

MCObject == MCClass("Object", Empty, <<>>, <<>>, <<MCMember("h", "()V", 257, FALSE)>>)
MCJ(m) == MCClass("Q", "Object", <<>>, <<MCField("k", 25), MCField("g", 25)>>, MCWays[m])
MCI(m, interfaces) == MCClass("P", "Object", interfaces, <<MCField("k", 25)>>, MCWays[m])
MCA(m, interfaces) ==
    MCClass("A", "Object", interfaces, <<MCField("g", 8), MCField("f", 0)>>,
            <<MCMember("m", "(J[LA;I)V", 1, TRUE), MCMember("s", "()V", 9, TRUE)>> \o MCWays[m])
MCB(m, interfaces, hides) ==
    [MCClass("B", "A", interfaces,
             IF hides THEN <<MCField("f", 0), MCField("g", 8)>> ELSE <<>>,
             MCWays[m] \o <<MCMember("h", "()V", 1, TRUE)>>
                 \o (IF hides THEN <<MCMember("s", "()V", 265, FALSE)>> ELSE <<>>))
     EXCEPT !.numbers = <<[tag |-> 5, number |-> 70000], [tag |-> 3, number |-> 9],
                          [tag |-> 6, number |-> 5]>>,
            !.refs = <<MCRef(10, "A", "m", "()V"), MCRef(10, "B", "m", "()V"),
                       MCRef(11, "P", "m", "()V"), MCRef(11, "Q", "m", "()V"),
                       MCRef(10, "A", "m", "(J[LA;I)V"), MCRef(10, "Object", "h", "()V"),
                       MCRef(10, "A", "s", "()V"), MCRef(10, "B", "s", "()V"),
                       MCRef(9, "A", "f", "int"), MCRef(9, "B", "f", "int"),
                       MCRef(9, "A", "g", "int"), MCRef(9, "B", "g", "int"),
                       MCRef(9, "B", "k", "int"), MCRef(9, "P", "k", "int"),
                       [tag |-> 7, text |-> "Object"], [tag |-> 7, text |-> "A"],
                       [tag |-> 7, text |-> "P"], [tag |-> 7, text |-> "Q"],
                       [tag |-> 7, text |-> "[LA;"], [tag |-> 7, text |-> "[[LP;"],
                       [tag |-> 7, text |-> "[[I"], [tag |-> 7, text |-> "[[[LObject;"],
                       [tag |-> 8, text |-> "m"], [tag |-> 16, text |-> "()V"],
                       [tag |-> 15, number |-> 6, ref |-> MCRef(10, "A", "s", "()V")],
                       [tag |-> 18, text |-> "m", desc |-> "()V"]>>]

MCWorld(j, i, a, b) == [c \in Range(MCOrder) |->
    CASE c = "Object" -> MCObject [] c = "Q" -> j [] c = "P" -> i [] c = "A" -> a [] c = "B" -> b]

MCWorlds ==
    {MCWorld(MCJ(x[1]), MCI(x[2], x[3]), MCA(x[4], x[5]), MCB(x[6], x[7], x[8])) :
         x \in {"none", "abstract", "body"} \X {"none", "abstract", "body"} \X {<<>>, <<"Q">>}
               \X {"none", "abstract", "body"} \X {<<>>, <<"P">>, <<"Q">>}
               \X {"none", "native", "body"} \X {<<>>, <<"P">>, <<"Q">>, <<"Q", "P">>}
               \X BOOLEAN}
MCBase == MCWorld(MCJ("none"), MCI("none", <<"Q">>), MCA("body", <<"P">>), MCB("none", <<>>, TRUE))
MCRegistered == {<<"Object", "h">>, <<"B", "m">>}
MCArrayPairs == {<<"Object", "A">>, <<"P", "B">>, <<"Q", "A">>}
MCSwitches == {[default |-> 20, pairs |-> <<>>],
               [default |-> -8, pairs |-> <<<<-3, 30>>, <<2, -5>>>>]}
MCInterfaces == {"P", "Q"}
=============================================================================
