----------------------------- MODULE MCDatasets -----------------------------
(* Instances of DatasetBuild for TLC. *)
EXTENDS DatasetBuild

W(k, part) == [k |-> k, of |-> <<part>>, form |-> "std"]
Spelt(k, part, form) == [k |-> k, of |-> <<part>>, form |-> form]
Glued(parts) == [k |-> "plain", of |-> parts, form |-> "std"]
Plain(words) == {W("plain", w) : w \in words}
Name(parts) == [i \in DOMAIN parts |-> W("name", parts[i])]
Apart(words) == {<<w>> : w \in words}

MCSize(part) == Len(part)
MCInstruction == Plain({"compare"})

\* The seeded order of a bucket's groups: ascending in one bucket, descending in the next.
MCShuffled(bucket, groups) ==
    SelectSeq([i \in 1..15 |-> IF bucket % 2 = 0 THEN i ELSE 16 - i], LAMBDA g : g \in groups)

Good == [status |-> "completed", matched |-> Plain({"python"}), items |-> {}, years |-> 3,
         words |-> Apart(Plain({"backend"})), bad |-> "no"]
Unparsed == [names |-> {}, locals |-> {}, phones |-> {}]
Job(words, skills) == [words |-> Apart(Plain(words)), skills |-> Plain(skills)]
Upload(cand, job, text) ==
    [cand |-> cand, tenant |-> "t", job |-> job, text |-> text, parsed |-> Unparsed, status |-> "Draft",
     pipeline |-> "multi_agent", score |-> 650, rescore |-> 350, analysis |-> Good]
Body(words) == [head |-> <<>>, rest |-> Apart(words)]
Nobody == [first |-> <<>>, last |-> <<>>, locals |-> {}, phones |-> {}, cities |-> {}]

\* Ali Reza B: known by profile, address, number and city; Sara: spelt with Arabic letters
\* in her profile; Ruby: her name is a skill.  Texts mention others, repeat the name in
\* capitals, as mojibake or as one word, have a header the profile does not know, and keep
\* what is too short to be recognised and a part of the city's name.
People ==
    <<[first |-> Name(<<"ali", "reza">>), last |-> Name(<<"b">>), locals |-> {Name(<<"ar", "alim">>)},
       phones |-> {W("phone", "77120000")}, cities |-> {<<W("plain", "tehran"), W("plain", "iran")>>}],
      [Nobody EXCEPT !.first = <<Spelt("name", "sara", "arabic")>>, !.last = <<W("digits", "12")>>],
      [Nobody EXCEPT !.first = <<W("plain", "ruby")>>, !.phones = {W("phone", "4711")}]>>

Tehran == <<W("plain", "tehran"), W("plain", "iran")>>

Texts ==
    [people |-> People, leaving |-> {2}, processed |-> {1, 2, 3, 4},
     uploads |->
       <<[Upload(1, [words |-> {<<W("plain", "dev"), W("pattern", "hr-mail")>>, Tehran},
                     skills |-> Plain({"python"})],
                 [head |-> Name(<<"ali", "ng">>),
                  rest |-> {<<W("pattern", "mail")>> \o Tehran, <<W("labelled", "88990011"), W("phone", "77120000")>>,
                            <<W("plain", "tehran"), Spelt("name", "ali", "upper")>>,
                            <<W("name", "alim"), W("name", "ar"), W("name", "b")>>, <<Glued(<<"ali", "ng">>)>>}])
          EXCEPT !.analysis.words = @ \cup {<<W("name", "ng"), W("pattern", "url")>>},
                 !.parsed = [names |-> {Name(<<"alir">>)}, locals |-> {Name(<<"rez">>)},
                             phones |-> {W("phone", "66120000")}]],
         [Upload(2, Job({"dev"}, {"python"}),
                 Body(Plain({"flask"}) \cup {Spelt("name", "sara", "mojibake"), W("hidden", "zw"), W("digits", "12")}))
          EXCEPT !.status = "Hired", !.score = 905],
         Upload(3, Job({"dev"}, {"ruby"}), Body(Plain({"rails", "ruby", "web"}))),
         [Upload(3, Job({"ops"}, {"python"}), Body(Plain({"linux", "web"})
                 \cup {W("name", "sara"), W("name", "rez"), W("phone", "4711"), W("phone", "66120000")}))
          EXCEPT !.score = 120, !.rescore = 655,
                 !.parsed = [names |-> {Name(<<"rubi">>)}, locals |-> {}, phones |-> {W("phone", "66120000")}]],
         Upload(3, Job({"lead"}, {"go"}), Body(Plain({"docker", "web"}) \cup {W("name", "rubi")}))>>]

\* What only the validator looks for: short and endless numbers after a label, digits near
\* the word birth, broken text in a job, hidden characters and mojibake in a skill.
Odd ==
    [people |-> [c \in 1..5 |-> Nobody], leaving |-> {}, processed |-> 1..5,
     uploads |->
       <<Upload(1, Job({"dev"}, {}), Body(Plain({"one"}) \cup {W("labelled", "4711"), W("labelled", "8877665")})),
         Upload(2, Job({"ops"}, {}), Body(Plain({"two"}) \cup {W("birth", "70")})),
         [Upload(3, Job({"web"}, {}), Body(Plain({"three", "x"}))) EXCEPT !.job.words = @ \cup {<<W("junk", "x")>>}],
         [Upload(4, Job({"qa"}, {}), Body(Plain({"four", "x"}))) EXCEPT !.job.skills = {Spelt("plain", "go", "invisible")}],
         [Upload(5, Job({"ux"}, {}), Body(Plain({"five", "x"})))
          EXCEPT !.job.skills = {Spelt("plain", "css", "mojibake")}]>>]

\* Two uploads with one score, one without agents: which resume is whose?
Links ==
    [people |-> [c \in 1..2 |-> Nobody], leaving |-> {1}, processed |-> {1, 4},
     uploads |->
       <<Upload(1, Job({"dev"}, {"python"}), Body(Plain({"one", "a"}))),
         [Upload(1, Job({"ops"}, {"python"}), Body(Plain({"two", "a"}))) EXCEPT !.score = 645, !.rescore = 655],
         [Upload(1, Job({"web"}, {"python"}), Body(Plain({"three", "a"}))) EXCEPT !.pipeline = "linear"],
         [Upload(1, Job({"qa"}, {"python"}), Body(Plain({"four", "a"}))) EXCEPT !.tenant = "s"]>>]

\* One upload for every rule of the cleansing, and twins of kept and of dropped records.
Broken ==
    [people |-> [c \in 1..15 |-> Nobody], leaving |-> {}, processed |-> 1..15,
     uploads |->
       <<Upload(1, Job({"dev"}, {}), Body(Plain({"a", "b"}))),
         Upload(2, Job({"dev"}, {}), Body(Plain({"a", "b"}))),
         Upload(3, Job({"dev"}, {}), Body(Plain({"a", "b"}) \cup {W("digits", "1")})),
         Upload(4, Job({"dev"}, {}), Body({})),
         Upload(5, Job({}, {"python"}), Body(Plain({"c", "b"}))),
         [Upload(6, Job({"dev"}, {}), Body(Plain({"d", "b"}))) EXCEPT !.analysis.status = "failed"],
         [Upload(7, Job({"dev"}, {}), Body(Plain({"e", "b"}))) EXCEPT !.analysis.bad = "years"],
         [Upload(8, Job({"dev"}, {}), Body(Plain({"f", "b"}))) EXCEPT !.analysis.years = 60],
         Upload(9, Job({"dev"}, {}), Body(Plain({"g"}) \cup {W("junk", "x")})),
         Upload(10, Job({"dev"}, {}), Body(Plain({"a"}))),
         Upload(11, Job({"dev"}, {}), Body(Plain({"a", "b", "c", "d", "e", "f", "g", "h", "i", "j", "k", "l", "m"}))),
         [Upload(12, Job({"dev"}, {}), Body(Plain({"h", "b"}))) EXCEPT !.analysis.bad = "soft"],
         Upload(13, Job({"dev"}, {}), Body(Plain({"i"}) \cup {W("alien", "x")})),
         Upload(14, Job({"dev"}, {"p", "q", "r", "s", "t", "u"}), Body(Plain({"a", "b", "c", "d", "e", "f", "g", "h", "i", "j", "k", "l"}))),
         [Upload(15, Job({"dev"}, {}), Body(Plain({"j", "b"}))) EXCEPT !.score = 1010]>>]

\* Groups of different sizes in two buckets.
Sizes ==
    LET of == <<1, 1, 2, 2, 3, 4, 5, 6, 7, 8, 9, 10>>
    IN  [people |-> [c \in 1..10 |-> Nobody], leaving |-> {1}, processed |-> 1..12,
         uploads |-> [i \in 1..12 |->
            [Upload(of[i], Job({"dev"}, {}), Body({W("plain", ToString(i)), W("plain", "x")}))
             EXCEPT !.tenant = i, !.score = IF i \in {3, 12} THEN 250 ELSE 650]]]

MCDatabases == {Texts, Odd, Links, Broken, Sizes}
=============================================================================
