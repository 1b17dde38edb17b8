--------------------------- MODULE ModemBoot_proofs ---------------------------
(***************************************************************************)
(* Theorems about ModemBoot, for images, flash areas and numbers of tries  *)
(* of any size.                                                            *)
(*                                                                         *)
(* boot() waits for an answer only here and there, and the answers may be  *)
(* wrong; what makes a boot complete is that the script sends each item in *)
(* the one stage in which the modem accepts it.  The invariant (InStep)    *)
(* says what a modem that lives has received when the script has come to a *)
(* given exchange and offset; a modem that died never wakes up.            *)
(***************************************************************************)
EXTENDS ModemBoot, SequenceTheorems, TLAPS

-----------------------------------------------------------------------------
(* The script of boot().                                                   *)

Items == {"ATAT", "any", "PSI", "PSI crc", "01", "00AA", "EBL length", "CCCC", "EBL",
          "EBL crc", "51A5", "info", "SetPortConf", "SecStart", "SetAddress firmware",
          "firmware", "SetAddress nvdata", "nvdata", "SecEnd", "ForceHwReset",
          "upload key", "error", "PASS", "memory"}
Exchanges == [op : {"post", "image", "flash", "hear", "upload"}, item : Items]

\* t is in s, behind the first n exchanges.
Within(s, n, t) ==
    n \in Nat /\ n + Len(t) <= Len(s) /\ \A i \in 1 .. Len(t) : s[n + i] = t[i]

\* The script that has t behind s.
Joins(u, s, t) == u = s \o t

LEMMA Joined ==
    ASSUME NEW s \in Seq(Exchanges), NEW t \in Seq(Exchanges), NEW u, Joins(u, s, t)
    PROVE  /\ u \in Seq(Exchanges) /\ Len(u) = Len(s) + Len(t)
           /\ Within(u, 0, s) /\ Within(u, Len(s), t)
<1>1. /\ u \in Seq(Exchanges) /\ Len(u) = Len(s) + Len(t)
      /\ \A i \in 1 .. Len(s) + Len(t) : u[i] = IF i <= Len(s) THEN s[i] ELSE t[i - Len(s)]
  BY ConcatProperties, Zenon DEF Joins
<1>2. ASSUME NEW i \in 1 .. Len(s)
      PROVE  u[0 + i] = s[i]
  BY <1>1
<1>3. ASSUME NEW i \in 1 .. Len(t)
      PROVE  u[Len(s) + i] = t[i]
  <2>1. /\ Len(s) + i \in 1 .. Len(s) + Len(t) /\ ~ (Len(s) + i <= Len(s))
        /\ (Len(s) + i) - Len(s) = i
    OBVIOUS
  <2> QED BY <1>1, <2>1
<1> QED BY <1>1, <1>2, <1>3 DEF Within

\* What is in a beginning of a script is in the script.
LEMMA WithinFirst ==
    ASSUME NEW s \in Seq(Exchanges), NEW t \in Seq(Exchanges), NEW u \in Seq(Exchanges), NEW k,
           Within(s, 0, t), Within(t, k, u)
    PROVE  Within(s, k, u)
<1>1. /\ k \in Nat /\ Len(s) \in Nat /\ Len(t) \in Nat /\ Len(u) \in Nat
      /\ k + Len(u) <= Len(t) /\ Len(t) <= Len(s)
  BY DEF Within
<1>2. ASSUME NEW i \in 1 .. Len(u)
      PROVE  s[k + i] = u[i]
  <2>1. k + i \in 1 .. Len(t) /\ 0 + (k + i) = k + i
    BY <1>1
  <2>2. t[k + i] = u[i] /\ s[0 + (k + i)] = t[k + i]
    BY <2>1 DEF Within
  <2> QED BY <2>1, <2>2
<1> QED BY <1>1, <1>2 DEF Within

LEMMA OneExchange ==
    ASSUME NEW item \in Items
    PROVE  /\ Post(item) \in Exchanges /\ Hear(item) \in Exchanges
           /\ Image(item) \in Exchanges /\ Flash(item) \in Exchanges
BY DEF Post, Hear, Image, Flash, Exchanges

LEMMA Alone ==
    ASSUME NEW x \in Exchanges
    PROVE  << x >> \in Seq(Exchanges) /\ Len(<< x >>) = 1
OBVIOUS

LEMMA CommandIs ==
    ASSUME NEW item \in Items
    PROVE  Command(item) \in Seq(Exchanges) /\ Len(Command(item)) = 2
BY OneExchange DEF Command

LEMMA FourOf ==
    ASSUME NEW S, NEW a \in S, NEW b \in S, NEW c \in S, NEW d \in S
    PROVE  << a, b, c, d >> \in Seq(S) /\ Len(<< a, b, c, d >>) = 4
OBVIOUS

LEMMA FiveOf ==
    ASSUME NEW S, NEW a \in S, NEW b \in S, NEW c \in S, NEW d \in S, NEW e \in S
    PROVE  << a, b, c, d, e >> \in Seq(S) /\ Len(<< a, b, c, d, e >>) = 5
OBVIOUS

LEMMA NineOf ==
    ASSUME NEW S, NEW a \in S, NEW b \in S, NEW c \in S, NEW d \in S, NEW e \in S, NEW f \in S,
           NEW g \in S, NEW h \in S, NEW i \in S
    PROVE  /\ << a, b, c, d, e, f, g, h, i >> \in Seq(S)
           /\ Len(<< a, b, c, d, e, f, g, h, i >>) = 9
OBVIOUS

LEMMA SendPSIIs == SendPSI \in Seq(Exchanges) /\ Len(SendPSI) = 9
<1>1. /\ Post("ATAT") \in Exchanges /\ Hear("any") \in Exchanges /\ Image("PSI") \in Exchanges
      /\ Post("PSI crc") \in Exchanges /\ Hear("01") \in Exchanges /\ Hear("00AA") \in Exchanges
  BY OneExchange DEF Items
<1> QED BY <1>1, NineOf, Zenon DEF SendPSI

LEMMA SendEBLIs == SendEBL \in Seq(Exchanges) /\ Len(SendEBL) = 5
<1>1. /\ Post("EBL length") \in Exchanges /\ Hear("CCCC") \in Exchanges
      /\ Image("EBL") \in Exchanges /\ Post("EBL crc") \in Exchanges
      /\ Hear("51A5") \in Exchanges
  BY OneExchange DEF Items
<1> QED BY <1>1, FiveOf, Zenon DEF SendEBL

LEMMA ReadBootInfoIs ==
    /\ ReadBootInfo \in Seq(Exchanges) /\ Len(ReadBootInfo) = 3
    /\ Within(ReadBootInfo, 0, << Hear("info") >>)
    /\ Within(ReadBootInfo, 1, Command("SetPortConf"))
<1> DEFINE s == << Hear("info") >>
           t == Command("SetPortConf")
<1>1. s \in Seq(Exchanges) /\ Len(s) = 1 /\ t \in Seq(Exchanges) /\ Len(t) = 2
  BY OneExchange, Alone, CommandIs DEF Items
<1>2. ReadBootInfo = s \o t
  BY DEF ReadBootInfo
<1> HIDE DEF s, t
<1>3. /\ ReadBootInfo \in Seq(Exchanges) /\ Len(ReadBootInfo) = Len(s) + Len(t)
      /\ Within(ReadBootInfo, 0, s) /\ Within(ReadBootInfo, Len(s), t)
  BY <1>1, <1>2, Joined DEF Joins
<1>4. Len(ReadBootInfo) = 3 /\ Within(ReadBootInfo, 1, t)
  BY <1>1, <1>3
<1> QED BY <1>3, <1>4, Zenon DEF s, t

LEMMA SendSecureImageIs ==
    /\ SendSecureImage \in Seq(Exchanges) /\ Len(SendSecureImage) = 10
    /\ Within(SendSecureImage, 0, Command("SecStart"))
    /\ Within(SendSecureImage, 2, Command("SetAddress firmware"))
    /\ Within(SendSecureImage, 4, << Flash("firmware") >>)
    /\ Within(SendSecureImage, 5, Command("SetAddress nvdata"))
    /\ Within(SendSecureImage, 7, << Flash("nvdata") >>)
    /\ Within(SendSecureImage, 8, Command("SecEnd"))
<1> DEFINE a == Command("SecStart")
           b == Command("SetAddress firmware")
           c == << Flash("firmware") >>
           d == Command("SetAddress nvdata")
           e == << Flash("nvdata") >>
           f == Command("SecEnd")
<1>1. /\ a \in Seq(Exchanges) /\ Len(a) = 2 /\ b \in Seq(Exchanges) /\ Len(b) = 2
      /\ c \in Seq(Exchanges) /\ Len(c) = 1 /\ d \in Seq(Exchanges) /\ Len(d) = 2
      /\ e \in Seq(Exchanges) /\ Len(e) = 1 /\ f \in Seq(Exchanges) /\ Len(f) = 2
  BY OneExchange, Alone, CommandIs DEF Items
<1>2. SendSecureImage = a \o b \o c \o d \o e \o f
  BY DEF SendSecureImage
<1> HIDE DEF a, b, c, d, e, f
<1> DEFINE ab == a \o b
<1>3. /\ ab \in Seq(Exchanges) /\ Len(ab) = 4 /\ Within(ab, 0, a) /\ Within(ab, 2, b)
  <2>1. Joins(ab, a, b)
    BY DEF Joins
  <2> HIDE DEF ab
  <2>2. /\ ab \in Seq(Exchanges) /\ Len(ab) = Len(a) + Len(b)
        /\ Within(ab, 0, a) /\ Within(ab, Len(a), b)
    BY <1>1, <2>1, Joined
  <2> QED BY <1>1, <2>2
<1> HIDE DEF ab
<1> DEFINE abc == ab \o c
<1>4. /\ abc \in Seq(Exchanges) /\ Len(abc) = 5 /\ Within(abc, 0, ab) /\ Within(abc, 4, c)
  <2>1. Joins(abc, ab, c)
    BY DEF Joins
  <2> HIDE DEF abc
  <2>2. /\ abc \in Seq(Exchanges) /\ Len(abc) = Len(ab) + Len(c)
        /\ Within(abc, 0, ab) /\ Within(abc, Len(ab), c)
    BY <1>1, <1>3, <2>1, Joined
  <2> QED BY <1>1, <1>3, <2>2
<1> HIDE DEF abc
<1> DEFINE abcd == abc \o d
<1>5. /\ abcd \in Seq(Exchanges) /\ Len(abcd) = 7 /\ Within(abcd, 0, abc) /\ Within(abcd, 5, d)
  <2>1. Joins(abcd, abc, d)
    BY DEF Joins
  <2> HIDE DEF abcd
  <2>2. /\ abcd \in Seq(Exchanges) /\ Len(abcd) = Len(abc) + Len(d)
        /\ Within(abcd, 0, abc) /\ Within(abcd, Len(abc), d)
    BY <1>1, <1>4, <2>1, Joined
  <2> QED BY <1>1, <1>4, <2>2
<1> HIDE DEF abcd
<1> DEFINE abcde == abcd \o e
<1>6. /\ abcde \in Seq(Exchanges) /\ Len(abcde) = 8
      /\ Within(abcde, 0, abcd) /\ Within(abcde, 7, e)
  <2>1. Joins(abcde, abcd, e)
    BY DEF Joins
  <2> HIDE DEF abcde
  <2>2. /\ abcde \in Seq(Exchanges) /\ Len(abcde) = Len(abcd) + Len(e)
        /\ Within(abcde, 0, abcd) /\ Within(abcde, Len(abcd), e)
    BY <1>1, <1>5, <2>1, Joined
  <2> QED BY <1>1, <1>5, <2>2
<1> HIDE DEF abcde
<1> DEFINE all == abcde \o f
<1>7. /\ all \in Seq(Exchanges) /\ Len(all) = 10 /\ Within(all, 0, abcde) /\ Within(all, 8, f)
  <2>1. Joins(all, abcde, f)
    BY DEF Joins
  <2> HIDE DEF all
  <2>2. /\ all \in Seq(Exchanges) /\ Len(all) = Len(abcde) + Len(f)
        /\ Within(all, 0, abcde) /\ Within(all, Len(abcde), f)
    BY <1>1, <1>6, <2>1, Joined
  <2> QED BY <1>1, <1>6, <2>2
<1>8. SendSecureImage = all
  BY <1>2 DEF ab, abc, abcd, abcde
<1> HIDE DEF all
<1>9. Within(all, 0, abcd) /\ Within(all, 7, e)
  <2>1. Within(all, 0, abcd)
    BY <1>1, <1>5, <1>6, <1>7, WithinFirst, Zenon
  <2>2. Within(all, 7, e)
    BY <1>1, <1>5, <1>6, <1>7, WithinFirst, Zenon
  <2> QED BY <2>1, <2>2
<1>10. Within(all, 0, abc) /\ Within(all, 5, d)
  <2>1. Within(all, 0, abc)
    BY <1>1, <1>4, <1>5, <1>7, <1>9, WithinFirst, Zenon
  <2>2. Within(all, 5, d)
    BY <1>1, <1>4, <1>5, <1>7, <1>9, WithinFirst, Zenon
  <2> QED BY <2>1, <2>2
<1>11. Within(all, 0, ab) /\ Within(all, 4, c)
  <2>1. Within(all, 0, ab)
    BY <1>1, <1>3, <1>4, <1>7, <1>10, WithinFirst, Zenon
  <2>2. Within(all, 4, c)
    BY <1>1, <1>3, <1>4, <1>7, <1>10, WithinFirst, Zenon
  <2> QED BY <2>1, <2>2
<1>12. Within(all, 0, a) /\ Within(all, 2, b)
  <2>1. Within(all, 0, a)
    BY <1>1, <1>3, <1>7, <1>11, WithinFirst, Zenon
  <2>2. Within(all, 2, b)
    BY <1>1, <1>3, <1>7, <1>11, WithinFirst, Zenon
  <2> QED BY <2>1, <2>2
<1> QED BY <1>7, <1>8, <1>9, <1>10, <1>11, <1>12 DEF a, b, c, d, e, f

LEMMA BootScriptIs ==
    /\ Script("boot") \in Seq(Exchanges) /\ Len(Script("boot")) = 28
    /\ Within(Script("boot"), 0, SendPSI) /\ Within(Script("boot"), 9, SendEBL)
    /\ Within(Script("boot"), 14, ReadBootInfo) /\ Within(Script("boot"), 17, SendSecureImage)
    /\ Within(Script("boot"), 27, << Post("ForceHwReset") >>)
<1> DEFINE a == SendPSI
           b == SendEBL
           c == ReadBootInfo
           d == SendSecureImage
           e == << Post("ForceHwReset") >>
<1>1. /\ a \in Seq(Exchanges) /\ Len(a) = 9 /\ b \in Seq(Exchanges) /\ Len(b) = 5
      /\ c \in Seq(Exchanges) /\ Len(c) = 3 /\ d \in Seq(Exchanges) /\ Len(d) = 10
      /\ e \in Seq(Exchanges) /\ Len(e) = 1
  BY SendPSIIs, SendEBLIs, ReadBootInfoIs, SendSecureImageIs, OneExchange, Alone DEF Items
<1>2. Script("boot") = a \o b \o c \o d \o e
  BY DEF Script
<1> HIDE DEF a, b, c, d, e
<1> DEFINE ab == a \o b
<1>3. /\ ab \in Seq(Exchanges) /\ Len(ab) = 14 /\ Within(ab, 0, a) /\ Within(ab, 9, b)
  <2>1. Joins(ab, a, b)
    BY DEF Joins
  <2> HIDE DEF ab
  <2>2. /\ ab \in Seq(Exchanges) /\ Len(ab) = Len(a) + Len(b)
        /\ Within(ab, 0, a) /\ Within(ab, Len(a), b)
    BY <1>1, <2>1, Joined
  <2> QED BY <1>1, <2>2
<1> HIDE DEF ab
<1> DEFINE abc == ab \o c
<1>4. /\ abc \in Seq(Exchanges) /\ Len(abc) = 17 /\ Within(abc, 0, ab) /\ Within(abc, 14, c)
  <2>1. Joins(abc, ab, c)
    BY DEF Joins
  <2> HIDE DEF abc
  <2>2. /\ abc \in Seq(Exchanges) /\ Len(abc) = Len(ab) + Len(c)
        /\ Within(abc, 0, ab) /\ Within(abc, Len(ab), c)
    BY <1>1, <1>3, <2>1, Joined
  <2> QED BY <1>1, <1>3, <2>2
<1> HIDE DEF abc
<1> DEFINE abcd == abc \o d
<1>5. /\ abcd \in Seq(Exchanges) /\ Len(abcd) = 27
      /\ Within(abcd, 0, abc) /\ Within(abcd, 17, d)
  <2>1. Joins(abcd, abc, d)
    BY DEF Joins
  <2> HIDE DEF abcd
  <2>2. /\ abcd \in Seq(Exchanges) /\ Len(abcd) = Len(abc) + Len(d)
        /\ Within(abcd, 0, abc) /\ Within(abcd, Len(abc), d)
    BY <1>1, <1>4, <2>1, Joined
  <2> QED BY <1>1, <1>4, <2>2
<1> HIDE DEF abcd
<1> DEFINE all == abcd \o e
<1>6. /\ all \in Seq(Exchanges) /\ Len(all) = 28 /\ Within(all, 0, abcd) /\ Within(all, 27, e)
  <2>1. Joins(all, abcd, e)
    BY DEF Joins
  <2> HIDE DEF all
  <2>2. /\ all \in Seq(Exchanges) /\ Len(all) = Len(abcd) + Len(e)
        /\ Within(all, 0, abcd) /\ Within(all, Len(abcd), e)
    BY <1>1, <1>5, <2>1, Joined
  <2> QED BY <1>1, <1>5, <2>2
<1>7. Script("boot") = all
  BY <1>2 DEF ab, abc, abcd
<1> HIDE DEF all
<1>8. Within(all, 0, abc) /\ Within(all, 17, d)
  <2>1. Within(all, 0, abc)
    BY <1>1, <1>4, <1>5, <1>6, WithinFirst, Zenon
  <2>2. Within(all, 17, d)
    BY <1>1, <1>4, <1>5, <1>6, WithinFirst, Zenon
  <2> QED BY <2>1, <2>2
<1>9. Within(all, 0, ab) /\ Within(all, 14, c)
  <2>1. Within(all, 0, ab)
    BY <1>1, <1>3, <1>4, <1>6, <1>8, WithinFirst, Zenon
  <2>2. Within(all, 14, c)
    BY <1>1, <1>3, <1>4, <1>6, <1>8, WithinFirst, Zenon
  <2> QED BY <2>1, <2>2
<1>10. Within(all, 0, a) /\ Within(all, 9, b)
  <2>1. Within(all, 0, a)
    BY <1>1, <1>3, <1>6, <1>9, WithinFirst, Zenon
  <2>2. Within(all, 9, b)
    BY <1>1, <1>3, <1>6, <1>9, WithinFirst, Zenon
  <2> QED BY <2>1, <2>2
<1> QED BY <1>6, <1>7, <1>8, <1>9, <1>10 DEF a, b, c, d, e

LEMMA DumpScriptIs ==
    /\ Script("dump") \in Seq(Exchanges) /\ Len(Script("dump")) = 13
    /\ Script("dump")[13] = Upload
<1> DEFINE t == << Post("upload key"), Hear("error"), Post("PASS"), Upload >>
<1>1. t \in Seq(Exchanges) /\ Len(t) = 4
  <2>1. /\ Post("upload key") \in Exchanges /\ Hear("error") \in Exchanges
        /\ Post("PASS") \in Exchanges /\ Upload \in Exchanges
    BY OneExchange DEF Upload, Exchanges, Items
  <2> QED BY <2>1, FourOf, Zenon
<1>2. Script("dump") = SendPSI \o t
  BY DEF Script
<1> HIDE DEF t
<1>3. /\ Script("dump") \in Seq(Exchanges) /\ Len(Script("dump")) = Len(SendPSI) + Len(t)
      /\ Within(Script("dump"), Len(SendPSI), t)
  BY <1>1, <1>2, SendPSIIs, Joined DEF Joins
<1>4. Script("dump")[9 + 4] = t[4]
  BY <1>1, <1>3, SendPSIIs DEF Within
<1>5. t[4] = Upload /\ 9 + 4 = 13
  BY DEF t
<1> QED BY <1>1, <1>3, <1>4, <1>5, SendPSIIs

Posts == {1, 5, 10, 13, 16, 18, 20, 23, 26, 28}

Booting == Script("boot")

LEMMA Listed ==
    /\ Booting[1] = Post("ATAT") /\ Booting[2] = Hear("any") /\ Booting[3] = Hear("any")
    /\ Booting[4] = Image("PSI") /\ Booting[5] = Post("PSI crc") /\ Booting[6] = Hear("any")
    /\ Booting[7] = Hear("01") /\ Booting[8] = Hear("01") /\ Booting[9] = Hear("00AA")
    /\ Booting[10] = Post("EBL length") /\ Booting[11] = Hear("CCCC")
    /\ Booting[12] = Image("EBL")
    /\ Booting[13] = Post("EBL crc") /\ Booting[14] = Hear("51A5")
    /\ Booting[15] = Hear("info") /\ Booting[16] = Post("SetPortConf")
    /\ Booting[17] = Hear("SetPortConf")
    /\ Booting[18] = Post("SecStart") /\ Booting[19] = Hear("SecStart")
    /\ Booting[20] = Post("SetAddress firmware") /\ Booting[21] = Hear("SetAddress firmware")
    /\ Booting[22] = Flash("firmware")
    /\ Booting[23] = Post("SetAddress nvdata") /\ Booting[24] = Hear("SetAddress nvdata")
    /\ Booting[25] = Flash("nvdata")
    /\ Booting[26] = Post("SecEnd") /\ Booting[27] = Hear("SecEnd")
    /\ Booting[28] = Post("ForceHwReset")
<1> DEFINE s == Booting
<1>1. /\ Within(s, 0, SendPSI) /\ Within(s, 9, SendEBL) /\ Within(s, 14, ReadBootInfo)
      /\ Within(s, 17, SendSecureImage) /\ Within(s, 27, << Post("ForceHwReset") >>)
  BY BootScriptIs, Zenon DEF Booting
<1> HIDE DEF s
<1>2. /\ s[1] = Post("ATAT") /\ s[2] = Hear("any") /\ s[3] = Hear("any")
      /\ s[4] = Image("PSI") /\ s[5] = Post("PSI crc") /\ s[6] = Hear("any")
      /\ s[7] = Hear("01") /\ s[8] = Hear("01") /\ s[9] = Hear("00AA")
  <2>1. \A i \in 1 .. 9 : s[i] = SendPSI[i]
    BY <1>1, SendPSIIs DEF Within
  <2>2. /\ s[1] = SendPSI[1] /\ s[2] = SendPSI[2] /\ s[3] = SendPSI[3] /\ s[4] = SendPSI[4]
        /\ s[5] = SendPSI[5] /\ s[6] = SendPSI[6] /\ s[7] = SendPSI[7] /\ s[8] = SendPSI[8]
        /\ s[9] = SendPSI[9]
    BY <2>1
  <2> QED BY <2>2 DEF SendPSI
<1>3. /\ s[10] = Post("EBL length") /\ s[11] = Hear("CCCC") /\ s[12] = Image("EBL")
      /\ s[13] = Post("EBL crc") /\ s[14] = Hear("51A5")
  <2>1. \A i \in 1 .. 5 : s[9 + i] = SendEBL[i]
    BY <1>1, SendEBLIs DEF Within
  <2>2. /\ s[10] = SendEBL[1] /\ s[11] = SendEBL[2] /\ s[12] = SendEBL[3]
        /\ s[13] = SendEBL[4] /\ s[14] = SendEBL[5]
    <3>1. 9 + 1 = 10 /\ 9 + 2 = 11 /\ 9 + 3 = 12 /\ 9 + 4 = 13 /\ 9 + 5 = 14
      OBVIOUS
    <3> QED BY <2>1, <3>1
  <2> QED BY <2>2 DEF SendEBL
<1>4. /\ s[15] = Hear("info") /\ s[16] = Post("SetPortConf") /\ s[17] = Hear("SetPortConf")
  <2>1. \A i \in 1 .. 3 : s[14 + i] = ReadBootInfo[i]
    BY <1>1, ReadBootInfoIs DEF Within
  <2>2. /\ ReadBootInfo[1] = Hear("info") /\ ReadBootInfo[2] = Command("SetPortConf")[1]
        /\ ReadBootInfo[3] = Command("SetPortConf")[2]
    <3>1. "info" \in Items /\ "SetPortConf" \in Items
      BY DEF Items
    <3>2. Len(<< Hear("info") >>) = 1 /\ Len(Command("SetPortConf")) = 2
      BY <3>1, CommandIs
    <3>3. /\ ReadBootInfo[0 + 1] = << Hear("info") >>[1]
          /\ ReadBootInfo[1 + 1] = Command("SetPortConf")[1]
          /\ ReadBootInfo[1 + 2] = Command("SetPortConf")[2]
      BY <3>2, ReadBootInfoIs DEF Within
    <3> QED BY <3>3
  <2>3. s[15] = ReadBootInfo[1] /\ s[16] = ReadBootInfo[2] /\ s[17] = ReadBootInfo[3]
    <3>1. 14 + 1 = 15 /\ 14 + 2 = 16 /\ 14 + 3 = 17
      OBVIOUS
    <3> QED BY <2>1, <3>1
  <2> QED BY <2>2, <2>3 DEF Command
<1>5. /\ s[18] = Post("SecStart") /\ s[19] = Hear("SecStart")
      /\ s[20] = Post("SetAddress firmware") /\ s[21] = Hear("SetAddress firmware")
      /\ s[22] = Flash("firmware")
      /\ s[23] = Post("SetAddress nvdata") /\ s[24] = Hear("SetAddress nvdata")
      /\ s[25] = Flash("nvdata")
      /\ s[26] = Post("SecEnd") /\ s[27] = Hear("SecEnd")
  <2> DEFINE d == SendSecureImage
  <2>1. \A i \in 1 .. 10 : s[17 + i] = d[i]
    BY <1>1, SendSecureImageIs DEF Within
  <2>2. ASSUME NEW n \in Nat, NEW item \in Items, Within(d, n, Command(item))
        PROVE  d[n + 1] = Post(item) /\ d[n + 2] = Hear(item)
    <3>1. Len(Command(item)) = 2
      BY CommandIs
    <3>2. d[n + 1] = Command(item)[1] /\ d[n + 2] = Command(item)[2]
      BY <2>2, <3>1 DEF Within
    <3> QED BY <3>2 DEF Command
  <2>3. ASSUME NEW n \in Nat, NEW x, Within(d, n, << x >>)
        PROVE  d[n + 1] = x
    <3>1. Len(<< x >>) = 1 /\ << x >>[1] = x
      OBVIOUS
    <3>2. d[n + 1] = << x >>[1]
      BY <2>3, <3>1 DEF Within
    <3> QED BY <3>1, <3>2
  <2>4. /\ "SecStart" \in Items /\ "SetAddress firmware" \in Items
        /\ "SetAddress nvdata" \in Items /\ "SecEnd" \in Items
    BY DEF Items
  <2>5. /\ Within(d, 0, Command("SecStart")) /\ Within(d, 2, Command("SetAddress firmware"))
        /\ Within(d, 4, << Flash("firmware") >>) /\ Within(d, 5, Command("SetAddress nvdata"))
        /\ Within(d, 7, << Flash("nvdata") >>) /\ Within(d, 8, Command("SecEnd"))
    BY SendSecureImageIs, Zenon
  <2> HIDE DEF d
  <2>6. d[0 + 1] = Post("SecStart") /\ d[0 + 2] = Hear("SecStart")
    BY <2>2, <2>4, <2>5
  <2>7. d[2 + 1] = Post("SetAddress firmware") /\ d[2 + 2] = Hear("SetAddress firmware")
    BY <2>2, <2>4, <2>5
  <2>8. d[4 + 1] = Flash("firmware") /\ d[7 + 1] = Flash("nvdata")
    BY <2>3, <2>5
  <2>9. d[5 + 1] = Post("SetAddress nvdata") /\ d[5 + 2] = Hear("SetAddress nvdata")
    BY <2>2, <2>4, <2>5
  <2>10. d[8 + 1] = Post("SecEnd") /\ d[8 + 2] = Hear("SecEnd")
    BY <2>2, <2>4, <2>5
  <2>11. /\ d[1] = Post("SecStart") /\ d[2] = Hear("SecStart")
         /\ d[3] = Post("SetAddress firmware") /\ d[4] = Hear("SetAddress firmware")
         /\ d[5] = Flash("firmware")
         /\ d[6] = Post("SetAddress nvdata") /\ d[7] = Hear("SetAddress nvdata")
         /\ d[8] = Flash("nvdata") /\ d[9] = Post("SecEnd") /\ d[10] = Hear("SecEnd")
    <3>1. /\ 0 + 1 = 1 /\ 0 + 2 = 2 /\ 2 + 1 = 3 /\ 2 + 2 = 4 /\ 4 + 1 = 5 /\ 5 + 1 = 6
          /\ 5 + 2 = 7 /\ 7 + 1 = 8 /\ 8 + 1 = 9 /\ 8 + 2 = 10
      OBVIOUS
    <3> QED BY <2>6, <2>7, <2>8, <2>9, <2>10, <3>1
  <2>12. /\ s[18] = d[1] /\ s[19] = d[2] /\ s[20] = d[3] /\ s[21] = d[4] /\ s[22] = d[5]
         /\ s[23] = d[6] /\ s[24] = d[7] /\ s[25] = d[8] /\ s[26] = d[9] /\ s[27] = d[10]
    <3>1. /\ 17 + 1 = 18 /\ 17 + 2 = 19 /\ 17 + 3 = 20 /\ 17 + 4 = 21 /\ 17 + 5 = 22
          /\ 17 + 6 = 23 /\ 17 + 7 = 24 /\ 17 + 8 = 25 /\ 17 + 9 = 26 /\ 17 + 10 = 27
      OBVIOUS
    <3> QED BY <2>1, <3>1
  <2> QED BY <2>11, <2>12
<1>6. s[28] = Post("ForceHwReset")
  <2>1. Len(<< Post("ForceHwReset") >>) = 1 /\ 27 + 1 = 28
    OBVIOUS
  <2>2. s[27 + 1] = << Post("ForceHwReset") >>[1]
    BY <1>1, <2>1 DEF Within
  <2> QED BY <2>1, <2>2
<1> QED BY <1>2, <1>3, <1>4, <1>5, <1>6, Zenon DEF s

LEMMA Fields ==
    \A item : /\ Post(item).op = "post" /\ Post(item).item = item
              /\ Hear(item).op = "hear" /\ Image(item).op = "image" /\ Flash(item).op = "flash"
BY DEF Post, Hear, Image, Flash

LEMMA Operations ==
    \A n \in 1 .. 28 :
      /\ (n \in Posts) <=> (Booting[n].op = "post")
      /\ (n \in {4, 12}) <=> (Booting[n].op = "image")
      /\ (n \in {22, 25}) <=> (Booting[n].op = "flash")
      /\ Booting[n].op # "upload"
<1>1. /\ Booting[1].op = "post" /\ Booting[5].op = "post" /\ Booting[10].op = "post"
      /\ Booting[13].op = "post" /\ Booting[16].op = "post" /\ Booting[18].op = "post"
      /\ Booting[20].op = "post" /\ Booting[23].op = "post" /\ Booting[26].op = "post"
      /\ Booting[28].op = "post"
  <2>1. /\ Booting[1].op = "post" /\ Booting[5].op = "post" /\ Booting[10].op = "post"
    <3>1. /\ Booting[1] = Post("ATAT") /\ Booting[5] = Post("PSI crc")
          /\ Booting[10] = Post("EBL length")
      BY Listed
    <3> QED BY <3>1, Fields, Zenon
  <2>2. /\ Booting[13].op = "post" /\ Booting[16].op = "post" /\ Booting[18].op = "post"
    <3>1. /\ Booting[13] = Post("EBL crc") /\ Booting[16] = Post("SetPortConf")
          /\ Booting[18] = Post("SecStart")
      BY Listed
    <3> QED BY <3>1, Fields, Zenon
  <2>3. /\ Booting[20].op = "post" /\ Booting[23].op = "post" /\ Booting[26].op = "post"
    <3>1. /\ Booting[20] = Post("SetAddress firmware")
          /\ Booting[23] = Post("SetAddress nvdata") /\ Booting[26] = Post("SecEnd")
      BY Listed
    <3> QED BY <3>1, Fields, Zenon
  <2>4. /\ Booting[28].op = "post"
    <3>1. /\ Booting[28] = Post("ForceHwReset")
      BY Listed
    <3> QED BY <3>1, Fields, Zenon
  <2> QED BY <2>1, <2>2, <2>3, <2>4
<1>2. /\ Booting[4].op = "image" /\ Booting[12].op = "image"
      /\ Booting[22].op = "flash" /\ Booting[25].op = "flash"
  <2>1. /\ Booting[4].op = "image" /\ Booting[12].op = "image"
    <3>1. /\ Booting[4] = Image("PSI") /\ Booting[12] = Image("EBL")
      BY Listed
    <3> QED BY <3>1, Fields, Zenon
  <2>2. /\ Booting[22].op = "flash" /\ Booting[25].op = "flash"
    <3>1. /\ Booting[22] = Flash("firmware") /\ Booting[25] = Flash("nvdata")
      BY Listed
    <3> QED BY <3>1, Fields, Zenon
  <2> QED BY <2>1, <2>2
<1>3. /\ Booting[2].op = "hear" /\ Booting[3].op = "hear" /\ Booting[6].op = "hear"
      /\ Booting[7].op = "hear" /\ Booting[8].op = "hear" /\ Booting[9].op = "hear"
      /\ Booting[11].op = "hear" /\ Booting[14].op = "hear" /\ Booting[15].op = "hear"
      /\ Booting[17].op = "hear" /\ Booting[19].op = "hear" /\ Booting[21].op = "hear"
      /\ Booting[24].op = "hear" /\ Booting[27].op = "hear"
  <2>1. /\ Booting[2].op = "hear" /\ Booting[3].op = "hear" /\ Booting[6].op = "hear"
    <3>1. /\ Booting[2] = Hear("any") /\ Booting[3] = Hear("any")
          /\ Booting[6] = Hear("any")
      BY Listed
    <3> QED BY <3>1, Fields, Zenon
  <2>2. /\ Booting[7].op = "hear" /\ Booting[8].op = "hear" /\ Booting[9].op = "hear"
    <3>1. /\ Booting[7] = Hear("01") /\ Booting[8] = Hear("01")
          /\ Booting[9] = Hear("00AA")
      BY Listed
    <3> QED BY <3>1, Fields, Zenon
  <2>3. /\ Booting[11].op = "hear" /\ Booting[14].op = "hear" /\ Booting[15].op = "hear"
    <3>1. /\ Booting[11] = Hear("CCCC") /\ Booting[14] = Hear("51A5")
          /\ Booting[15] = Hear("info")
      BY Listed
    <3> QED BY <3>1, Fields, Zenon
  <2>4. /\ Booting[17].op = "hear" /\ Booting[19].op = "hear" /\ Booting[21].op = "hear"
    <3>1. /\ Booting[17] = Hear("SetPortConf") /\ Booting[19] = Hear("SecStart")
          /\ Booting[21] = Hear("SetAddress firmware")
      BY Listed
    <3> QED BY <3>1, Fields, Zenon
  <2>5. /\ Booting[24].op = "hear" /\ Booting[27].op = "hear"
    <3>1. /\ Booting[24] = Hear("SetAddress nvdata") /\ Booting[27] = Hear("SecEnd")
      BY Listed
    <3> QED BY <3>1, Fields, Zenon
  <2> QED BY <2>1, <2>2, <2>3, <2>4, <2>5
<1>4. \A n \in 1 .. 28 : \/ n \in Posts \/ n \in {4, 12} \/ n \in {22, 25}
                         \/ n \in {2, 3, 6, 7, 8, 9, 11, 14, 15, 17, 19, 21, 24, 27}
  BY DEF Posts
<1>5. ASSUME NEW n \in 1 .. 28
      PROVE  /\ (n \in Posts) <=> (Booting[n].op = "post")
             /\ (n \in {4, 12}) <=> (Booting[n].op = "image")
             /\ (n \in {22, 25}) <=> (Booting[n].op = "flash")
             /\ Booting[n].op # "upload"
  <2>1. CASE n \in Posts
    BY <1>1, <2>1 DEF Posts
  <2>2. CASE n \in {4, 12} \/ n \in {22, 25}
    BY <1>2, <2>2 DEF Posts
  <2>3. CASE n \in {2, 3, 6, 7, 8, 9, 11, 14, 15, 17, 19, 21, 24, 27}
    BY <1>3, <2>3 DEF Posts
  <2> QED BY <1>4, <2>1, <2>2, <2>3
<1> QED BY <1>5

-----------------------------------------------------------------------------
(* The invariant.                                                          *)

\* The stage of a modem to which the n-th exchange of boot() comes.
StageAt(n) ==
    IF n <= 1 THEN "rom" ELSE IF n <= 5 THEN "greeted" ELSE IF n <= 10 THEN "PSI"
    ELSE IF n <= 13 THEN "EBL wanted" ELSE IF n <= 16 THEN "EBL"
    ELSE IF n <= 18 THEN "configured" ELSE IF n <= 20 THEN "secure"
    ELSE IF n <= 23 THEN "firmware" ELSE IF n <= 26 THEN "nvdata" ELSE "loaded"

\* What it has of an image, and of the area that the n-th exchange writes.
Loaded == CASE step \in {4, 12} -> offset
            [] step \in {5, 13} -> ImageSize
            [] step \notin {4, 5, 12, 13} -> 0

Written(n) == CASE step < n -> 0 [] step = n -> offset [] step > n -> Blocks

AllWritten == flash = [a \in Areas |-> Blocks]

\* While the script runs, a modem that lives is where the script is.
InStep ==
    call = "boot" /\ phase \in {"connect", "script"} /\ stage # "dead" =>
        /\ stage = StageAt(step) /\ image = Loaded
        /\ flash["firmware"] = Written(22) /\ flash["nvdata"] = Written(25)

\* After it, nothing is missing, and only a modem that runs goes on.
Complete ==
    /\ call = "boot" /\ phase = "wakeUp" /\ stage # "dead" =>
         stage \in {"reset", "running"} /\ AllWritten
    /\ call = "boot" /\ phase \in {"wakeDown", "relink"} => stage = "running" /\ AllWritten
    /\ awake => stage = "running"

OffsetInv ==
    /\ phase = "connect" => step = 1 /\ offset = 0
    /\ call = "boot" /\ phase = "script" /\ step \in {22, 25} => offset < Blocks

LinkInv ==
    /\ phase # "idle" => calls > 0
    /\ calls > 0 /\ phase # "wakeDown" => link
    /\ phase # "idle" => call \in {"boot", "dump"}
    /\ phase \in {"wakeUp", "wakeDown", "relink"} => call = "boot"

SocketInv == (socket = "none") <=> (phase \in {"idle", "returned"})

Types == TypeOK /\ step \in Nat \ {0} /\ image \in Nat

Inv ==
    /\ Types /\ OffsetInv /\ InStep /\ Complete /\ LinkInv /\ SocketInv
    /\ BootedOnlyIfComplete /\ BootSocketValid

LEMMA InitInv == Init => Inv
<1> SUFFICES ASSUME Init PROVE Inv
  OBVIOUS
<1>1. Types
  <2>1. link \in BOOLEAN /\ awake \in BOOLEAN /\ connected \in BOOLEAN
    BY Zenon DEF Init
  <2>2. /\ phase # "script" /\ step = 1 /\ image = 0 /\ flash = [a \in Areas |-> 0]
        /\ calls = 0 /\ offset = 0 /\ tries = 0
    BY DEF Init
  <2>3. /\ call \in {"none", "boot", "dump"} /\ phase \in Phases /\ stage \in Stages
        /\ socket \in {"none", "open", "closed"} /\ bootSocket \in {"null", "live", "dangling"}
        /\ result \in {"none", "true", "false"} /\ report \in {"none", "dumped", "failed"}
    BY DEF Init, Phases, Stages
  <2> QED BY <2>1, <2>2, <2>3, ConstantsAssumption DEF Types, TypeOK
<1>2. OffsetInv /\ InStep /\ LinkInv /\ SocketInv
  BY DEF Init, OffsetInv, InStep, LinkInv, SocketInv
<1>3. Complete /\ BootedOnlyIfComplete /\ BootSocketValid
  BY DEF Init, Complete, BootedOnlyIfComplete, BootSocketValid
<1> QED BY <1>1, <1>2, <1>3 DEF Inv

-----------------------------------------------------------------------------
(* The modem and what it accepts.                                          *)

ItemsPosted == {"ATAT", "PSI crc", "EBL length", "EBL crc", "SetPortConf", "SecStart",
                "SetAddress firmware", "SetAddress nvdata", "SecEnd", "ForceHwReset",
                "upload key", "PASS"}

LEMMA AcceptsWhat ==
    ASSUME NEW item, Accepts(item)
    PROVE  item \in ItemsPosted /\ stage \notin {"off", "dead", "running"}
BY DEF Accepts, ItemsPosted

LEMMA EffectOf ==
    /\ Effect("ATAT").to = "greeted" /\ Effect("PSI crc").to = "PSI"
    /\ Effect("EBL length").to = "EBL wanted" /\ Effect("EBL crc").to = "EBL"
    /\ Effect("SetPortConf").to = "configured" /\ Effect("SecStart").to = "secure"
    /\ Effect("SetAddress firmware").to = "firmware"
    /\ Effect("SetAddress nvdata").to = "nvdata" /\ Effect("SecEnd").to = "loaded"
    /\ Effect("ForceHwReset").to = "reset" /\ Effect("upload key").to = "key"
    /\ Effect("PASS").to = "upload"
BY DEF Effect

LEMMA EffectInStages ==
    ASSUME NEW item \in ItemsPosted
    PROVE  Effect(item).to \in Stages
BY EffectOf DEF ItemsPosted, Stages

LEMMA StageAtKept ==
    ASSUME NEW n \in 1 .. 28
    PROVE  /\ n \notin Posts => StageAt(n + 1) = StageAt(n)
           /\ StageAt(n) \notin {"dead", "reset", "running"}
<1>1. StageAt(n) \notin {"dead", "reset", "running"}
  BY DEF StageAt
<1>2. n \in 2 .. 4 => StageAt(n + 1) = "greeted" /\ StageAt(n) = "greeted"
  BY DEF StageAt
<1>3. n \in 6 .. 9 => StageAt(n + 1) = "PSI" /\ StageAt(n) = "PSI"
  BY DEF StageAt
<1>4. n \in 11 .. 12 => StageAt(n + 1) = "EBL wanted" /\ StageAt(n) = "EBL wanted"
  BY DEF StageAt
<1>5. n \in 14 .. 15 => StageAt(n + 1) = "EBL" /\ StageAt(n) = "EBL"
  BY DEF StageAt
<1>6. n \in {17} => StageAt(n + 1) = "configured" /\ StageAt(n) = "configured"
  BY DEF StageAt
<1>7. n \in {19} => StageAt(n + 1) = "secure" /\ StageAt(n) = "secure"
  BY DEF StageAt
<1>8. n \in 21 .. 22 => StageAt(n + 1) = "firmware" /\ StageAt(n) = "firmware"
  BY DEF StageAt
<1>9. n \in 24 .. 25 => StageAt(n + 1) = "nvdata" /\ StageAt(n) = "nvdata"
  BY DEF StageAt
<1>10. n \in {27} => StageAt(n + 1) = "loaded" /\ StageAt(n) = "loaded"
  BY DEF StageAt
<1>11. n \notin Posts => \/ n \in 2 .. 4 \/ n \in 6 .. 9 \/ n \in 11 .. 12 \/ n \in 14 .. 15
                          \/ n \in {17} \/ n \in {19} \/ n \in 21 .. 22 \/ n \in 24 .. 25
                          \/ n \in {27}
  BY DEF Posts
<1> QED BY <1>1, <1>2, <1>3, <1>4, <1>5, <1>6, <1>7, <1>8, <1>9, <1>10, <1>11

LEMMA LoaderStages == StageAt(13) = "EBL wanted" /\ StageAt(14) = "EBL"
<1>1. ASSUME NEW n \in Nat, n = 13
      PROVE  StageAt(n) = "EBL wanted"
  BY <1>1 DEF StageAt
<1>2. ASSUME NEW n \in Nat, n = 14
      PROVE  StageAt(n) = "EBL"
  BY <1>2 DEF StageAt
<1> QED BY <1>1, <1>2

\* A modem that is in step accepts what the script posts, and stays in step.
LEMMA PostDoes ==
    ASSUME NEW n \in Posts, stage = StageAt(n), n \in {5, 13} => image = ImageSize
    PROVE  /\ Accepts(Booting[n].item)
           /\ Effect(Booting[n].item).to = IF n = 28 THEN "reset" ELSE StageAt(n + 1)
<1> n \in 1 .. 28
  BY DEF Posts
<1>1. CASE n = 1
  <2>1. Booting[n].item = "ATAT"
    <3>1. Booting[1] = Post("ATAT")
      BY Listed
    <3> QED BY <1>1, <3>1, Fields, Zenon
  <2>2. stage = "rom"
    BY <1>1 DEF StageAt
  <2>3. Accepts("ATAT")
    BY <2>2 DEF Accepts
  <2>4. n # 28 /\ StageAt(n + 1) = "greeted" /\ Effect("ATAT").to = "greeted"
    <3>1. n # 28 /\ n + 1 = 2 /\ StageAt(2) = "greeted"
      BY <1>1 DEF StageAt
    <3> QED BY <3>1, EffectOf
  <2> QED BY <2>1, <2>3, <2>4, Zenon
<1>2. CASE n = 5
  <2>1. Booting[n].item = "PSI crc"
    <3>1. Booting[5] = Post("PSI crc")
      BY Listed
    <3> QED BY <1>2, <3>1, Fields, Zenon
  <2>2. stage = "greeted" /\ image = ImageSize
    BY <1>2 DEF StageAt
  <2>3. Accepts("PSI crc")
    BY <2>2 DEF Accepts
  <2>4. n # 28 /\ StageAt(n + 1) = "PSI" /\ Effect("PSI crc").to = "PSI"
    <3>1. n # 28 /\ n + 1 = 6 /\ StageAt(6) = "PSI"
      BY <1>2 DEF StageAt
    <3> QED BY <3>1, EffectOf
  <2> QED BY <2>1, <2>3, <2>4, Zenon
<1>3. CASE n = 10
  <2>1. Booting[n].item = "EBL length"
    <3>1. Booting[10] = Post("EBL length")
      BY Listed
    <3> QED BY <1>3, <3>1, Fields, Zenon
  <2>2. stage = "PSI"
    BY <1>3 DEF StageAt
  <2>3. Accepts("EBL length")
    BY <2>2 DEF Accepts
  <2>4. n # 28 /\ StageAt(n + 1) = "EBL wanted" /\ Effect("EBL length").to = "EBL wanted"
    <3>1. n # 28 /\ n + 1 = 11 /\ StageAt(11) = "EBL wanted"
      BY <1>3 DEF StageAt
    <3> QED BY <3>1, EffectOf
  <2> QED BY <2>1, <2>3, <2>4, Zenon
<1>4. CASE n = 13
  <2>1. Booting[n].item = "EBL crc"
    <3>1. Booting[13] = Post("EBL crc")
      BY Listed
    <3> QED BY <1>4, <3>1, Fields, Zenon
  <2>2. stage = "EBL wanted" /\ image = ImageSize
    <3>1. image = ImageSize
      BY <1>4
    <3> QED BY <1>4, <3>1, LoaderStages
  <2>3. Accepts("EBL crc")
    BY <2>2 DEF Accepts
  <2>4. n # 28 /\ StageAt(n + 1) = "EBL" /\ Effect("EBL crc").to = "EBL"
    <3>1. n # 28 /\ n + 1 = 14
      BY <1>4
    <3> QED BY <3>1, LoaderStages, EffectOf
  <2> QED BY <2>1, <2>3, <2>4, Zenon
<1>5. CASE n = 16
  <2>1. Booting[n].item = "SetPortConf"
    <3>1. Booting[16] = Post("SetPortConf")
      BY Listed
    <3> QED BY <1>5, <3>1, Fields, Zenon
  <2>2. stage = "EBL"
    BY <1>5 DEF StageAt
  <2>3. Accepts("SetPortConf")
    BY <2>2 DEF Accepts
  <2>4. n # 28 /\ StageAt(n + 1) = "configured" /\ Effect("SetPortConf").to = "configured"
    <3>1. n # 28 /\ n + 1 = 17 /\ StageAt(17) = "configured"
      BY <1>5 DEF StageAt
    <3> QED BY <3>1, EffectOf
  <2> QED BY <2>1, <2>3, <2>4, Zenon
<1>6. CASE n = 18
  <2>1. Booting[n].item = "SecStart"
    <3>1. Booting[18] = Post("SecStart")
      BY Listed
    <3> QED BY <1>6, <3>1, Fields, Zenon
  <2>2. stage = "configured"
    BY <1>6 DEF StageAt
  <2>3. Accepts("SecStart")
    BY <2>2 DEF Accepts
  <2>4. n # 28 /\ StageAt(n + 1) = "secure" /\ Effect("SecStart").to = "secure"
    <3>1. n # 28 /\ n + 1 = 19 /\ StageAt(19) = "secure"
      BY <1>6 DEF StageAt
    <3> QED BY <3>1, EffectOf
  <2> QED BY <2>1, <2>3, <2>4, Zenon
<1>7. CASE n = 20
  <2>1. Booting[n].item = "SetAddress firmware"
    <3>1. Booting[20] = Post("SetAddress firmware")
      BY Listed
    <3> QED BY <1>7, <3>1, Fields, Zenon
  <2>2. stage = "secure"
    BY <1>7 DEF StageAt
  <2>3. Accepts("SetAddress firmware")
    BY <2>2 DEF Accepts
  <2>4. n # 28 /\ StageAt(n + 1) = "firmware" /\ Effect("SetAddress firmware").to = "firmware"
    <3>1. n # 28 /\ n + 1 = 21 /\ StageAt(21) = "firmware"
      BY <1>7 DEF StageAt
    <3> QED BY <3>1, EffectOf
  <2> QED BY <2>1, <2>3, <2>4, Zenon
<1>8. CASE n = 23
  <2>1. Booting[n].item = "SetAddress nvdata"
    <3>1. Booting[23] = Post("SetAddress nvdata")
      BY Listed
    <3> QED BY <1>8, <3>1, Fields, Zenon
  <2>2. stage = "firmware"
    BY <1>8 DEF StageAt
  <2>3. Accepts("SetAddress nvdata")
    BY <2>2 DEF Accepts
  <2>4. n # 28 /\ StageAt(n + 1) = "nvdata" /\ Effect("SetAddress nvdata").to = "nvdata"
    <3>1. n # 28 /\ n + 1 = 24 /\ StageAt(24) = "nvdata"
      BY <1>8 DEF StageAt
    <3> QED BY <3>1, EffectOf
  <2> QED BY <2>1, <2>3, <2>4, Zenon
<1>9. CASE n = 26
  <2>1. Booting[n].item = "SecEnd"
    <3>1. Booting[26] = Post("SecEnd")
      BY Listed
    <3> QED BY <1>9, <3>1, Fields, Zenon
  <2>2. stage = "nvdata"
    BY <1>9 DEF StageAt
  <2>3. Accepts("SecEnd")
    BY <2>2 DEF Accepts
  <2>4. n # 28 /\ StageAt(n + 1) = "loaded" /\ Effect("SecEnd").to = "loaded"
    <3>1. n # 28 /\ n + 1 = 27 /\ StageAt(27) = "loaded"
      BY <1>9 DEF StageAt
    <3> QED BY <3>1, EffectOf
  <2> QED BY <2>1, <2>3, <2>4, Zenon
<1>10. CASE n = 28
  <2>1. Booting[n].item = "ForceHwReset"
    <3>1. Booting[28] = Post("ForceHwReset")
      BY Listed
    <3> QED BY <1>10, <3>1, Fields, Zenon
  <2>2. stage = "loaded"
    BY <1>10 DEF StageAt
  <2>3. Accepts("ForceHwReset")
    BY <2>2 DEF Accepts
  <2>4. n = 28 /\ Effect("ForceHwReset").to = "reset"
    BY <1>10, EffectOf
  <2> QED BY <2>1, <2>3, <2>4, Zenon
<1> QED BY <1>1, <1>2, <1>3, <1>4, <1>5, <1>6, <1>7, <1>8, <1>9, <1>10 DEF Posts

-----------------------------------------------------------------------------
(* The invariant in two halves: what it says of the host alone, which no   *)
(* step of the modem touches, and what it says of the modem.               *)

HostTypes ==
    /\ call \in {"none", "boot", "dump"} /\ phase \in Phases /\ step \in Nat \ {0}
    /\ offset \in 0 .. ImageSize + Blocks /\ tries \in 0 .. LinkTries + WakeTries
    /\ phase = "script" => step \in DOMAIN Script(call)
    /\ socket \in {"none", "open", "closed"}
    /\ bootSocket \in {"null", "live", "dangling"}
    /\ link \in BOOLEAN
    /\ calls \in 0 .. MaxCalls
    /\ result \in {"none", "true", "false"}
    /\ report \in {"none", "dumped", "failed"}

ModemTypes ==
    /\ stage \in Stages /\ image \in Nat /\ flash \in [Areas -> Nat]
    /\ awake \in BOOLEAN /\ connected \in BOOLEAN

HostInv == HostTypes /\ OffsetInv /\ LinkInv /\ SocketInv /\ BootSocketValid
ModemInv == ModemTypes /\ InStep /\ Complete /\ BootedOnlyIfComplete

LEMMA Halves == Inv <=> HostInv /\ ModemInv
BY Zenon DEF Inv, Types, TypeOK, HostTypes, ModemTypes, HostInv, ModemInv

LEMMA HalvesNext == Inv' <=> HostInv' /\ ModemInv'
BY Halves, PTL

\* Where the script is.
LEMMA InScript ==
    ASSUME HostInv, phase = "script"
    PROVE  /\ call \in {"boot", "dump"} /\ calls > 0 /\ link
           /\ call = "boot" => /\ step \in 1 .. 28 /\ Len(Script(call)) = 28
                               /\ Exchange = Booting[step]
           /\ call = "dump" => step \in 1 .. 13 /\ Len(Script(call)) = 13
<1>1. call \in {"boot", "dump"} /\ calls > 0 /\ link
  BY DEF HostInv, LinkInv
<1>2. step \in DOMAIN Script(call)
  BY DEF HostInv, HostTypes
<1>3. ASSUME call = "boot"
      PROVE  step \in 1 .. 28 /\ Len(Script(call)) = 28 /\ Exchange = Booting[step]
  <2>1. Script("boot") \in Seq(Exchanges) /\ Len(Script("boot")) = 28
    BY BootScriptIs
  <2>2. step \in 1 .. 28
    BY <1>2, <1>3, <2>1
  <2> QED BY <1>3, <2>1, <2>2, Zenon DEF Exchange, Booting
<1>4. ASSUME call = "dump"
      PROVE  step \in 1 .. 13 /\ Len(Script(call)) = 13
  <2>1. Script("dump") \in Seq(Exchanges) /\ Len(Script("dump")) = 13
    BY DumpScriptIs
  <2> QED BY <1>2, <1>4, <2>1
<1> QED BY <1>1, <1>3, <1>4

LEMMA ScriptDomain ==
    ASSUME NEW c \in {"boot", "dump"}
    PROVE  DOMAIN Script(c) = 1 .. Len(Script(c)) /\ Len(Script(c)) \in Nat \ {0}
<1>1. Script(c) \in Seq(Exchanges) /\ (Len(Script(c)) = 28 \/ Len(Script(c)) = 13)
  BY BootScriptIs, DumpScriptIs
<1>2. DOMAIN Script(c) = 1 .. Len(Script(c))
  BY <1>1, LenProperties, Zenon
<1> QED BY <1>1, <1>2

-----------------------------------------------------------------------------
(* The host's half.                                                        *)

LEMMA AdvanceHost ==
    ASSUME HostInv, phase = "script", Exchange.op # "upload", Advance,
           UNCHANGED << bootSocket, link, calls, result, report >>
    PROVE  /\ HostInv' /\ call' = call /\ phase' \in {"script", "wakeUp"}
           /\ phase' = "script" => step' = step + 1 /\ offset' = 0
           /\ call = "boot" => (phase' = "script" <=> step < 28)
<1>1. call \in {"boot", "dump"} /\ calls > 0 /\ link
  BY InScript
<1>2. DOMAIN Script(call) = 1 .. Len(Script(call)) /\ Len(Script(call)) \in Nat
  BY <1>1, ScriptDomain
<1>3. step \in 1 .. Len(Script(call))
  BY <1>2 DEF HostInv, HostTypes
<1>4. /\ call = "boot" => Len(Script(call)) = 28
      /\ call = "dump" => step < Len(Script(call))
  <2>1. call = "boot" => Len(Script(call)) = 28
    BY InScript
  <2>2. ASSUME call = "dump"
        PROVE  step < Len(Script(call))
    <3>1. Upload.op = "upload"
      BY DEF Upload
    <3>2. step = 13 => Exchange = Upload
      BY <2>2, DumpScriptIs DEF Exchange
    <3>3. step # 13
      BY <3>1, <3>2
    <3>4. step \in 1 .. 13 /\ Len(Script(call)) = 13
      BY <2>2, InScript
    <3> QED BY <3>3, <3>4
  <2> QED BY <2>1, <2>2
<1> DEFINE len == Len(Script(call))
<1>5. /\ call' = call
      /\ \/ step < len /\ step' = step + 1 /\ offset' = 0 /\ phase' = phase /\ tries' = tries
            /\ socket' = socket
         \/ ~(step < len) /\ phase' = "wakeUp" /\ tries' = WakeTries /\ socket' = "closed"
            /\ step' = step /\ offset' = offset
  BY DEF Advance, Turn
<1>6. socket # "none" /\ bootSocket = "live"
  BY DEF HostInv, SocketInv, BootSocketValid
<1>7. DOMAIN Script(call)' = 1 .. len
  BY <1>2, <1>5
<1> HIDE DEF len
<1>8. phase' = "script" => step' = step + 1 /\ step' \in 1 .. len /\ offset' = 0
  BY <1>2, <1>3, <1>5 DEF len
<1>9. HostTypes'
  <2>1. link' \in BOOLEAN
    BY Zenon DEF HostInv, HostTypes
  <2>2. /\ bootSocket' \in {"null", "live", "dangling"} /\ calls' \in 0 .. MaxCalls
        /\ result' \in {"none", "true", "false"} /\ report' \in {"none", "dumped", "failed"}
    BY DEF HostInv, HostTypes
  <2>3. /\ call' \in {"none", "boot", "dump"} /\ phase' \in Phases
        /\ socket' \in {"none", "open", "closed"}
    BY <1>5 DEF HostInv, HostTypes, Phases
  <2>4. /\ step' \in Nat \ {0} /\ offset' \in 0 .. ImageSize + Blocks
        /\ tries' \in 0 .. LinkTries + WakeTries
    BY <1>5, ConstantsAssumption DEF HostInv, HostTypes
  <2>5. (phase = "script" => step \in DOMAIN Script(call))'
    BY <1>7, <1>8
  <2> QED BY <2>1, <2>2, <2>3, <2>4, <2>5 DEF HostTypes
<1>10. OffsetInv' /\ LinkInv'
  BY <1>1, <1>4, <1>5, <1>8, ConstantsAssumption DEF OffsetInv, LinkInv, len
<1>11. SocketInv' /\ BootSocketValid'
  BY <1>5, <1>6 DEF SocketInv, BootSocketValid
<1> QED BY <1>3, <1>4, <1>5, <1>9, <1>10, <1>11 DEF HostInv, len

LEMMA ProceedHost ==
    ASSUME HostInv, phase = "script", NEW n \in Nat, Proceed(n),
           UNCHANGED << bootSocket, link, calls, result, report >>,
           offset + n <= ImageSize + Blocks,
           call = "boot" /\ step \in {22, 25} => offset + n < Blocks
    PROVE  HostInv'
<1>1. /\ call' = call /\ phase' = phase /\ step' = step /\ tries' = tries /\ socket' = socket
      /\ offset' = offset + n
  BY DEF Proceed
<1>2. HostTypes'
  <2>1. link' \in BOOLEAN
    BY Zenon DEF HostInv, HostTypes
  <2>2. offset' \in 0 .. ImageSize + Blocks
    BY <1>1 DEF HostInv, HostTypes
  <2> QED BY <1>1, <2>1, <2>2 DEF HostInv, HostTypes
<1>3. OffsetInv' /\ LinkInv'
  BY <1>1 DEF HostInv, OffsetInv, LinkInv
<1>4. SocketInv' /\ BootSocketValid'
  BY <1>1 DEF HostInv, SocketInv, BootSocketValid
<1> QED BY <1>2, <1>3, <1>4 DEF HostInv

LEMMA ReturnHost ==
    ASSUME HostInv, phase \notin {"idle", "returned"}, NEW value \in {"true", "false"},
           Return(value), link' = TRUE, UNCHANGED << calls, report >>
    PROVE  HostInv'
<1>1. /\ call' = call /\ phase' = "returned" /\ step' = step /\ offset' = offset
      /\ tries' = tries /\ socket' = "none" /\ result' = value
      /\ bootSocket' = IF bootSocket = "live" THEN "null" ELSE bootSocket
  BY DEF Return, DestroySocket
<1>2. bootSocket = "live" /\ calls > 0 /\ call \in {"boot", "dump"}
  BY DEF HostInv, SocketInv, BootSocketValid, LinkInv
<1>3. HostTypes'
  BY <1>1, <1>2 DEF HostInv, HostTypes, Phases
<1>4. OffsetInv' /\ LinkInv'
  BY <1>1, <1>2 DEF OffsetInv, LinkInv
<1>5. SocketInv' /\ BootSocketValid'
  BY <1>1, <1>2 DEF SocketInv, BootSocketValid
<1> QED BY <1>3, <1>4, <1>5 DEF HostInv

LEMMA TurnHost ==
    ASSUME HostInv, phase \notin {"idle", "returned", "script"},
           NEW to \in Phases \ {"idle", "returned"}, NEW left \in 0 .. LinkTries + WakeTries,
           Turn(to, left), UNCHANGED << socketVars, calls, report >>,
           to = "connect" => phase = "connect", to = "script" => phase = "connect",
           to \in {"wakeUp", "wakeDown", "relink"} => call = "boot",
           to = "wakeDown" \/ link' = TRUE, link' \in BOOLEAN
    PROVE  HostInv'
<1>1. /\ call' = call /\ phase' = to /\ step' = step /\ offset' = offset /\ tries' = left
      /\ socket' = socket /\ bootSocket' = bootSocket /\ result' = result
  BY DEF Turn, socketVars
<1>2. bootSocket = "live" /\ socket # "none" /\ calls > 0 /\ call \in {"boot", "dump"}
  BY DEF HostInv, SocketInv, BootSocketValid, LinkInv
<1>3. phase = "connect" => step = 1 /\ offset = 0
  BY DEF HostInv, OffsetInv
<1>4. (phase = "script" => step \in DOMAIN Script(call))'
  <2>1. phase' = "script" => step' \in DOMAIN Script(call)
    BY <1>1, <1>2, <1>3, ScriptDomain
  <2> QED BY <1>1, <2>1
<1>5. HostTypes'
  <2>1. /\ bootSocket' \in {"null", "live", "dangling"} /\ calls' \in 0 .. MaxCalls
        /\ result' \in {"none", "true", "false"} /\ report' \in {"none", "dumped", "failed"}
        /\ call' \in {"none", "boot", "dump"} /\ phase' \in Phases
        /\ socket' \in {"none", "open", "closed"}
    BY <1>1 DEF HostInv, HostTypes
  <2>2. /\ step' \in Nat \ {0} /\ offset' \in 0 .. ImageSize + Blocks
        /\ tries' \in 0 .. LinkTries + WakeTries
    BY <1>1 DEF HostInv, HostTypes
  <2> QED BY <1>4, <2>1, <2>2 DEF HostTypes
<1>6. OffsetInv' /\ LinkInv'
  BY <1>1, <1>2, <1>3 DEF OffsetInv, LinkInv
<1>7. SocketInv' /\ BootSocketValid'
  BY <1>1, <1>2 DEF SocketInv, BootSocketValid
<1> QED BY <1>5, <1>6, <1>7 DEF HostInv

LEMMA HostUnchanged ==
    ASSUME HostInv, UNCHANGED hostVars
    PROVE  HostInv'
BY DEF HostInv, HostTypes, OffsetInv, LinkInv, SocketInv, BootSocketValid, hostVars, callVars,
       socketVars
-----------------------------------------------------------------------------
(* Steps of the modem.                                                     *)

LEMMA SpeakStep == ASSUME Inv, Speak PROVE Inv'
<1>1. HostInv'
  BY Halves, HostUnchanged DEF Speak
<1>2. UNCHANGED << call, phase, step, offset, result, link, stage, image, flash, awake,
                   connected >>
  BY DEF Speak, hostVars, callVars, socketVars
<1>3. ModemInv'
  BY <1>2, Halves
    DEF ModemInv, ModemTypes, InStep, Complete, BootedOnlyIfComplete, Loaded, Written,
        AllWritten
<1> QED BY <1>1, <1>3, HalvesNext

LEMMA LinkConnectsStep == ASSUME Inv, LinkConnects PROVE Inv'
<1>1. HostInv'
  BY Halves, HostUnchanged DEF LinkConnects
<1>2. /\ UNCHANGED << call, phase, step, offset, result, link, stage, image, flash, awake >>
      /\ connected' = TRUE
  BY DEF LinkConnects, hostVars, callVars, socketVars
<1>3. ModemInv'
  BY <1>2, Halves
    DEF ModemInv, ModemTypes, InStep, Complete, BootedOnlyIfComplete, Loaded, Written,
        AllWritten
<1> QED BY <1>1, <1>3, HalvesNext

\* Only after the script can a modem be waiting to restart.
LEMMA RestartStep == ASSUME Inv, Restart PROVE Inv'
<1>1. HostInv'
  BY Halves, HostUnchanged DEF Restart
<1>2. /\ UNCHANGED << call, phase, step, offset, result, link, image, flash, connected >>
      /\ stage = "reset" /\ stage' = "running"
  BY DEF Restart, hostVars, callVars, socketVars
<1>3. ~(call = "boot" /\ phase \in {"connect", "script"})
  <2> SUFFICES ASSUME call = "boot", phase \in {"connect", "script"} PROVE FALSE
    OBVIOUS
  <2>1. step \in 1 .. 28
    BY Halves, InScript DEF Inv, OffsetInv
  <2>2. StageAt(step) = "reset"
    BY <1>2 DEF Inv, InStep
  <2> QED BY <2>1, <2>2, StageAtKept
<1>4. InStep' /\ BootedOnlyIfComplete' /\ Complete'
  BY <1>2, <1>3, Halves DEF ModemInv, InStep, Complete, BootedOnlyIfComplete, AllWritten
<1>5. ModemTypes'
  <2>1. awake' \in BOOLEAN /\ connected' \in BOOLEAN
    BY <1>2, Halves, Zenon DEF Restart, ModemInv, ModemTypes
  <2> QED BY <1>2, <2>1, Halves DEF ModemInv, ModemTypes, Stages
<1> QED BY <1>1, <1>4, <1>5, HalvesNext DEF ModemInv

LEMMA WakeLineFallsStep == ASSUME Inv, WakeLineFalls PROVE Inv'
<1>1. HostInv'
  BY Halves, HostUnchanged DEF WakeLineFalls
<1>2. /\ UNCHANGED << call, phase, step, offset, result, link, stage, image, flash, connected >>
      /\ awake' = FALSE
  BY DEF WakeLineFalls, hostVars, callVars, socketVars
<1>3. ModemInv'
  BY <1>2, Halves
    DEF ModemInv, ModemTypes, InStep, Complete, BootedOnlyIfComplete, Loaded, Written,
        AllWritten
<1> QED BY <1>1, <1>3, HalvesNext

LEMMA DieStep == ASSUME Inv, Die PROVE Inv'
<1>1. HostInv'
  BY Halves, HostUnchanged DEF Die
<1>2. /\ UNCHANGED << call, phase, step, offset, result, link, connected >>
      /\ stage # "running" /\ stage' = "dead" /\ image' = 0 /\ flash' = [a \in Areas |-> 0]
      /\ awake' = FALSE
  BY DEF Die, Reset, hostVars, callVars, socketVars
<1>3. InStep' /\ BootedOnlyIfComplete' /\ Complete'
  BY <1>2, Halves DEF ModemInv, InStep, Complete, BootedOnlyIfComplete
<1>4. ModemTypes'
  BY <1>2, Halves DEF ModemInv, ModemTypes, Stages
<1> QED BY <1>1, <1>3, <1>4, HalvesNext DEF ModemInv

-----------------------------------------------------------------------------
(* Steps of the host that the modem does not see.                          *)

LEMMA BeginStep == ASSUME Inv, NEW c \in {"boot", "dump"}, Begin(c) PROVE Inv'
<1>1. /\ call' = c /\ phase' = "connect" /\ step' = 1 /\ offset' = 0 /\ tries' = LinkTries
      /\ socket' = "open" /\ bootSocket' = IF bootSocket = "null" THEN "live" ELSE bootSocket
      /\ link' = TRUE /\ calls < MaxCalls /\ calls' = calls + 1 /\ result' = "none"
      /\ report' = "none" /\ phase = "idle"
      /\ stage' = "rom" /\ image' = 0 /\ flash' = [a \in Areas |-> 0] /\ awake' = FALSE
      /\ connected' = FALSE
  BY DEF Begin, Reset
<1>2. bootSocket = "null"
  BY <1>1 DEF Inv, Types, TypeOK, SocketInv, BootSocketValid
<1>3. calls' \in 0 .. MaxCalls /\ calls' > 0
  BY <1>1, ConstantsAssumption DEF Inv, Types, TypeOK
<1>4. HostTypes'
  BY <1>1, <1>2, <1>3, ConstantsAssumption DEF HostTypes, Phases
<1>5. OffsetInv' /\ LinkInv' /\ SocketInv' /\ BootSocketValid'
  BY <1>1, <1>2, <1>3 DEF OffsetInv, LinkInv, SocketInv, BootSocketValid
<1>6. ModemTypes'
  BY <1>1 DEF ModemTypes, Stages
<1>7. InStep' /\ Complete' /\ BootedOnlyIfComplete'
  <2>1. StageAt(1) = "rom"
    BY DEF StageAt
  <2>2. Loaded' = 0 /\ Written(22)' = 0 /\ Written(25)' = 0
    BY <1>1 DEF Loaded, Written
  <2>3. StageAt(step)' = StageAt(1)
    BY <1>1 DEF StageAt
  <2> QED BY <1>1, <2>1, <2>2, <2>3 DEF InStep, Complete, BootedOnlyIfComplete, Areas
<1> QED BY <1>4, <1>5, <1>6, <1>7, HalvesNext DEF HostInv, ModemInv

\* A return that does not claim a boot.
LEMMA ReturnModem ==
    ASSUME ModemInv, NEW value \in {"true", "false"}, Return(value),
           value = "false" \/ call = "dump", UNCHANGED modemVars
    PROVE  ModemInv'
<1>1. /\ phase' = "returned" /\ call' = call /\ result' = value
      /\ UNCHANGED << stage, image, flash, awake, connected >>
  BY DEF Return, modemVars
<1>2. InStep' /\ Complete' /\ BootedOnlyIfComplete'
  BY <1>1 DEF ModemInv, InStep, Complete, BootedOnlyIfComplete
<1>3. ModemTypes'
  BY <1>1 DEF ModemInv, ModemTypes
<1> QED BY <1>2, <1>3 DEF ModemInv

\* A turn within connect(), or from it to the script.
LEMMA TurnModem ==
    ASSUME ModemInv, NEW to, NEW left, Turn(to, left), phase \in {"connect", "relink"},
           to = phase \/ (phase = "connect" /\ to = "script"), UNCHANGED modemVars
    PROVE  ModemInv'
<1>1. /\ phase' = to /\ UNCHANGED << call, step, offset, stage, image, flash, awake,
                                     connected >>
  BY DEF Turn, modemVars
<1>2. /\ phase' = phase \/ (phase = "connect" /\ phase' = "script")
      /\ phase \in {"connect", "relink"}
  BY <1>1
<1>3. InStep' /\ Complete' /\ BootedOnlyIfComplete'
  BY <1>1, <1>2
  DEF ModemInv, InStep, Complete, BootedOnlyIfComplete, Loaded, Written, AllWritten
<1>4. ModemTypes'
  BY <1>1 DEF ModemInv, ModemTypes
<1> QED BY <1>3, <1>4 DEF ModemInv

LEMMA PollLinkStep == ASSUME Inv, PollLink PROVE Inv'
<1>1. /\ phase \in {"connect", "relink"} /\ UNCHANGED << link, calls, report >>
      /\ UNCHANGED modemVars
  BY DEF PollLink
<1>2. link' = TRUE /\ link' \in BOOLEAN
  BY <1>1, Zenon DEF Inv, LinkInv
<1>3. /\ HostInv /\ ModemInv /\ tries \in 0 .. LinkTries + WakeTries
      /\ phase = "relink" => call = "boot"
  BY Halves DEF HostInv, HostTypes, LinkInv
<1>4. CASE connected /\ phase = "connect" /\ Turn("script", tries) /\ UNCHANGED socketVars
  <2>1. HostInv'
    BY <1>1, <1>2, <1>3, <1>4, TurnHost DEF Phases
  <2>2. ModemInv'
    BY <1>1, <1>3, <1>4, TurnModem
  <2> QED BY <2>1, <2>2, HalvesNext
<1>5. CASE connected /\ phase = "relink" /\ Return("true")
  <2>1. HostInv'
    BY <1>1, <1>2, <1>3, <1>5, ReturnHost
  <2>2. /\ phase' = "returned" /\ call' = call
        /\ UNCHANGED << stage, image, flash, awake, connected >>
    BY <1>1, <1>5 DEF Return, modemVars
  <2>3. InStep' /\ Complete' /\ BootedOnlyIfComplete'
    BY <1>2, <1>3, <1>5, <2>2
    DEF ModemInv, InStep, Complete, BootedOnlyIfComplete, AllWritten
  <2>4. ModemTypes'
    BY <1>3, <2>2 DEF ModemInv, ModemTypes
  <2> QED BY <2>1, <2>3, <2>4, HalvesNext DEF ModemInv
<1>6. CASE ~connected /\ tries > 1 /\ Turn(phase, tries - 1) /\ UNCHANGED socketVars
  <2>1. tries - 1 \in 0 .. LinkTries + WakeTries
    BY <1>3, <1>6, ConstantsAssumption
  <2>2. HostInv'
    BY <1>1, <1>2, <1>3, <1>6, <2>1, TurnHost DEF Phases
  <2>3. ModemInv'
    BY <1>1, <1>3, <1>6, TurnModem
  <2> QED BY <2>2, <2>3, HalvesNext
<1>7. CASE ~connected /\ tries = 1 /\ call = "boot" /\ Return("false")
  <2>1. HostInv'
    BY <1>1, <1>2, <1>3, <1>7, ReturnHost
  <2>2. ModemInv'
    BY <1>1, <1>3, <1>7, ReturnModem
  <2> QED BY <2>1, <2>2, HalvesNext
<1>8. CASE ~connected /\ tries = 1 /\ call = "dump" /\ Turn("script", tries)
           /\ UNCHANGED socketVars
  <2>1. phase = "connect"
    BY <1>1, <1>8 DEF Inv, LinkInv
  <2>2. HostInv'
    BY <1>1, <1>2, <1>3, <1>8, <2>1, TurnHost DEF Phases
  <2>3. ModemInv'
    BY <1>1, <1>3, <1>8, <2>1, TurnModem
  <2> QED BY <2>2, <2>3, HalvesNext
<1> QED BY <1>4, <1>5, <1>6, <1>7, <1>8 DEF PollLink
LEMMA PollWakeStep == ASSUME Inv, PollWake PROVE Inv'
<1>1. /\ phase \in {"wakeUp", "wakeDown"} /\ UNCHANGED << calls, report >>
      /\ UNCHANGED << stage, image, flash, awake >>
  BY DEF PollWake
<1>2. HostInv /\ ModemInv /\ tries \in 0 .. LinkTries + WakeTries /\ call = "boot"
  BY <1>1, Halves DEF HostInv, HostTypes, LinkInv
<1>3. ASSUME phase = "wakeUp", awake, Turn("wakeDown", WakeTries), link' = FALSE,
             connected' = FALSE, UNCHANGED socketVars
      PROVE  Inv'
  <2>1. link' \in BOOLEAN
    BY <1>3, Zenon
  <2>2. WakeTries \in 0 .. LinkTries + WakeTries
    BY ConstantsAssumption
  <2>3. HostInv'
    BY <1>1, <1>2, <1>3, <2>1, <2>2, TurnHost DEF Phases
  <2>4. phase' = "wakeDown" /\ call' = call
    BY <1>3 DEF Turn
  <2>5. InStep' /\ Complete' /\ BootedOnlyIfComplete'
    BY <1>1, <1>2, <1>3, <2>4 DEF ModemInv, InStep, Complete, BootedOnlyIfComplete, AllWritten
  <2>6. ModemTypes'
    BY <1>1, <1>2, <1>3 DEF ModemInv, ModemTypes
  <2> QED BY <2>3, <2>5, <2>6, HalvesNext DEF ModemInv
<1>4. ASSUME phase = "wakeDown", Turn("relink", LinkTries), link' = TRUE,
             UNCHANGED << socketVars, connected >>
      PROVE  Inv'
  <2>1. link' \in BOOLEAN
    BY <1>4, Zenon
  <2>2. LinkTries \in 0 .. LinkTries + WakeTries
    BY ConstantsAssumption
  <2>3. HostInv'
    BY <1>1, <1>2, <1>4, <2>1, <2>2, TurnHost DEF Phases
  <2>4. phase' = "relink" /\ call' = call
    BY <1>4 DEF Turn
  <2>5. InStep' /\ Complete' /\ BootedOnlyIfComplete'
    BY <1>1, <1>2, <1>4, <2>4 DEF ModemInv, InStep, Complete, BootedOnlyIfComplete, AllWritten
  <2>6. ModemTypes'
    BY <1>1, <1>2, <1>4 DEF ModemInv, ModemTypes
  <2> QED BY <2>3, <2>5, <2>6, HalvesNext DEF ModemInv
<1>5. ASSUME tries > 1, Turn(phase, tries - 1), UNCHANGED << socketVars, link, connected >>
      PROVE  Inv'
  <2>1. link' \in BOOLEAN
    BY <1>2, <1>5, Zenon DEF HostInv, HostTypes
  <2>2. tries - 1 \in 0 .. LinkTries + WakeTries
    BY <1>2, <1>5, ConstantsAssumption
  <2>3. phase = "wakeDown" \/ link' = TRUE
    BY <1>1, <1>2, <1>5 DEF HostInv, HostTypes, LinkInv
  <2>4. HostInv'
    BY <1>1, <1>2, <1>5, <2>1, <2>2, <2>3, TurnHost DEF Phases
  <2>5. phase' = phase /\ call' = call
    BY <1>5 DEF Turn
  <2>6. InStep' /\ Complete' /\ BootedOnlyIfComplete'
    BY <1>1, <1>2, <1>5, <2>5 DEF ModemInv, InStep, Complete, BootedOnlyIfComplete, AllWritten
  <2>7. ModemTypes'
    BY <1>1, <1>2, <1>5 DEF ModemInv, ModemTypes
  <2> QED BY <2>4, <2>6, <2>7, HalvesNext DEF ModemInv
<1>6. ASSUME link' = TRUE, Return("false"), UNCHANGED connected
      PROVE  Inv'
  <2>1. HostInv'
    BY <1>1, <1>2, <1>6, ReturnHost
  <2>2. phase' = "returned" /\ call' = call /\ result' = "false"
    BY <1>6 DEF Return
  <2>3. InStep' /\ Complete' /\ BootedOnlyIfComplete'
    BY <1>1, <1>2, <1>6, <2>2 DEF ModemInv, InStep, Complete, BootedOnlyIfComplete
  <2>4. ModemTypes'
    BY <1>1, <1>2, <1>6 DEF ModemInv, ModemTypes
  <2> QED BY <2>1, <2>3, <2>4, HalvesNext DEF ModemInv
<1>7. \/ /\ phase = "wakeUp" /\ awake /\ Turn("wakeDown", WakeTries) /\ link' = FALSE
         /\ connected' = FALSE /\ UNCHANGED socketVars
      \/ /\ phase = "wakeDown" /\ Turn("relink", LinkTries) /\ link' = TRUE
         /\ UNCHANGED << socketVars, connected >>
      \/ /\ tries > 1 /\ Turn(phase, tries - 1) /\ UNCHANGED << socketVars, link, connected >>
      \/ /\ link' = IF phase = "wakeUp" THEN link ELSE LinkAfterFailedWakeDown
         /\ Return("false") /\ UNCHANGED connected
  BY <1>1, Zenon DEF PollWake
<1>8. ASSUME link' = IF phase = "wakeUp" THEN link ELSE LinkAfterFailedWakeDown
      PROVE  link' = TRUE
  <2>1. CASE phase = "wakeUp"
    <3>1. link
      BY <1>2, <2>1 DEF HostInv, LinkInv
    <3>2. link \in BOOLEAN
      BY <1>2, Zenon DEF HostInv, HostTypes
    <3> QED BY <1>8, <2>1, <3>1, <3>2, Zenon
  <2>2. CASE phase # "wakeUp"
    BY <1>8, <2>2, Zenon DEF LinkAfterFailedWakeDown
  <2> QED BY <2>1, <2>2
<1> QED BY <1>3, <1>4, <1>5, <1>6, <1>7, <1>8

LEMMA CallerContinuesStep == ASSUME Inv, CallerContinues PROVE Inv'
<1>1. /\ phase = "returned" /\ call' = "none" /\ phase' = "idle" /\ step' = 1 /\ offset' = 0
      /\ tries' = 0
      /\ UNCHANGED << socket, bootSocket, result, link, calls, stage, image, flash, awake,
                      connected >>
  BY DEF CallerContinues, socketVars, modemVars
<1>2. HostInv /\ ModemInv
  BY Halves
<1>3. HostTypes'
  <2>1. report' \in {"none", "dumped", "failed"}
    BY <1>2 DEF CallerContinues, HostInv, HostTypes
  <2>2. link' \in BOOLEAN
    BY <1>1, <1>2, Zenon DEF HostInv, HostTypes
  <2> QED BY <1>1, <1>2, <2>1, <2>2, ConstantsAssumption DEF HostInv, HostTypes, Phases
<1>4. OffsetInv' /\ LinkInv' /\ SocketInv' /\ BootSocketValid'
  BY <1>1, <1>2 DEF HostInv, OffsetInv, LinkInv, SocketInv, BootSocketValid
<1>5. InStep' /\ Complete' /\ BootedOnlyIfComplete'
  BY <1>1, <1>2 DEF ModemInv, InStep, Complete, BootedOnlyIfComplete
<1>6. ModemTypes'
  BY <1>1, <1>2 DEF ModemInv, ModemTypes
<1> QED BY <1>3, <1>4, <1>5, <1>6, HalvesNext DEF HostInv, ModemInv

-----------------------------------------------------------------------------
(* Steps of the script.                                                    *)

\* Going on from an exchange that is not the n-th writes no block of its area.
LEMMA WrittenKept ==
    ASSUME NEW n \in Nat, step \in Nat, step # n, step' = step + 1, offset' = 0
    PROVE  Written(n)' = Written(n)
<1>1. CASE step < n
  <2>1. Written(n) = 0 /\ Written(n)' = 0
    BY <1>1 DEF Written
  <2> QED BY <2>1
<1>2. CASE step > n
  <2>1. Written(n) = Blocks /\ Written(n)' = Blocks
    BY <1>2 DEF Written
  <2> QED BY <2>1
<1> QED BY <1>1, <1>2

LEMMA ReceiveStep == ASSUME Inv, Receive PROVE Inv'
<1>1. /\ phase = "script" /\ Exchange.op = "hear"
      /\ UNCHANGED << link, calls, report >> /\ UNCHANGED modemVars
      /\ \/ Advance /\ UNCHANGED << bootSocket, result >>
         \/ Return("false")
  BY DEF Receive
<1>2. HostInv /\ ModemInv
  BY Halves
<1>3. CASE Advance /\ UNCHANGED << bootSocket, result >>
  <2>1. /\ HostInv' /\ call' = call /\ phase' \in {"script", "wakeUp"}
        /\ phase' = "script" => step' = step + 1 /\ offset' = 0
        /\ call = "boot" => (phase' = "script" <=> step < 28)
    BY <1>1, <1>2, <1>3, AdvanceHost
  <2>2. ASSUME call = "boot"
        PROVE  /\ step \in 1 .. 27 /\ step \notin Posts /\ step \notin {4, 12, 22, 25}
               /\ StageAt(step + 1) = StageAt(step)
    <3>1. step \in 1 .. 28 /\ Exchange = Booting[step]
      BY <1>1, <1>2, <2>2, InScript
    <3>2. step \notin Posts /\ step \notin {4, 12, 22, 25}
      BY <1>1, <3>1, Operations
    <3>3. StageAt(step + 1) = StageAt(step)
      BY <3>1, <3>2, StageAtKept
    <3> QED BY <3>1, <3>2, <3>3 DEF Posts
  <2>3. UNCHANGED << stage, image, flash, awake, connected >>
    BY <1>1 DEF modemVars
  <2>4. InStep'
    <3> SUFFICES ASSUME call' = "boot", phase' \in {"connect", "script"}, stage' # "dead"
                 PROVE  (/\ stage = StageAt(step) /\ image = Loaded
                         /\ flash["firmware"] = Written(22) /\ flash["nvdata"] = Written(25))'
      BY DEF InStep
    <3>1. /\ stage = StageAt(step) /\ image = Loaded
          /\ flash["firmware"] = Written(22) /\ flash["nvdata"] = Written(25)
      BY <1>1, <1>2, <2>1, <2>3 DEF ModemInv, InStep
    <3>2. step' = step + 1 /\ offset' = 0 /\ call = "boot"
      BY <2>1
    <3>3. StageAt(step)' = StageAt(step + 1)
      BY <3>2 DEF StageAt
    <3>4. Loaded' = 0 /\ Loaded = 0
      BY <2>2, <3>2 DEF Loaded, Posts
    <3>5. Written(22)' = Written(22) /\ Written(25)' = Written(25)
      BY <2>2, <3>2, WrittenKept
    <3> QED BY <2>2, <2>3, <3>1, <3>2, <3>3, <3>4, <3>5
  <2>5. Complete' /\ BootedOnlyIfComplete'
    BY <1>2, <2>1, <2>2, <2>3 DEF ModemInv, Complete, BootedOnlyIfComplete
  <2>6. ModemTypes'
    BY <1>2, <2>3 DEF ModemInv, ModemTypes
  <2> QED BY <2>1, <2>4, <2>5, <2>6, HalvesNext DEF ModemInv
<1>4. CASE Return("false")
  <2>1. link' = TRUE
    <3>1. link
      BY <1>1, <1>2, InScript
    <3>2. link \in BOOLEAN
      BY <1>2, Zenon DEF HostInv, HostTypes
    <3> QED BY <1>1, <3>1, <3>2, Zenon
  <2>2. HostInv'
    BY <1>1, <1>2, <1>4, <2>1, ReturnHost
  <2>3. ModemInv'
    BY <1>1, <1>2, <1>4, ReturnModem
  <2> QED BY <2>2, <2>3, HalvesNext
<1> QED BY <1>1, <1>3, <1>4
LEMMA LinkInScript ==
    ASSUME HostInv, phase = "script", UNCHANGED link
    PROVE  link' = TRUE
<1>1. link
  BY InScript
<1>2. link \in BOOLEAN
  BY Zenon DEF HostInv, HostTypes
<1> QED BY <1>1, <1>2, Zenon

LEMMA TimeoutStep == ASSUME Inv, Timeout PROVE Inv'
<1>1. HostInv /\ ModemInv
  BY Halves
<1>2. /\ phase = "script" /\ Return("false") /\ UNCHANGED modemVars
      /\ UNCHANGED << calls, report >> /\ UNCHANGED link
  BY DEF Timeout
<1>3. HostInv'
  BY <1>1, <1>2, LinkInScript, ReturnHost
<1>4. ModemInv'
  BY <1>1, <1>2, ReturnModem
<1> QED BY <1>3, <1>4, HalvesNext

LEMMA ReceiveDumpStep == ASSUME Inv, ReceiveDump PROVE Inv'
<1>1. HostInv /\ ModemInv
  BY Halves
<1>2. /\ phase = "script" /\ Exchange.op = "upload" /\ UNCHANGED modemVars
      /\ UNCHANGED << calls, report >> /\ UNCHANGED link
      /\ UNCHANGED << callVars, socketVars >> \/ Return("true")
  BY DEF ReceiveDump
<1>3. CASE UNCHANGED << callVars, socketVars >>
  <2>1. HostInv'
    BY <1>1, <1>2, <1>3, HostUnchanged DEF hostVars
  <2>2. UNCHANGED << call, phase, step, offset, result, link, stage, image, flash, awake,
                     connected >>
    BY <1>2, <1>3 DEF modemVars, callVars, socketVars
  <2>3. ModemInv'
    BY <1>1, <2>2
    DEF ModemInv, ModemTypes, InStep, Complete, BootedOnlyIfComplete, Loaded, Written,
        AllWritten
  <2> QED BY <2>1, <2>3, HalvesNext
<1>4. CASE Return("true")
  <2>1. call = "dump"
    BY <1>1, <1>2, InScript, Operations
  <2>2. HostInv'
    BY <1>1, <1>2, <1>4, LinkInScript, ReturnHost
  <2>3. ModemInv'
    BY <1>1, <1>2, <1>4, <2>1, ReturnModem
  <2> QED BY <2>2, <2>3, HalvesNext
<1> QED BY <1>2, <1>3, <1>4

LEMMA SendImageStep == ASSUME Inv, SendImage PROVE Inv'
<1>1. HostInv /\ ModemInv
  BY Halves
<1>2. /\ phase = "script" /\ Exchange.op = "image"
      /\ UNCHANGED << bootSocket, link, calls, result, report >>
      /\ UNCHANGED << stage, flash, awake, connected >>
  BY DEF SendImage
<1>3. PICK n \in 1 .. ImageSize - offset :
         /\ image' = image + n
         /\ IF offset + n < ImageSize THEN Proceed(n) ELSE Advance
  BY DEF SendImage
<1>4. offset \in Nat /\ image \in Nat /\ ImageSize \in Nat
  BY <1>1, ConstantsAssumption DEF HostInv, HostTypes, ModemInv, ModemTypes
<1>5. ModemTypes'
  <2>1. image' \in Nat
    BY <1>3, <1>4
  <2> QED BY <1>1, <1>2, <2>1 DEF ModemInv, ModemTypes
<1>6. call = "boot" => step \in {4, 12}
  BY <1>1, <1>2, InScript, Operations
<1>7. call = "boot" /\ stage # "dead" =>
         /\ stage = StageAt(step) /\ image = offset
         /\ flash["firmware"] = Written(22) /\ flash["nvdata"] = Written(25)
  <2>1. step \in {4, 12} => Loaded = offset
    BY DEF Loaded
  <2> QED BY <1>1, <1>2, <1>6, <2>1 DEF ModemInv, InStep
<1>8. CASE offset + n < ImageSize /\ Proceed(n)
  <2>1. HostInv'
    BY <1>1, <1>2, <1>4, <1>6, <1>8, ConstantsAssumption, ProceedHost
  <2>2. call' = call /\ phase' = phase /\ step' = step /\ offset' = offset + n
    BY <1>8 DEF Proceed
  <2>3. ASSUME call = "boot", stage # "dead"
        PROVE  InStep'
    <3>1. Loaded' = image'
      BY <1>3, <1>6, <1>7, <2>2, <2>3 DEF Loaded
    <3>2. Written(22)' = 0 /\ Written(25)' = 0 /\ Written(22) = 0 /\ Written(25) = 0
      BY <1>6, <2>2, <2>3 DEF Written
    <3> QED BY <1>2, <1>7, <2>2, <2>3, <3>1, <3>2 DEF InStep
  <2>4. InStep' /\ Complete' /\ BootedOnlyIfComplete'
    BY <1>1, <1>2, <2>2, <2>3 DEF ModemInv, InStep, Complete, BootedOnlyIfComplete
  <2> QED BY <1>5, <2>1, <2>4, HalvesNext DEF ModemInv
<1>9. CASE ~(offset + n < ImageSize) /\ Advance
  <2>1. /\ HostInv' /\ call' = call /\ phase' \in {"script", "wakeUp"}
        /\ phase' = "script" => step' = step + 1 /\ offset' = 0
        /\ call = "boot" => (phase' = "script" <=> step < 28)
    BY <1>1, <1>2, <1>9, AdvanceHost
  <2>2. ASSUME call = "boot", stage # "dead"
        PROVE  InStep'
    <3>1. phase' = "script" /\ step' = step + 1 /\ step' \in {5, 13} /\ offset' = 0
      BY <1>6, <2>1, <2>2
    <3>2. image' = ImageSize
      BY <1>3, <1>4, <1>7, <1>9, <2>2
    <3>3. Loaded' = ImageSize
      BY <3>1 DEF Loaded
    <3>4. Written(22)' = 0 /\ Written(25)' = 0 /\ Written(22) = 0 /\ Written(25) = 0
      BY <1>6, <2>2, <3>1 DEF Written
    <3>5. StageAt(step)' = StageAt(step)
      <4>1. StageAt(step)' = StageAt(step + 1)
        BY <3>1 DEF StageAt
      <4>2. step \in 1 .. 28 /\ step \notin Posts
        BY <1>6, <2>2 DEF Posts
      <4> QED BY <4>1, <4>2, StageAtKept
    <3> QED BY <1>2, <1>7, <2>2, <3>2, <3>3, <3>4, <3>5 DEF InStep
  <2>3. InStep' /\ Complete' /\ BootedOnlyIfComplete'
    BY <1>1, <1>2, <1>6, <2>1, <2>2 DEF ModemInv, InStep, Complete, BootedOnlyIfComplete
  <2> QED BY <1>5, <2>1, <2>3, HalvesNext DEF ModemInv
<1> QED BY <1>3, <1>8, <1>9
LEMMA FlashStages ==
    ASSUME NEW n \in Nat
    PROVE  /\ n = 22 => StageAt(n) = "firmware"
           /\ n = 25 => StageAt(n) = "nvdata"
<1>1. n = 22 => StageAt(n) = "firmware"
  BY DEF StageAt
<1>2. n = 25 => StageAt(n) = "nvdata"
  BY DEF StageAt
<1> QED BY <1>1, <1>2

LEMMA SendBlockStep == ASSUME Inv, SendBlock PROVE Inv'
<1>1. HostInv /\ ModemInv
  BY Halves
<1>2. /\ phase = "script" /\ Exchange.op = "flash"
      /\ UNCHANGED << bootSocket, link, calls, result, report >>
      /\ UNCHANGED << stage, image, awake, connected >>
      /\ flash' = IF stage \in Areas THEN [flash EXCEPT ![stage] = @ + 1] ELSE flash
      /\ IF offset + 1 < Blocks THEN Proceed(1) ELSE Advance
  BY DEF SendBlock
<1>3. flash \in [Areas -> Nat] /\ offset \in Nat /\ Blocks \in Nat
  BY <1>1, ConstantsAssumption DEF HostInv, HostTypes, ModemInv, ModemTypes
<1>4. ModemTypes'
  <2>1. flash' \in [Areas -> Nat]
    BY <1>2, <1>3
  <2> QED BY <1>1, <1>2, <2>1 DEF ModemInv, ModemTypes
<1>5. call = "boot" => step \in {22, 25} /\ offset < Blocks
  <2>1. call = "boot" => step \in {22, 25}
    BY <1>1, <1>2, InScript, Operations
  <2> QED BY <1>1, <1>2, <2>1 DEF HostInv, OffsetInv
<1>6. call = "boot" /\ stage # "dead" =>
         /\ stage = StageAt(step) /\ image = Loaded
         /\ flash["firmware"] = Written(22) /\ flash["nvdata"] = Written(25)
  BY <1>1, <1>2 DEF ModemInv, InStep
\* The block goes to the area of the exchange, and to no other.
<1>7. ASSUME call = "boot", stage # "dead"
      PROVE  /\ image = 0
             /\ step = 22 => /\ stage = "firmware" /\ flash["firmware"] = offset
                             /\ flash["nvdata"] = 0
                             /\ flash'["firmware"] = offset + 1 /\ flash'["nvdata"] = 0
             /\ step = 25 => /\ stage = "nvdata" /\ flash["firmware"] = Blocks
                             /\ flash["nvdata"] = offset
                             /\ flash'["firmware"] = Blocks /\ flash'["nvdata"] = offset + 1
  <2>1. step \in Nat /\ step \in {22, 25}
    BY <1>5, <1>7
  <2>2. image = 0
    BY <1>6, <1>7, <2>1 DEF Loaded
  <2>3. ASSUME step = 22
        PROVE  /\ stage = "firmware" /\ flash["firmware"] = offset /\ flash["nvdata"] = 0
               /\ flash'["firmware"] = offset + 1 /\ flash'["nvdata"] = 0
    <3>1. stage = "firmware"
      BY <1>6, <1>7, <2>1, <2>3, FlashStages
    <3>2. Written(22) = offset /\ Written(25) = 0
      BY <2>3 DEF Written
    <3>3. flash' = [flash EXCEPT !["firmware"] = @ + 1]
      BY <1>2, <3>1 DEF Areas
    <3> QED BY <1>3, <1>6, <1>7, <3>1, <3>2, <3>3 DEF Areas
  <2>4. ASSUME step = 25
        PROVE  /\ stage = "nvdata" /\ flash["firmware"] = Blocks /\ flash["nvdata"] = offset
               /\ flash'["firmware"] = Blocks /\ flash'["nvdata"] = offset + 1
    <3>1. stage = "nvdata"
      BY <1>6, <1>7, <2>1, <2>4, FlashStages
    <3>2. Written(22) = Blocks /\ Written(25) = offset
      BY <2>4 DEF Written
    <3>3. flash' = [flash EXCEPT !["nvdata"] = @ + 1]
      BY <1>2, <3>1 DEF Areas
    <3> QED BY <1>3, <1>6, <1>7, <3>1, <3>2, <3>3 DEF Areas
  <2> QED BY <2>2, <2>3, <2>4
<1>8. CASE offset + 1 < Blocks /\ Proceed(1)
  <2>1. HostInv'
    BY <1>1, <1>2, <1>3, <1>8, ConstantsAssumption, ProceedHost
  <2>2. call' = call /\ phase' = phase /\ step' = step /\ offset' = offset + 1
    BY <1>8 DEF Proceed
  <2>3. ASSUME call = "boot", stage # "dead"
        PROVE  InStep'
    <3>1. Loaded' = 0
      BY <1>5, <2>2, <2>3 DEF Loaded
    <3>2. flash'["firmware"] = Written(22)' /\ flash'["nvdata"] = Written(25)'
      <4>1. CASE step = 22
        <5>1. Written(22)' = offset + 1 /\ Written(25)' = 0
          BY <2>2, <4>1 DEF Written
        <5> QED BY <1>7, <2>3, <4>1, <5>1
      <4>2. CASE step = 25
        <5>1. Written(22)' = Blocks /\ Written(25)' = offset + 1
          BY <2>2, <4>2 DEF Written
        <5> QED BY <1>7, <2>3, <4>2, <5>1
      <4> QED BY <1>5, <2>3, <4>1, <4>2
    <3> QED BY <1>2, <1>6, <1>7, <2>2, <2>3, <3>1, <3>2 DEF InStep
  <2>4. InStep' /\ Complete' /\ BootedOnlyIfComplete'
    BY <1>1, <1>2, <2>2, <2>3 DEF ModemInv, InStep, Complete, BootedOnlyIfComplete
  <2> QED BY <1>4, <2>1, <2>4, HalvesNext DEF ModemInv
<1>9. CASE ~(offset + 1 < Blocks) /\ Advance
  <2>1. /\ HostInv' /\ call' = call /\ phase' \in {"script", "wakeUp"}
        /\ phase' = "script" => step' = step + 1 /\ offset' = 0
        /\ call = "boot" => (phase' = "script" <=> step < 28)
    BY <1>1, <1>2, <1>9, AdvanceHost
  <2>2. ASSUME call = "boot", stage # "dead"
        PROVE  InStep'
    <3>1. phase' = "script" /\ step' = step + 1 /\ step' \in {23, 26} /\ offset' = 0
      BY <1>5, <2>1, <2>2
    <3>2. Loaded' = 0
      BY <3>1 DEF Loaded
    <3>3. offset + 1 = Blocks
      BY <1>3, <1>5, <1>9, <2>2
    <3>4. flash'["firmware"] = Written(22)' /\ flash'["nvdata"] = Written(25)'
      <4>1. CASE step = 22
        <5>1. Written(22)' = Blocks /\ Written(25)' = 0
          BY <3>1, <4>1 DEF Written
        <5> QED BY <1>7, <2>2, <3>3, <4>1, <5>1
      <4>2. CASE step = 25
        <5>1. Written(22)' = Blocks /\ Written(25)' = Blocks
          BY <3>1, <4>2 DEF Written
        <5> QED BY <1>7, <2>2, <3>3, <4>2, <5>1
      <4> QED BY <1>5, <2>2, <4>1, <4>2
    <3>5. StageAt(step)' = StageAt(step)
      <4>1. StageAt(step)' = StageAt(step + 1)
        BY <3>1 DEF StageAt
      <4>2. step \in 1 .. 28 /\ step \notin Posts
        BY <1>5, <2>2 DEF Posts
      <4> QED BY <4>1, <4>2, StageAtKept
    <3> QED BY <1>2, <1>6, <1>7, <2>2, <3>2, <3>4, <3>5 DEF InStep
  <2>3. InStep' /\ Complete' /\ BootedOnlyIfComplete'
    BY <1>1, <1>2, <1>5, <2>1, <2>2 DEF ModemInv, InStep, Complete, BootedOnlyIfComplete
  <2> QED BY <1>4, <2>1, <2>3, HalvesNext DEF ModemInv
<1> QED BY <1>2, <1>8, <1>9

LEMMA SendItemStep == ASSUME Inv, SendItem PROVE Inv'
<1>1. HostInv /\ ModemInv
  BY Halves
<1>2. /\ phase = "script" /\ Exchange.op = "post" /\ Advance
      /\ UNCHANGED << bootSocket, link, calls, result, report >>
      /\ UNCHANGED << flash, awake, connected >>
      /\ \/ /\ Accepts(Exchange.item) /\ stage' = Effect(Exchange.item).to /\ image' = 0
         \/ /\ ~Accepts(Exchange.item) /\ stage' = stage /\ image' = image
  BY DEF SendItem
<1>3. /\ HostInv' /\ call' = call /\ phase' \in {"script", "wakeUp"}
      /\ phase' = "script" => step' = step + 1 /\ offset' = 0
      /\ call = "boot" => (phase' = "script" <=> step < 28)
  BY <1>1, <1>2, AdvanceHost
<1>4. stage' \in Stages /\ image' \in Nat
  <2>1. Accepts(Exchange.item) => Effect(Exchange.item).to \in Stages
    BY AcceptsWhat, EffectInStages
  <2>2. stage \in Stages /\ image \in Nat
    BY <1>1 DEF ModemInv, ModemTypes
  <2> QED BY <1>2, <2>1, <2>2
<1>5. ModemTypes'
  BY <1>1, <1>2, <1>4 DEF ModemInv, ModemTypes
<1>6. awake' => stage' = "running"
  <2>1. awake => stage = "running"
    BY <1>1 DEF ModemInv, Complete
  <2>2. stage = "running" => ~Accepts(Exchange.item)
    BY AcceptsWhat
  <2> QED BY <1>2, <2>1, <2>2
<1>7. stage = "dead" => stage' = "dead"
  BY <1>2, AcceptsWhat
<1>8. ASSUME call = "boot", stage # "dead"
      PROVE  /\ step \in Posts /\ image' = 0
             /\ step = 28 => stage' = "reset" /\ AllWritten'
             /\ step # 28 => InStep'
  <2>1. step \in 1 .. 28 /\ Exchange = Booting[step]
    BY <1>1, <1>2, <1>8, InScript
  <2>2. step \in Posts
    BY <1>2, <2>1, Operations
  <2>3. /\ stage = StageAt(step) /\ image = Loaded
        /\ flash["firmware"] = Written(22) /\ flash["nvdata"] = Written(25)
    BY <1>1, <1>2, <1>8 DEF ModemInv, InStep
  <2>4. step \in {5, 13} => image = ImageSize
    BY <2>3 DEF Loaded
  <2>5. /\ Accepts(Booting[step].item)
        /\ Effect(Booting[step].item).to = IF step = 28 THEN "reset" ELSE StageAt(step + 1)
    BY <2>2, <2>3, <2>4, PostDoes
  <2>6. image' = 0 /\ stage' = IF step = 28 THEN "reset" ELSE StageAt(step + 1)
    BY <1>2, <2>1, <2>5
  <2>7. ASSUME step = 28
        PROVE  AllWritten'
    <3>1. Written(22) = Blocks /\ Written(25) = Blocks
      BY <2>7 DEF Written
    <3>2. flash \in [Areas -> Nat]
      BY <1>1 DEF ModemInv, ModemTypes
    <3>3. flash = [a \in Areas |-> Blocks]
      BY <2>3, <3>1, <3>2 DEF Areas
    <3> QED BY <1>2, <3>3 DEF AllWritten
  <2>8. ASSUME step # 28
        PROVE  InStep'
    <3>1. phase' = "script" /\ step' = step + 1 /\ offset' = 0
      BY <1>3, <1>8, <2>1, <2>8
    <3>2. StageAt(step)' = StageAt(step + 1)
      BY <3>1 DEF StageAt
    <3>3. Loaded' = 0
      BY <2>2, <3>1 DEF Loaded, Posts
    <3>4. Written(22)' = Written(22) /\ Written(25)' = Written(25)
      BY <2>1, <2>2, <3>1, WrittenKept DEF Posts
    <3> QED BY <1>2, <2>3, <2>6, <2>8, <3>2, <3>3, <3>4 DEF InStep
  <2> QED BY <2>2, <2>6, <2>7, <2>8
<1>9. InStep'
  <2>1. CASE call = "boot" /\ stage # "dead" /\ step # 28
    BY <1>8, <2>1
  <2>2. CASE call = "boot" /\ step = 28
    BY <1>3, <2>2 DEF InStep
  <2>3. CASE call # "boot" \/ stage = "dead"
    BY <1>3, <1>7, <2>3 DEF InStep
  <2> QED BY <2>1, <2>2, <2>3
<1>10. Complete'
  <2>1. ASSUME call' = "boot", phase' = "wakeUp", stage' # "dead"
        PROVE  stage' \in {"reset", "running"} /\ AllWritten'
    <3>1. step = 28
      BY <1>1, <1>2, <1>3, <2>1, InScript
    <3> QED BY <1>3, <1>7, <1>8, <2>1, <3>1
  <2> QED BY <1>3, <1>6, <2>1 DEF Complete
<1>11. BootedOnlyIfComplete'
  BY <1>3 DEF BootedOnlyIfComplete
<1> QED BY <1>3, <1>5, <1>9, <1>10, <1>11, HalvesNext DEF ModemInv

-----------------------------------------------------------------------------
LEMMA NextInv == Inv /\ [Next]_vars => Inv'
<1> SUFFICES ASSUME Inv, [Next]_vars PROVE Inv'
  OBVIOUS
<1>1. CASE Next
  BY <1>1, BeginStep, PollLinkStep, SendItemStep, SendImageStep, SendBlockStep, ReceiveStep,
     TimeoutStep, ReceiveDumpStep, PollWakeStep, CallerContinuesStep, SpeakStep,
     LinkConnectsStep, RestartStep, WakeLineFallsStep, DieStep, Zenon DEF Next
<1>2. CASE UNCHANGED vars
  <2>1. HostInv'
    BY <1>2, Halves, HostUnchanged DEF vars
  <2>2. UNCHANGED << call, phase, step, offset, result, link, stage, image, flash, awake,
                     connected >>
    BY <1>2 DEF vars, hostVars, callVars, socketVars, modemVars
  <2>3. ModemInv'
    BY <2>2, Halves
    DEF ModemInv, ModemTypes, InStep, Complete, BootedOnlyIfComplete, Loaded, Written,
        AllWritten
  <2> QED BY <2>1, <2>3, HalvesNext
<1> QED BY <1>1, <1>2

\* The invariant holds of every call of boot() and dump(), whatever the modem
\* answers, and whenever it dies.
THEOREM Invariance == Spec => []Inv
BY InitInv, NextInv, PTL DEF Spec

\* Every variable keeps its type; the script's index stays inside the script.
THEOREM TypeCorrect == Spec => []TypeOK
<1>1. Inv => TypeOK
  BY DEF Inv, Types
<1> QED BY <1>1, Invariance, PTL

\* boot() returns true only of a modem that took both images and every block
\* of both areas, runs, and is on the link.
THEOREM BootIsComplete == Spec => []BootedOnlyIfComplete
<1>1. Inv => BootedOnlyIfComplete
  BY DEF Inv
<1> QED BY <1>1, Invariance, PTL

\* Every way out of boot() and dump() leaves the link active.
THEOREM LinkStaysActive == Spec => []LinkLeftActive
<1>1. Inv => LinkLeftActive
  BY DEF Inv, LinkInv, LinkLeftActive
<1> QED BY <1>1, Invariance, PTL

\* m_bootSocket points to the socket of the call in progress, and to no other.
THEOREM BootSocketIsValid == Spec => []BootSocketValid
<1>1. Inv => BootSocketValid
  BY DEF Inv
<1> QED BY <1>1, Invariance, PTL
=============================================================================
