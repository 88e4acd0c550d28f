-------------------------- MODULE StoredFilesProofs --------------------------
(***************************************************************************)
(* What is promised of the files of jobs, proved for any sizes, limits and *)
(* numbers of jobs. For ArtifactReads: an answer holds exactly the bytes   *)
(* that were asked for. That is a fact about whole answers                 *)
(* (ServedExactly); the invariant adds that a request which fails on its   *)
(* way is not answered with a part. For StorageCleanup: a sweep frees what *)
(* it must and no more. A sweep knows what is left of what it counted      *)
(* (Balanced), a worker goes through all of it (AsWorker), and a request   *)
(* through a plan without which more than its limit would stay             *)
(* (AsRequest).                                                            *)
(***************************************************************************)
EXTENDS ArtifactReads, StorageCleanup, ListsProofs

------------------------------------------------------------------------------
(* Reads: arithmetic and lists *)

\* The bytes of an archive, and the sizes of the two files.
Cells == [part : {"zero", "header", "data"}, file : Files \cup {"none"}, at : Nat]
Sizes == [media : MediaSizes, info : InfoSizes]

\* What division with remainder is for natural numbers.
LEMMA Remainders ==
  ASSUME NEW a \in Nat, NEW b \in Nat \ {0}
  PROVE  a % b \in 0 .. (b - 1) /\ a \div b \in Nat /\ a = b * (a \div b) + (a % b)
<1>1. a % b \in 0 .. (b - 1)
  OBVIOUS
<1>2. a \div b \in Nat
  OBVIOUS
<1>3. a = b * (a \div b) + (a % b)
  OBVIOUS
<1> QED
  BY <1>1, <1>2, <1>3

\* A multiple has no remainder.
LEMMA Multiples ==
  ASSUME NEW b \in Nat \ {0}, NEW q \in Nat
  PROVE  b * q \in Nat /\ (b * q) % b = 0
OBVIOUS

\* Two multiples of one number that are nearer than that number are the same.
LEMMA SameMultiple ==
  ASSUME NEW b \in Nat \ {0}, NEW p \in Nat, NEW q \in Nat,
         b * p - b * q < b, b * q - b * p < b
  PROVE  p = q
<1>1. ASSUME NEW m \in Nat, NEW n \in Nat, b * m - b * n < b
      PROVE  m <= n
  <2> SUFFICES ASSUME m >= n + 1 PROVE FALSE
    OBVIOUS
  <2>1. b * m >= b * (n + 1)
    OBVIOUS
  <2>2. b * (n + 1) = b * n + b
    OBVIOUS
  <2> QED
    BY <2>1, <2>2, <1>1
<1> QED
  BY <1>1

\* The padding completes the last block.
LEMMA PaddingCompletes ==
  ASSUME NEW n \in Nat
  PROVE  /\ Padding(n) \in 0 .. (Block - 1)
         /\ \E q \in Nat : n + Padding(n) = Block * q
<1>1. Block \in Nat \ {0}
  BY ArtifactsAssumption
<1> DEFINE r == n % Block
           q == n \div Block
<1>2. r \in 0 .. (Block - 1) /\ q \in Nat /\ n = Block * q + r
  BY <1>1, Remainders
<1>3. Padding(n) = IF r = 0 THEN 0 ELSE Block - r
  BY DEF Padding
<1>4. Block * (q + 1) = Block * q + Block
  BY <1>1, <1>2
<1> HIDE DEF r, q
<1>5. CASE r = 0
  BY <1>1, <1>2, <1>3, <1>5
<1>6. CASE r # 0
  <2>1. Padding(n) \in 0 .. (Block - 1)
    BY <1>1, <1>2, <1>3, <1>6
  <2>2. Block * q \in Nat
    BY <1>1, <1>2
  <2>3. n + Padding(n) = Block * (q + 1)
    BY <2>2, <1>1, <1>2, <1>3, <1>4, <1>6
  <2>4. q + 1 \in Nat
    BY <1>2
  <2> QED
    BY <2>1, <2>3, <2>4
<1> QED
  BY <1>5, <1>6

\* The elements of a concatenation.
LEMMA Concatenation ==
  ASSUME NEW S, NEW s \in Seq(S), NEW t \in Seq(S)
  PROVE  /\ s \o t \in Seq(S) /\ Len(s \o t) = Len(s) + Len(t)
         /\ \A i \in 1 .. Len(s) : (s \o t)[i] = s[i]
         /\ \A i \in (Len(s) + 1) .. (Len(s) + Len(t)) : (s \o t)[i] = t[i - Len(s)]
OBVIOUS

\* The pieces an archive is put together from: the bytes of a file, and a header.
LEMMA Pieces ==
  ASSUME size \in Sizes, NEW f \in Files
  PROVE  /\ size[f] \in Nat
         /\ Content(f) \in Seq(Cells) /\ Len(Content(f)) = size[f]
         /\ TarHeader(f) \in Seq(Cells) /\ Len(TarHeader(f)) = Block
<1>1. size[f] \in Nat
  BY ArtifactsAssumption DEF Sizes, Files
<1>2. Block \in Nat
  BY ArtifactsAssumption
<1>3. \A i \in 1 .. size[f] : Cell("data", f, i) \in Cells
  BY <1>1 DEF Cells, Cell
<1>4. \A i \in 1 .. Block : Cell("header", f, i) \in Cells
  BY <1>2 DEF Cells, Cell
<1>5. Content(f) \in Seq(Cells) /\ Len(Content(f)) = size[f]
  BY <1>1, <1>3 DEF Content
<1>6. TarHeader(f) \in Seq(Cells) /\ Len(TarHeader(f)) = Block
  BY <1>2, <1>4 DEF TarHeader
<1> QED
  BY <1>1, <1>5, <1>6

\* Padding is all zeros.
LEMMA ZeroPiece ==
  ASSUME NEW n \in Nat
  PROVE  Zeros(n) \in Seq(Cells) /\ Len(Zeros(n)) = n /\ \A i \in 1 .. n : Zeros(n)[i].part = "zero"
<1>1. \A i \in 1 .. n : Cell("zero", "none", 0) \in Cells
  BY DEF Cells, Cell
<1>2. Zeros(n) \in Seq(Cells) /\ Len(Zeros(n)) = n
  BY <1>1 DEF Zeros
<1> QED
  BY <1>2 DEF Zeros, Cell

\* An entry of the archive: the header, the file, and zeros up to a full block.
LEMMA Entry ==
  ASSUME size \in Sizes, NEW f \in Files
  PROVE  /\ TarEntry(f) \in Seq(Cells)
         /\ Len(TarEntry(f)) = Block + size[f] + Padding(size[f])
         /\ TarHeader(f) \o Content(f) \in Seq(Cells)
         /\ Len(TarHeader(f) \o Content(f)) = Block + size[f]
         /\ \A i \in 1 .. (Block + size[f]) : TarEntry(f)[i] = (TarHeader(f) \o Content(f))[i]
         /\ \A i \in (Block + size[f] + 1) .. (Block + size[f] + Padding(size[f])) :
              TarEntry(f)[i].part = "zero"
<1> DEFINE h == TarHeader(f)
           c == Content(f)
           z == Zeros(Padding(size[f]))
           hc == h \o c
           n == size[f]
           p == Padding(size[f])
<1>1. n \in Nat /\ Block \in Nat /\ h \in Seq(Cells) /\ Len(h) = Block
      /\ c \in Seq(Cells) /\ Len(c) = n
  BY Pieces, ArtifactsAssumption
<1>2. p \in Nat
  <2>1. p \in 0 .. (Block - 1)
    BY <1>1, PaddingCompletes
  <2> QED
    BY <2>1, <1>1
<1>3. z \in Seq(Cells) /\ Len(z) = p /\ \A i \in 1 .. p : z[i].part = "zero"
  BY <1>2, ZeroPiece
<1>5. TarEntry(f) = hc \o z
  BY DEF TarEntry
<1> HIDE DEF h, c, z
<1>4. hc \in Seq(Cells) /\ Len(hc) = Block + n
  <2>1. h \o c \in Seq(Cells) /\ Len(h \o c) = Len(h) + Len(c)
    BY <1>1, Concatenation
  <2> QED
    BY <2>1, <1>1
<1> HIDE DEF hc, p, n
<1>6. /\ hc \o z \in Seq(Cells) /\ Len(hc \o z) = Len(hc) + Len(z)
      /\ \A i \in 1 .. Len(hc) : (hc \o z)[i] = hc[i]
      /\ \A i \in (Len(hc) + 1) .. (Len(hc) + Len(z)) : (hc \o z)[i] = z[i - Len(hc)]
  BY <1>3, <1>4, Concatenation
<1>7. \A i \in (Block + n + 1) .. (Block + n + p) : (hc \o z)[i].part = "zero"
  <2> SUFFICES ASSUME NEW i \in (Block + n + 1) .. (Block + n + p) PROVE (hc \o z)[i].part = "zero"
    OBVIOUS
  <2>1. i - (Block + n) \in 1 .. p
    BY <1>1, <1>2
  <2>2. (hc \o z)[i] = z[i - (Block + n)]
    BY <1>3, <1>4, <1>6
  <2> QED
    BY <2>1, <2>2, <1>3
<1> QED
  BY <1>3, <1>4, <1>5, <1>6, <1>7 DEF h, c, hc, n, p

\* The archive: the entry of the media, that of the metadata, and two blocks of zeros.
LEMMA Archive ==
  ASSUME size \in Sizes
  PROVE  LET m == Len(TarEntry("media"))
             n == Len(TarEntry("info"))
         IN  /\ Tar \in Seq(Cells) /\ Len(Tar) = m + n + 2 * Block
             /\ \A i \in 1 .. m : Tar[i] = TarEntry("media")[i]
             /\ \A i \in (m + 1) .. (m + n) : Tar[i] = TarEntry("info")[i - m]
             /\ \A i \in (m + n + 1) .. (m + n + 2 * Block) : Tar[i].part = "zero"
<1> DEFINE e == TarEntry("media")
           g == TarEntry("info")
           z == Zeros(2 * Block)
           eg == e \o g
           m == Len(e)
           n == Len(g)
           b == 2 * Block
<1>1. e \in Seq(Cells) /\ g \in Seq(Cells)
  BY Entry DEF Files
<1>2. b \in Nat
  BY ArtifactsAssumption
<1>3. z \in Seq(Cells) /\ Len(z) = b /\ \A i \in 1 .. b : z[i].part = "zero"
  BY <1>2, ZeroPiece
<1>4. Tar = eg \o z
  BY DEF Tar
<1> HIDE DEF e, g, z
<1>5. /\ eg \in Seq(Cells) /\ Len(eg) = m + n /\ m \in Nat /\ n \in Nat
      /\ \A i \in 1 .. m : eg[i] = e[i]
      /\ \A i \in (m + 1) .. (m + n) : eg[i] = g[i - m]
  BY <1>1, Concatenation
<1> HIDE DEF eg, m, n, b
<1>6. /\ eg \o z \in Seq(Cells) /\ Len(eg \o z) = Len(eg) + Len(z)
      /\ \A i \in 1 .. Len(eg) : (eg \o z)[i] = eg[i]
      /\ \A i \in (Len(eg) + 1) .. (Len(eg) + Len(z)) : (eg \o z)[i] = z[i - Len(eg)]
  BY <1>3, <1>5, Concatenation
<1>7. ASSUME NEW i \in (m + n + 1) .. (m + n + b)
      PROVE  Tar[i].part = "zero"
  <2>1. i - (m + n) \in 1 .. b
    BY <1>2, <1>5
  <2>2. Tar[i] = z[i - (m + n)]
    BY <1>3, <1>4, <1>5, <1>6
  <2> QED
    BY <2>1, <2>2, <1>3
<1>8. \A i \in 1 .. (m + n) : Tar[i] = eg[i]
  BY <1>4, <1>5, <1>6
<1>9. /\ \A i \in 1 .. m : Tar[i] = e[i]
      /\ \A i \in (m + 1) .. (m + n) : Tar[i] = g[i - m]
  BY <1>5, <1>8
<1>10. Tar \in Seq(Cells) /\ Len(Tar) = m + n + b
  BY <1>3, <1>4, <1>5, <1>6
<1> QED
  BY <1>7, <1>9, <1>10 DEF m, n, b, e, g

\* The length computed without the contents is that of the archive.
LEMMA TarLength ==
  ASSUME size \in Sizes
  PROVE  Tar \in Seq(Cells) /\ Len(Tar) = TarLen /\ TarLen \in Nat
<1>1. /\ Tar \in Seq(Cells)
      /\ Len(Tar) = Len(TarEntry("media")) + Len(TarEntry("info")) + 2 * Block
  BY Archive
<1>2. /\ Len(TarEntry("media")) = Block + size["media"] + Padding(size["media"])
      /\ Len(TarEntry("info")) = Block + size["info"] + Padding(size["info"])
  BY Entry DEF Files
<1>3. size["media"] \in Nat /\ size["info"] \in Nat /\ Block \in Nat \ {0}
  BY ArtifactsAssumption DEF Sizes
<1>4. Padding(size["media"]) \in 0 .. (Block - 1) /\ Padding(size["info"]) \in 0 .. (Block - 1)
  BY <1>3, PaddingCompletes
<1>5. Padding(size["media"]) \in Nat /\ Padding(size["info"]) \in Nat
  BY <1>3, <1>4
<1>6. Len(Tar) = TarLen
  <2> DEFINE m == size["media"]
             i == size["info"]
             p == Padding(m)
             q == Padding(i)
  <2>1. TarLen = 2 * Block + Block + m + p + Block + i + q
    BY DEF TarLen
  <2>2. Len(Tar) = (Block + m + p) + (Block + i + q) + 2 * Block
    BY <1>1, <1>2
  <2>3. m \in Nat /\ i \in Nat /\ p \in Nat /\ q \in Nat /\ Block \in Nat
    BY <1>3, <1>5
  <2> HIDE DEF m, i, p, q
  <2> QED
    BY <2>1, <2>2, <2>3
<1>7. Len(Tar) \in Nat
  BY <1>1
<1> QED
  BY <1>1, <1>6, <1>7

\* A reader of the format finds both files in the archive.
LEMMA TarReadable ==
  ASSUME size \in Sizes
  PROVE  IsTar(Tar)
<1> DEFINE e == TarEntry("media")
           g == TarEntry("info")
           a == Block + size["media"]
           b == Block + size["info"]
           p == Padding(size["media"])
           q == Padding(size["info"])
           len == Len(Tar)
<1>1. size["media"] \in Nat /\ size["info"] \in Nat /\ Block \in Nat \ {0}
  BY ArtifactsAssumption DEF Sizes
<1>2. /\ p \in 0 .. (Block - 1) /\ \E k \in Nat : size["media"] + p = Block * k
      /\ q \in 0 .. (Block - 1) /\ \E k \in Nat : size["info"] + q = Block * k
  BY <1>1, PaddingCompletes
<1>3. PICK k \in Nat : size["media"] + p = Block * k
  BY <1>2
<1>4. PICK l \in Nat : size["info"] + q = Block * l
  BY <1>2
<1>5. a \in Nat /\ b \in Nat /\ p \in Nat /\ q \in Nat /\ p < Block /\ q < Block
  BY <1>1, <1>2
<1>6. Block * (k + 1) = Block * k + Block /\ Block * (l + 1) = Block * l + Block
  BY <1>1
<1>7. a + p = Block * (k + 1) /\ b + q = Block * (l + 1)
  BY <1>1, <1>3, <1>4, <1>5, <1>6
<1>8. /\ e \in Seq(Cells) /\ Len(e) = a + p
      /\ TarHeader("media") \o Content("media") \in Seq(Cells)
      /\ Len(TarHeader("media") \o Content("media")) = a
      /\ \A i \in 1 .. a : e[i] = (TarHeader("media") \o Content("media"))[i]
      /\ \A i \in (a + 1) .. (a + p) : e[i].part = "zero"
  BY Entry DEF Files
<1>9. /\ g \in Seq(Cells) /\ Len(g) = b + q
      /\ TarHeader("info") \o Content("info") \in Seq(Cells)
      /\ Len(TarHeader("info") \o Content("info")) = b
      /\ \A i \in 1 .. b : g[i] = (TarHeader("info") \o Content("info"))[i]
      /\ \A i \in (b + 1) .. (b + q) : g[i].part = "zero"
  BY Entry DEF Files
<1>10. /\ Tar \in Seq(Cells) /\ len = (a + p) + (b + q) + 2 * Block
       /\ \A i \in 1 .. (a + p) : Tar[i] = e[i]
       /\ \A i \in ((a + p) + 1) .. ((a + p) + (b + q)) : Tar[i] = g[i - (a + p)]
       /\ \A i \in ((a + p) + (b + q) + 1) .. ((a + p) + (b + q) + 2 * Block) :
            Tar[i].part = "zero"
  BY <1>8, <1>9, Archive
<1>11. len \in Nat
  BY <1>10
<1> DEFINE second == CHOOSE n \in 0 .. Len(Tar) :
                       n % Block = 0 /\ n >= Block + size["media"] /\ n < 2 * Block + size["media"]
           end == second + Block + size["info"]
<1>12. second = a + p
  <2>0. Block + size["media"] = a /\ 2 * Block + size["media"] = Block + a
    BY <1>1
  <2> HIDE DEF a, b, p, q, len
  <2>1. a + p \in 0 .. Len(Tar) /\ a + p >= a /\ a + p < Block + a
    BY <1>1, <1>5, <1>10 DEF len
  <2>2. (a + p) % Block = 0
    BY <1>1, <1>7, Multiples
  <2>3. ASSUME NEW n \in 0 .. Len(Tar), n % Block = 0, n >= a, n < Block + a
        PROVE  n = a + p
    <3>0. n \in Nat
      BY <1>11 DEF len
    <3>1. n \in Nat /\ n \div Block \in Nat /\ n = Block * (n \div Block) + (n % Block)
      BY <3>0, <1>1, Remainders
    <3> DEFINE m == n \div Block
    <3>2. m \in Nat
      BY <3>1
    <3>3. n = Block * m
      <4>1. Block * m \in Nat
        BY <3>2, <1>1, Multiples
      <4> HIDE DEF m
      <4> QED
        BY <4>1, <3>1, <2>3 DEF m
    <3> HIDE DEF m
    <3>4. n - (a + p) < Block /\ (a + p) - n < Block
      BY <2>3, <3>1, <1>1, <1>5
    <3>5. Block * m - Block * (k + 1) < Block /\ Block * (k + 1) - Block * m < Block
      BY <3>3, <3>4, <1>7
    <3>6. m = k + 1
      BY <3>2, <3>5, <1>1, SameMultiple
    <3> QED
      BY <3>3, <3>6, <1>7
  <2> QED
    BY <2>0, <2>1, <2>2, <2>3
<1> HIDE DEF second
<1>13. end = (a + p) + b
  BY <1>1, <1>5, <1>12
<1>14. Len(Tar) % Block = 0
  <2>1. Block * ((k + 1) + (l + 1) + 2) = Block * (k + 1) + Block * (l + 1) + 2 * Block
    BY <1>1
  <2>2. len = Block * ((k + 1) + (l + 1) + 2)
    BY <2>1, <1>7, <1>10
  <2>3. (k + 1) + (l + 1) + 2 \in Nat
    OBVIOUS
  <2> QED
    BY <2>2, <2>3, <1>1, Multiples
<1> HIDE DEF e, g, p, q, len, a, b, end
<1>15. len >= end + 2 * Block
  BY <1>1, <1>5, <1>10, <1>13
<1>16. SubSeq(Tar, 1, a) = TarHeader("media") \o Content("media")
  <2> DEFINE hc == TarHeader("media") \o Content("media")
             s == SubSeq(Tar, 1, a)
  <2>1. s \in Seq(Cells) /\ Len(s) = a /\ \A i \in 1 .. a : s[i] = Tar[i]
    BY <1>1, <1>5, <1>10 DEF len
  <2>2. hc \in Seq(Cells) /\ Len(hc) = a
    BY <1>8
  <2>3. \A i \in 1 .. a : e[i] = hc[i]
    BY <1>8
  <2> HIDE DEF hc, s
  <2>4. ASSUME NEW i \in 1 .. a
        PROVE  Tar[i] = hc[i]
    <3>1. i \in 1 .. (a + p)
      BY <1>5, <2>4
    <3> QED
      BY <3>1, <1>10, <2>3, <2>4
  <2>5. s = hc
    BY <2>1, <2>2, <2>4
  <2> QED
    BY <2>5 DEF s, hc
<1>17. SubSeq(Tar, second + 1, end) = TarHeader("info") \o Content("info")
  <2> DEFINE hc == TarHeader("info") \o Content("info")
             s == SubSeq(Tar, second + 1, end)
  <2>1. s \in Seq(Cells) /\ Len(s) = b /\ \A i \in 1 .. b : s[i] = Tar[(a + p) + i]
    BY <1>1, <1>5, <1>10, <1>12, <1>13 DEF len
  <2>2. \A i \in 1 .. b : Tar[(a + p) + i] = g[i]
    <3> SUFFICES ASSUME NEW i \in 1 .. b PROVE Tar[(a + p) + i] = g[i]
      OBVIOUS
    <3>1. (a + p) + i \in ((a + p) + 1) .. ((a + p) + (b + q)) /\ ((a + p) + i) - (a + p) = i
      BY <1>5
    <3> QED
      BY <3>1, <1>10
  <2>3. hc \in Seq(Cells) /\ Len(hc) = b /\ \A i \in 1 .. b : hc[i] = g[i]
    BY <1>5, <1>9
  <2> HIDE DEF hc, s
  <2>4. s = hc
    BY <2>1, <2>2, <2>3
  <2> QED
    BY <2>4 DEF s, hc
<1>18. \A i \in (a + 1) .. second : Tar[i].part = "zero"
  <2> SUFFICES ASSUME NEW i \in (a + 1) .. second PROVE Tar[i].part = "zero"
    OBVIOUS
  <2>1. i \in (a + 1) .. (a + p) /\ i \in 1 .. (a + p)
    BY <1>5, <1>12
  <2>2. Tar[i] = e[i]
    BY <2>1, <1>10
  <2>3. e[i].part = "zero"
    BY <2>1, <1>8
  <2> QED
    BY <2>2, <2>3
<1>19. \A i \in (end + 1) .. len : Tar[i].part = "zero"
  <2> SUFFICES ASSUME NEW i \in (end + 1) .. len PROVE Tar[i].part = "zero"
    OBVIOUS
  <2>1. i \in Int /\ i >= (a + p) + b + 1 /\ i <= (a + p) + (b + q) + 2 * Block
    BY <1>1, <1>5, <1>10, <1>13
  <2>2. CASE i <= (a + p) + (b + q)
    <3>1. i \in ((a + p) + 1) .. ((a + p) + (b + q)) /\ i - (a + p) \in (b + 1) .. (b + q)
      BY <1>5, <2>1, <2>2
    <3> QED
      BY <3>1, <1>9, <1>10
  <2>3. CASE i > (a + p) + (b + q)
    <3>1. i \in ((a + p) + (b + q) + 1) .. ((a + p) + (b + q) + 2 * Block)
      BY <1>1, <1>5, <2>1, <2>3
    <3> QED
      BY <3>1, <1>10
  <2> QED
    BY <2>1, <2>2, <2>3, <1>5
<1> QED
  BY <1>14, <1>15, <1>16, <1>17, <1>18, <1>19 DEF IsTar, second, end, a, len

\* What is sent of a request is a list of cells, as long as its length says.
LEMMA BytesCounted ==
  ASSUME size \in Sizes, NEW what \in {"media", "info", "archive"}
  PROVE  Bytes(what) \in Seq(Cells) /\ Len(Bytes(what)) = LenOf(what) /\ LenOf(what) \in Nat
<1>1. CASE what = "archive"
  BY <1>1, TarLength DEF Bytes, LenOf
<1>2. CASE what \in Files
  BY <1>2, Pieces DEF Bytes, LenOf, Files
<1> QED
  BY <1>1, <1>2 DEF Files

------------------------------------------------------------------------------
(* Ranges *)

\* A range that is served holds the positions that were asked for and no other;
\* one that is refused with 416 asked for none.
LEMMA RangeExact ==
  ASSUME NEW h \in RangeHeader, NEW len \in Nat
  PROVE  LET p == ParseRange(h, len)
         IN  /\ p.status \in {200, 206, 400, 416}
             /\ p.status = 200 => h.form = "none"
             /\ p.status = 206 =>
                  /\ h.form = "pair" /\ p.first \in 0 .. (len - 1)
                  /\ p.last \in p.first .. (len - 1)
                  /\ Selected(h, len) = p.first .. p.last
             /\ p.status = 416 /\ h.form = "pair" => Selected(h, len) = {} \/ len = 0
<1> DEFINE p == ParseRange(h, len)
<1>1. CASE h.form # "pair" \/ len = 0
  <2>1. h.form \in {"none", "unit", "several", "nodash", "pair"}
    BY DEF RangeHeader
  <2> QED
    BY <1>1, <2>1 DEF ParseRange, Whole, Refused
<1>2. CASE h.form = "pair" /\ len > 0 /\ h.first = NoBound
  <2>1. p = SuffixRange(h.last, len)
    BY <1>2 DEF ParseRange
  <2>2. Selected(h, len) = {i \in 0 .. (len - 1) : i + h.last >= len}
    BY <1>2 DEF Selected
  <2>3. CASE h.last \notin Numbers
    BY <2>1, <2>3, <1>2 DEF SuffixRange, Refused
  <2>4. CASE h.last = 0
    BY <2>1, <2>2, <2>4, <1>2 DEF SuffixRange, Refused
  <2>5. CASE h.last \in Numbers /\ h.last # 0
    <3>1. h.last \in Nat \ {0}
      BY <2>5, ArtifactsAssumption
    <3>2. p = Part(len - Smaller(h.last, len), len - 1)
      BY <2>1, <2>5 DEF SuffixRange
    <3>3. p.status = 206 /\ p.first = len - Smaller(h.last, len) /\ p.last = len - 1
      BY <3>2 DEF Part
    <3> HIDE DEF p
    <3>4. p.first \in 0 .. (len - 1) /\ p.first = IF h.last < len THEN len - h.last ELSE 0
      BY <3>1, <3>3, <1>2 DEF Smaller
    <3>5. Selected(h, len) = p.first .. p.last
      BY <2>2, <3>1, <3>3, <3>4
    <3> QED
      BY <3>3, <3>4, <3>5, <1>2 DEF p
  <2> QED
    BY <2>3, <2>4, <2>5
<1>3. CASE h.form = "pair" /\ len > 0 /\ h.first # NoBound
  <2> DEFINE end == IF h.last = NoBound THEN len - 1 ELSE h.last
  <2>1. p = ExplicitRange(h.first, h.last, len)
    BY <1>3 DEF ParseRange
  <2>2. Selected(h, len) =
          {i \in 0 .. (len - 1) : i >= h.first /\ (h.last = NoBound \/ i <= h.last)}
    BY <1>3 DEF Selected
  <2>3. CASE h.first \notin Numbers \/ h.last = NotANumber
    BY <2>1, <2>3, <1>3 DEF ExplicitRange, Refused
  <2>4. CASE h.first \in Numbers /\ h.last # NotANumber
    <3>1. h.first \in Nat /\ (h.last = NoBound \/ h.last \in Nat)
      BY <2>4, <1>3, ArtifactsAssumption DEF RangeHeader, Bound
    <3>2. Selected(h, len) = {i \in 0 .. (len - 1) : i >= h.first /\ i <= end}
      BY <2>2, <3>1
    <3>3. end \in Int /\ (h.last = NoBound => end = len - 1)
      BY <3>1
    <3>4. p = IF h.first > end \/ h.first >= len THEN Refused(416)
              ELSE Part(h.first, Smaller(end, len - 1))
      BY <2>1, <2>4 DEF ExplicitRange
    <3> HIDE DEF end
    <3>5. CASE h.first > end \/ h.first >= len
      <4>1. Selected(h, len) = {}
        BY <3>1, <3>2, <3>3, <3>5
      <4> QED
        BY <4>1, <3>4, <3>5 DEF Refused
    <3>6. CASE ~(h.first > end \/ h.first >= len)
      <4>1. p.status = 206 /\ p.first = h.first /\ p.last = Smaller(end, len - 1)
        BY <3>4, <3>6 DEF Part
      <4> HIDE DEF p
      <4>2. p.last = IF end < len - 1 THEN end ELSE len - 1
        BY <4>1 DEF Smaller
      <4>3. p.first \in 0 .. (len - 1) /\ p.last \in p.first .. (len - 1)
        BY <4>1, <4>2, <3>1, <3>3, <3>6
      <4>4. Selected(h, len) = p.first .. p.last
        BY <4>1, <4>2, <3>1, <3>2, <3>3, <3>6
      <4> QED
        BY <4>1, <4>3, <4>4, <1>3 DEF p
    <3> QED
      BY <3>5, <3>6
  <2> QED
    BY <2>3, <2>4
<1> QED
  BY <1>1, <1>2, <1>3

\* The answer to a request that was served is exact.
LEMMA ServedExactly ==
  ASSUME size \in Sizes, NEW r \in ReadRequests, answer = Final(r)
  PROVE  AnswersExact
<1> DEFINE range == IF r.what = "info" THEN Whole ELSE ParseRange(r.range, LenOf(r.what))
           wanted == Selected(r.range, LenOf(r.what))
<1>1. CASE r.what = "artifacts"
  <2>1. /\ answer.request = r /\ answer.status = 200 /\ answer.length = TarLen
        /\ answer.body = <<>>
    BY <1>1 DEF Final, Reply
  <2> QED
    BY <1>1, <2>1, TarLength DEF AnswersExact
<1>2. CASE r.what # "artifacts"
  <2>0. r.what \in {"media", "info", "archive"} /\ r.range \in RangeHeader /\ r.head \in BOOLEAN
    BY <1>2 DEF ReadRequests
  <2> DEFINE content == Bytes(r.what)
             len == LenOf(r.what)
  <2>1. content \in Seq(Cells) /\ Len(content) = len /\ len \in Nat
    BY <2>0, BytesCounted
  <2>2. /\ answer.request = r /\ answer.status = range.status
        /\ answer.length = IF range.status = 206 THEN range.last - range.first + 1 ELSE len
        /\ answer.body = IF r.head THEN <<>>
                         ELSE IF range.status = 206 THEN Slice(content, range) ELSE content
    BY <1>2 DEF Final, Serve, Reply, AnnouncedLength
  <2>3. /\ range.status \in {200, 206, 400, 416}
        /\ range.status = 206 =>
             /\ r.range.form = "pair"
             /\ range.first \in 0 .. (len - 1) /\ range.last \in range.first .. (len - 1)
             /\ wanted = range.first .. range.last
        /\ range.status = 416 /\ r.range.form = "pair" => wanted = {} \/ len = 0
    <3>1. CASE r.what = "info"
      BY <3>1 DEF Whole
    <3>2. CASE r.what # "info"
      BY <3>2, <2>0, <2>1, RangeExact
    <3> QED
      BY <3>1, <3>2
  <2>4. r.what = "archive" => content = Tar
    BY DEF Bytes
  <2>5. IsTar(Tar)
    BY TarReadable
  <2> HIDE DEF range, content, len, wanted
  <2>6. CASE range.status = 206
    <3>1. /\ range.first \in Nat /\ range.last \in Nat /\ range.first <= range.last
          /\ range.last < len /\ wanted = range.first .. range.last
      BY <2>1, <2>3, <2>6
    <3> DEFINE first == range.first
               last == range.last
               body == Slice(content, range)
    <3>a. /\ first \in Nat /\ last \in Nat /\ first <= last /\ last < len
          /\ wanted = first .. last
      BY <3>1
    <3>b. body = SubSeq(content, first + 1, last + 1)
      BY DEF Slice
    <3> HIDE DEF first, last, body
    <3>c. Cardinality(first .. last) = last - first + 1
      BY <3>a, FS_Interval
    <3>d. Cardinality(wanted) = last - first + 1 /\ wanted # {}
      <4>1. Cardinality(wanted) = Cardinality(first .. last)
        BY <3>a, Zenon
      <4>2. first \in wanted
        BY <3>a
      <4> QED
        BY <4>1, <4>2, <3>c
    <3>e. /\ body \in Seq(Cells) /\ Len(body) = last - first + 1
          /\ \A k \in 1 .. (last - first + 1) : body[k] = content[first + k]
      BY <2>1, <3>a, <3>b
    <3>2. Cardinality(wanted) = range.last - range.first + 1 /\ wanted # {}
      BY <3>d DEF first, last
    <3>3. /\ body \in Seq(Cells) /\ Len(body) = range.last - range.first + 1
          /\ \A k \in 1 .. (range.last - range.first + 1) : body[k] = content[range.first + k]
      BY <3>e DEF first, last
    <3>4. \A i \in wanted : \E k \in DOMAIN body : body[k] = content[i + 1]
      <4> SUFFICES ASSUME NEW i \in wanted PROVE \E k \in DOMAIN body : body[k] = content[i + 1]
        OBVIOUS
      <4> DEFINE k == i - range.first + 1
      <4>1. k \in 1 .. (range.last - range.first + 1) /\ range.first + k = i + 1
        BY <3>1
      <4>2. DOMAIN body = 1 .. (range.last - range.first + 1)
        BY <3>3
      <4> HIDE DEF k
      <4> QED
        BY <4>1, <4>2, <3>3
    <3>5. answer.status = 206 /\ answer.length = Cardinality(wanted)
      BY <2>2, <2>6, <3>2
    <3>6. r.head => answer.body = <<>>
      BY <2>2
    <3>7. ~r.head => answer.body = body
      BY <2>2, <2>6 DEF body
    <3>8. r.what = "archive" /\ answer.body = Tar => IsTar(answer.body)
      BY <2>5
    <3>9. r.range.form = "pair"
      BY <2>3, <2>6
    <3>10. Len(body) = answer.length
      BY <3>2, <3>3, <3>5
    <3> HIDE DEF IsTar, Tar
    <3> QED
      BY <2>2, <3>2, <3>4, <3>5, <3>6, <3>7, <3>8, <3>9, <3>10
      DEF AnswersExact, wanted, content, len
  <2>7. CASE range.status = 200
    <3>1. answer.status = 200 /\ answer.length = Len(content)
      BY <2>1, <2>2, <2>7
    <3>2. (r.head => answer.body = <<>>) /\ (~r.head => answer.body = content)
      BY <2>2, <2>7
    <3> QED
      BY <1>2, <2>2, <2>5, <3>1, <3>2 DEF AnswersExact, content
  <2>8. CASE range.status \in {400, 416}
    <3>1. answer.request = r /\ answer.status = range.status
      BY <2>2
    <3> QED
      BY <3>1, <2>3, <2>8 DEF AnswersExact, wanted, len
  <2> QED
    BY <2>3, <2>6, <2>7, <2>8
<1> QED
  BY <1>1, <1>2

------------------------------------------------------------------------------
(* The invariant *)

\* How a request may fail, and what it uses a file for.
Failures == {304, 400, 404, 409, 416, 500}
Uses == {"open", "hash", "len", "load", "tar"}

\* How a request is answered: at its end, or with an error, 416 only for its range.
Replied(r, a) ==
  \/ a = Final(r)
  \/ \E status \in Failures : a = Nothing(r, status) /\ (status = 416 => RangeError(r) = 416)

\* What holds of every reachable state.
ReadsInv ==
  /\ ArtifactsTypeOK
  /\ read # NoRead => read.plan \in Seq(Files \X Uses)
  /\ answer # NoRead => \E r \in ReadRequests : Replied(r, answer)

\* An answer of either kind is exact.
LEMMA RepliesExact ==
  ASSUME ReadsInv
  PROVE  AnswersExact
<1> SUFFICES ASSUME answer # NoRead PROVE AnswersExact
  BY DEF AnswersExact
<1>1. PICK r \in ReadRequests : Replied(r, answer)
  BY DEF ReadsInv
<1>2. size \in Sizes
  BY DEF ReadsInv, ArtifactsTypeOK, Sizes
<1>3. CASE answer = Final(r)
  BY <1>2, <1>3, ServedExactly
<1>4. ASSUME NEW status \in Failures, answer = Nothing(r, status),
             status = 416 => RangeError(r) = 416
      PROVE  AnswersExact
  <2>1. answer.request = r /\ answer.status = status
    BY <1>4 DEF Nothing, Reply
  <2>2. CASE status # 416
    BY <2>1, <2>2 DEF AnswersExact, Failures
  <2>3. CASE status = 416
    <3>1. ParseRange(r.range, LenOf(r.what)).status = 416
      BY <1>4, <2>3 DEF RangeError
    <3>2. CASE r.what = "artifacts"
      <4>1. r.range.form = "none"
        <5>1. r.range \in {[form |-> "none", first |-> NoBound, last |-> NoBound]}
          BY <3>2 DEF ReadRequests
        <5> QED
          BY <5>1
      <4>2. ParseRange(r.range, LenOf(r.what)) = Whole
        BY <4>1 DEF ParseRange
      <4> QED
        BY <4>2, <3>1 DEF Whole
    <3>3. CASE r.what # "artifacts"
      <4>1. r.what \in {"media", "info", "archive"} /\ r.range \in RangeHeader
        BY <3>3 DEF ReadRequests
      <4>2. LenOf(r.what) \in Nat
        BY <1>2, <4>1, BytesCounted
      <4>3. r.range.form = "pair" =>
              Selected(r.range, LenOf(r.what)) = {} \/ LenOf(r.what) = 0
        BY <3>1, <4>1, <4>2, RangeExact
      <4> QED
        BY <2>1, <2>3, <4>3 DEF AnswersExact
    <3> QED
      BY <3>2, <3>3
  <2> QED
    BY <2>2, <2>3
<1> QED
  BY <1>1, <1>3, <1>4 DEF Replied

\* As long as the sizes stay, so does what a request is answered.
LEMMA SizesKept ==
  ASSUME UNCHANGED size, NEW r
  PROVE  Final(r)' = Final(r) /\ RangeError(r)' = RangeError(r)
<1>1. \A f : Content(f)' = Content(f)
  BY DEF Content
<1>2. \A f : TarEntry(f)' = TarEntry(f)
  BY <1>1 DEF TarEntry
<1>3. Tar' = Tar
  BY <1>2 DEF Tar
<1>4. TarLen' = TarLen
  BY DEF TarLen
<1>5. LenOf(r.what)' = LenOf(r.what)
  BY <1>4 DEF LenOf
<1>6. Bytes(r.what)' = Bytes(r.what)
  BY <1>1, <1>3 DEF Bytes
<1>7. RangeError(r)' = RangeError(r)
  BY <1>5 DEF RangeError
<1>8. Serve(r)' = Serve(r)
  BY <1>5, <1>6 DEF Serve, AnnouncedLength
<1> QED
  BY <1>4, <1>7, <1>8 DEF Final

\* Lists of the lengths that plans have.
LEMMA ShortLists ==
  ASSUME NEW S, NEW a \in S, NEW b \in S, NEW c \in S, NEW d \in S, NEW e \in S, NEW f \in S
  PROVE  /\ <<a, b>> \in Seq(S) /\ <<a, b>> # <<>>
         /\ <<a, b, c, d>> \in Seq(S) /\ Len(<<a, b, c, d>>) = 4
         /\ <<a, b, c, d, e, f>> \in Seq(S) /\ <<a, b, c, d, e, f>> # <<>>
OBVIOUS

\* When a list is empty.
LEMMA EmptyList ==
  ASSUME NEW S, NEW s \in Seq(S)
  PROVE  s = <<>> <=> Len(s) = 0
OBVIOUS

\* A longer list is not empty either.
LEMMA LongerList ==
  ASSUME NEW S, NEW s \in Seq(S), Len(s) = 4, NEW t \in Seq(S)
  PROVE  s \o t \in Seq(S) /\ s \o t # <<>>
<1>1. s \o t \in Seq(S)
  BY Concatenation
<1>2. Len(s \o t) = Len(s) + Len(t)
  BY Concatenation
<1>3. Len(t) \in Nat
  OBVIOUS
<1>4. Len(s \o t) # 0
  BY <1>2, <1>3
<1> QED
  BY <1>1, <1>4, EmptyList

\* What is left of a plan that has more than one file to go.
LEMMA ShorterList ==
  ASSUME NEW S, NEW s \in Seq(S), s # <<>>, Len(s) # 1
  PROVE  Tail(s) \in Seq(S) /\ Tail(s) # <<>>
<1> DEFINE n == Len(s)
<1>1. n \in Nat /\ n # 1
  OBVIOUS
<1>2. n # 0
  BY EmptyList
<1> HIDE DEF n
<1>3. n > 1
  BY <1>1, <1>2
<1>4. Len(s) > 1
  BY <1>3 DEF n
<1>5. Tail(s) \in Seq(S)
  BY <1>4
<1>6. Len(Tail(s)) = Len(s) - 1
  BY <1>4
<1>7. Len(Tail(s)) # 0
  BY <1>3, <1>6 DEF n
<1> QED
  BY <1>5, <1>7, EmptyList

\* The plan of a request is a list of files, and not an empty one.
LEMMA PlanType ==
  ASSUME NEW r \in ReadRequests
  PROVE  Plan(r) \in Seq(Files \X Uses) /\ Plan(r) # <<>>
<1>1. r.what \in {"media", "info", "archive", "artifacts"}
  BY DEF ReadRequests
<1> DEFINE S == Files \X Uses
<1>2. \A f \in Files, u \in Uses : <<f, u>> \in S
  OBVIOUS
<1>3. /\ "media" \in Files /\ "info" \in Files
      /\ \A u \in {"open", "hash", "len", "load", "tar"} : u \in Uses
  BY DEF Files, Uses
<1> HIDE DEF S
<1>4. CASE r.what = "media"
  BY <1>2, <1>3, <1>4, ShortLists DEF Plan
<1>5. CASE r.what = "info"
  <2>1. \/ Plan(r) = << <<"info", "len">>, <<"info", "hash">> >>
        \/ Plan(r) = << <<"info", "hash">>, <<"info", "load">> >>
    BY <1>5 DEF ReadRequests, Plan
  <2>2. Plan(r) \in Seq(S) /\ Plan(r) # <<>>
    BY <2>1, <1>2, <1>3, ShortLists
  <2> QED
    BY <2>2 DEF S
<1>6. CASE r.what = "archive"
  <2> DEFINE s == << <<"media", "tar">>, <<"info", "tar">>, <<"media", "len">>,
                     <<"info", "len">> >>
             u == << <<"media", "load">>, <<"info", "load">> >>
  <2>1. Plan(r) \in {s \o <<>>, s \o u}
    BY <1>6 DEF Plan
  <2>2. s \in Seq(S) /\ Len(s) = 4 /\ u \in Seq(S) /\ <<>> \in Seq(S)
    BY <1>2, <1>3, ShortLists
  <2> HIDE DEF s, u
  <2>3. \A t \in Seq(S) : s \o t \in Seq(S) /\ s \o t # <<>>
    BY <2>2, LongerList
  <2> QED
    BY <2>1, <2>2, <2>3 DEF S
<1>7. CASE r.what = "artifacts"
  BY <1>2, <1>3, <1>7, ShortLists DEF Plan
<1> QED
  BY <1>1, <1>4, <1>5, <1>6, <1>7 DEF S

\* Before the first request nothing is read and nothing answered.
THEOREM ReadsInitially == ArtifactsInit => ReadsInv
BY DEF ArtifactsInit, ReadsInv, ArtifactsTypeOK, Files

\* The status of a whole answer is one the type invariant lists.
LEMMA FinalStatus ==
  ASSUME size \in Sizes, NEW r \in ReadRequests
  PROVE  Final(r).status \in {200, 206, 400, 416}
<1>1. CASE r.what \in {"artifacts", "info"}
  BY <1>1 DEF Final, Serve, Reply, Whole
<1>2. CASE r.what \in {"media", "archive"}
  <2>1. LenOf(r.what) \in Nat /\ r.range \in RangeHeader
    BY <1>2, BytesCounted DEF ReadRequests
  <2> QED
    BY <1>2, <2>1, RangeExact DEF Final, Serve, Reply
<1> QED
  BY <1>1, <1>2 DEF ReadRequests

\* What a step answers before the end of the plan is an error.
LEMMA VerdictIsError ==
  ASSUME NEW r, NEW step \in Files \X Uses, Verdict(r, step) # 0
  PROVE  Verdict(r, step) \in Failures /\ (Verdict(r, step) = 416 => RangeError(r) = 416)
<1>1. RangeError(r) \in {0, 400, 416}
  BY DEF RangeError
<1>2. step[2] \in Uses
  OBVIOUS
<1>3. step[2] = "open" \/ step[2] = "len" => Verdict(r, step) \in {0, 500, RangeError(r)}
  BY DEF Verdict
<1>4. step[2] = "hash" \/ step[2] = "tar" => Verdict(r, step) \in {0, 304, 500}
  BY DEF Verdict
<1>5. step[2] = "load" => Verdict(r, step) = 0
  BY DEF Verdict
<1> QED
  BY <1>1, <1>2, <1>3, <1>4, <1>5 DEF Uses, Failures

\* A step of a read that fails or ends it answers as Replied says.
LEMMA TouchReplies ==
  ASSUME ReadsInv, Touch, NEW r \in ReadRequests, r = read.request
  PROVE  \/ answer' = answer /\ read' = [read EXCEPT !.plan = Tail(@)] /\ Len(read.plan) # 1
         \/ read' = NoRead /\ Replied(r, answer')
<1> DEFINE step == Head(read.plan)
<1>1. read # NoRead /\ read.plan \in Seq(Files \X Uses) /\ read.plan # <<>>
  BY DEF ReadsInv, ArtifactsTypeOK, Touch
<1>2. step \in Files \X Uses
  BY <1>1
<1>3. \/ answer' = Nothing(r, 404) /\ read' = NoRead
      \/ /\ answer' = Nothing(r, Verdict(r, step)) /\ read' = NoRead
         /\ Verdict(r, step) # 0
      \/ answer' = Final(r) /\ read' = NoRead
      \/ /\ answer' = answer /\ read' = [read EXCEPT !.plan = Tail(@)]
         /\ Len(read.plan) # 1
  BY DEF Touch
<1> HIDE DEF step
<1>4. CASE answer' = Nothing(r, 404) /\ read' = NoRead
  BY <1>4 DEF Replied, Failures
<1>5. CASE /\ answer' = Nothing(r, Verdict(r, step)) /\ read' = NoRead
           /\ Verdict(r, step) # 0
  BY <1>2, <1>5, VerdictIsError DEF Replied
<1>6. CASE answer' = Final(r) /\ read' = NoRead
  BY <1>6 DEF Replied
<1> QED
  BY <1>3, <1>4, <1>5, <1>6

\* An answer that Replied describes has a status of the type invariant.
LEMMA RepliedStatus ==
  ASSUME size \in Sizes, NEW r \in ReadRequests, NEW a, Replied(r, a)
  PROVE  a.status \in {200, 206, 304, 400, 404, 409, 416, 500}
<1>1. CASE a = Final(r)
  BY <1>1, FinalStatus
<1>2. CASE \E status \in Failures : a = Nothing(r, status)
  BY <1>2 DEF Nothing, Reply, Failures
<1> QED
  BY <1>1, <1>2 DEF Replied

\* Every step preserves the invariant.
THEOREM ReadsStep == ReadsInv /\ [ArtifactsNext]_artifacts => ReadsInv'
<1> SUFFICES ASSUME ReadsInv, [ArtifactsNext]_artifacts PROVE ReadsInv'
  OBVIOUS
<1> USE DEF ReadsInv, ArtifactsTypeOK, Sizes
<1>1. ASSUME UNCHANGED <<size, fits, inside, job, disk, removing>>,
             read' # NoRead => /\ read'.request \in ReadRequests /\ read'.plan # <<>>
                               /\ read'.plan \in Seq(Files \X Uses),
             answer' # NoRead => \E r \in ReadRequests : Replied(r, answer')
      PROVE  ReadsInv'
  <2>1. answer' # NoRead => /\ \E r \in ReadRequests : Replied(r, answer)'
                            /\ answer'.status \in {200, 206, 304, 400, 404, 409, 416, 500}
    <3> SUFFICES ASSUME answer' # NoRead
                 PROVE  /\ \E r \in ReadRequests : Replied(r, answer)'
                        /\ answer'.status \in {200, 206, 304, 400, 404, 409, 416, 500}
      OBVIOUS
    <3>1. PICK r \in ReadRequests : Replied(r, answer')
      BY <1>1
    <3>2. size \in Sizes /\ UNCHANGED size
      BY <1>1
    <3>3. answer'.status \in {200, 206, 304, 400, 404, 409, 416, 500}
      BY <3>1, <3>2, RepliedStatus
    <3>4. Replied(r, answer)'
      BY <3>1, <3>2, SizesKept DEF Replied, Nothing, Reply
    <3> QED
      BY <3>3, <3>4
  <2> QED
    BY <1>1, <2>1
<1>2. ASSUME NEW r \in ReadRequests, Ask(r)
      PROVE  ReadsInv'
  <2>1. /\ UNCHANGED <<size, fits, inside, job, disk, removing>>
        /\ \/ \E status \in Failures \ {416} : answer' = Nothing(r, status) /\ read' = read
           \/ read' = [request |-> r, plan |-> Plan(r)] /\ answer' = answer
    BY <1>2 DEF Ask, Failures
  <2>2. answer' # NoRead => \E q \in ReadRequests : Replied(q, answer')
    BY <2>1 DEF Replied
  <2>3. read' # NoRead => /\ read'.request \in ReadRequests /\ read'.plan # <<>>
                          /\ read'.plan \in Seq(Files \X Uses)
    BY <2>1, PlanType
  <2> QED
    BY <1>1, <2>1, <2>2, <2>3
<1>3. CASE Touch
  <2>1. UNCHANGED <<size, fits, inside, job, disk, removing>> /\ read # NoRead
    BY <1>3 DEF Touch
  <2>2. PICK r \in ReadRequests : r = read.request
    BY <2>1
  <2>3. \/ answer' = answer /\ read' = [read EXCEPT !.plan = Tail(@)] /\ Len(read.plan) # 1
        \/ read' = NoRead /\ Replied(r, answer')
    BY <1>3, <2>2, TouchReplies
  <2>4. CASE answer' = answer /\ read' = [read EXCEPT !.plan = Tail(@)] /\ Len(read.plan) # 1
    <3>1. read.plan \in Seq(Files \X Uses) /\ read.plan # <<>>
      BY <2>1
    <3>2. Tail(read.plan) \in Seq(Files \X Uses) /\ Tail(read.plan) # <<>>
      <4> DEFINE S == Files \X Uses
                 s == read.plan
      <4>1. s \in Seq(S) /\ s # <<>> /\ Len(s) # 1
        BY <3>1, <2>4
      <4> HIDE DEF S, s
      <4>2. Tail(s) \in Seq(S) /\ Tail(s) # <<>>
        BY <4>1, ShorterList
      <4> QED
        BY <4>2 DEF S, s
    <3>3. read'.plan = Tail(read.plan) /\ read'.request = read.request
      BY <2>4
    <3> QED
      BY <1>1, <2>1, <2>4, <3>2, <3>3
  <2>5. CASE read' = NoRead /\ Replied(r, answer')
    BY <1>1, <2>1, <2>5
  <2> QED
    BY <2>3, <2>4, <2>5
<1>4. CASE Deliver
  BY <1>1, <1>4 DEF Deliver
<1>5. ASSUME UNCHANGED <<size, fits, inside, read, answer>>,
             job' \in {"none", "running", "succeeded", "deleted"}, disk' \subseteq Files,
             removing' \in BOOLEAN
      PROVE  ReadsInv'
  <2>1. answer' # NoRead => \E r \in ReadRequests : Replied(r, answer)'
    <3> SUFFICES ASSUME answer' # NoRead PROVE \E r \in ReadRequests : Replied(r, answer)'
      OBVIOUS
    <3>1. PICK r \in ReadRequests : Replied(r, answer)
      BY <1>5
    <3>2. Replied(r, answer)'
      BY <1>5, <3>1, SizesKept DEF Replied, Nothing, Reply
    <3> QED
      BY <3>2
  <2> QED
    BY <1>5, <2>1
<1>6. CASE AcceptJob \/ CompleteJob \/ StartRemoval \/ EndRemoval
  <2>1. /\ UNCHANGED <<size, fits, inside, read, answer>> /\ removing' \in BOOLEAN
        /\ job' \in {"none", "running", "succeeded", "deleted"} /\ disk' \subseteq Files
    <3>1. AcceptJob => /\ job' = "running"
                      /\ UNCHANGED <<size, fits, inside, disk, removing, read, answer>>
      BY DEF AcceptJob
    <3>2. CompleteJob => /\ job' = "succeeded" /\ disk' = Files
                         /\ UNCHANGED <<size, fits, inside, removing, read, answer>>
      BY DEF CompleteJob
    <3>3. StartRemoval => /\ removing' = TRUE
                         /\ UNCHANGED <<size, fits, inside, job, disk, read, answer>>
      BY DEF StartRemoval
    <3>4. EndRemoval => /\ job' = "deleted" /\ removing' = FALSE
                        /\ UNCHANGED <<size, fits, inside, disk, read, answer>>
      BY DEF EndRemoval
    <3>5. /\ removing \in BOOLEAN /\ disk \subseteq Files
          /\ job \in {"none", "running", "succeeded", "deleted"}
      OBVIOUS
    <3> HIDE DEF ReadsInv, ArtifactsTypeOK
    <3> QED
      BY <1>6, <3>1, <3>2, <3>3, <3>4, <3>5
  <2> QED
    BY <1>5, <2>1
<1>7. ASSUME NEW f \in Files, RemoveFile(f)
      PROVE  ReadsInv'
  BY <1>5, <1>7 DEF RemoveFile
<1>8. CASE UNCHANGED artifacts
  BY <1>5, <1>8 DEF artifacts
<1> QED
  BY <1>2, <1>3, <1>4, <1>6, <1>7, <1>8 DEF ArtifactsNext

\* In every reachable state of a server that accepts, completes and removes the job
\* while requests read its files, a request in progress has a plan, and an answer is
\* the whole answer to some request or an error (the media, info and archive handlers).
THEOREM ReadsInvariant == ArtifactsSpec => []ReadsInv
BY ReadsInitially, ReadsStep, PTL DEF ArtifactsSpec

\* The variables keep their types, for any sizes and requests.
THEOREM ReadsTypes == ArtifactsSpec => []ArtifactsTypeOK
<1>1. ReadsInv => ArtifactsTypeOK
  BY DEF ReadsInv
<1> QED
  BY <1>1, ReadsInvariant, PTL

\* A read that succeeds returns exactly the bytes its range selects of the file or of
\* the archive, announces their number, and refuses a range with 416 only if the range
\* selects nothing, for files of any size and any archive block (parse_range,
\* stream_artifact_response, write_tar_entry): see AnswersExact.
THEOREM ReadsExact == ArtifactsSpec => []AnswersExact
BY ReadsInvariant, RepliesExact, PTL

------------------------------------------------------------------------------
(* Cleanup: what jobs weigh *)

\* What the jobs of a set weigh, for given sizes: Total without the variable.
Shares(b, jobs) == [j \in Downloads |-> IF j \in jobs THEN b[j] ELSE 0]
Weight(b, jobs) == SumOf(Shares(b, jobs))
Sized == [Downloads -> Nat]

\* The shares are a list of numbers, one for each job.
LEMMA SharesType ==
  ASSUME NEW b \in Sized, NEW jobs
  PROVE  /\ Shares(b, jobs) \in Seq(Nat) /\ Len(Shares(b, jobs)) = Cardinality(Downloads)
         /\ Cardinality(Downloads) \in Nat /\ Downloads = 1 .. Cardinality(Downloads)
         /\ \A j \in Downloads : Shares(b, jobs)[j] = IF j \in jobs THEN b[j] ELSE 0
<1> DEFINE n == Cardinality(Downloads)
<1>1. n \in Nat /\ Downloads = 1 .. n
  BY StorageAssumption, FS_CardinalityType
<1> HIDE DEF n
<1>2. Shares(b, jobs) = [j \in 1 .. n |-> IF j \in jobs THEN b[j] ELSE 0]
  BY <1>1 DEF Shares
<1>3. \A j \in 1 .. n : (IF j \in jobs THEN b[j] ELSE 0) \in Nat
  BY <1>1 DEF Sized
<1>4. Shares(b, jobs) \in Seq(Nat) /\ Len(Shares(b, jobs)) = n
  BY <1>1, <1>2, <1>3
<1>5. \A j \in Downloads : Shares(b, jobs)[j] = IF j \in jobs THEN b[j] ELSE 0
  BY DEF Shares
<1> QED
  BY <1>1, <1>4, <1>5 DEF n

\* A weight is a natural number.
LEMMA WeightType ==
  ASSUME NEW b \in Sized, NEW jobs
  PROVE  Weight(b, jobs) \in Nat
BY SharesType, SumType DEF Weight

\* No jobs weigh nothing.
LEMMA WeightEmpty ==
  ASSUME NEW b \in Sized
  PROVE  Weight(b, {}) = 0
<1> DEFINE a == Shares(b, {})
<1>1. a \in Seq(Nat) /\ \A i \in 1 .. Len(a) : a[i] = 0
  BY SharesType
<1> HIDE DEF a
<1>2. SumOf(a) = 0
  BY <1>1, SumZero
<1> QED
  BY <1>2 DEF Weight, a

\* More jobs weigh no less.
LEMMA WeightMonotone ==
  ASSUME NEW b \in Sized, NEW A, NEW B, A \subseteq B
  PROVE  Weight(b, A) <= Weight(b, B)
<1> DEFINE x == Shares(b, A)
           y == Shares(b, B)
<1>1. x \in Seq(Nat) /\ y \in Seq(Nat) /\ Len(x) = Len(y)
  BY SharesType
<1>2. ASSUME NEW i \in 1 .. Len(x)
      PROVE  x[i] <= y[i]
  <2>1. i \in Downloads
    BY SharesType
  <2>2. b[i] \in Nat
    BY <2>1 DEF Sized
  <2>3. x[i] = (IF i \in A THEN b[i] ELSE 0) /\ y[i] = IF i \in B THEN b[i] ELSE 0
    BY <2>1, SharesType
  <2> HIDE DEF x, y
  <2> QED
    BY <2>2, <2>3
<1> HIDE DEF x, y
<1>3. SumOf(x) <= SumOf(y)
  BY <1>1, <1>2, SumMonotone
<1> QED
  BY <1>3 DEF x, y, Weight

\* Without one of them, jobs weigh less by what that one weighs.
LEMMA WeightWithout ==
  ASSUME NEW b \in Sized, NEW A, NEW j \in Downloads, j \in A
  PROVE  Weight(b, A) = Weight(b, A \ {j}) + b[j]
<1> DEFINE x == Shares(b, A)
           y == Shares(b, A \ {j})
           k == Cardinality(Downloads)
<1>1. k \in Nat /\ Downloads = 1 .. k /\ Len(x) = k /\ Len(y) = k
  BY SharesType
<1>2. /\ \A i \in Downloads : x[i] = IF i \in A THEN b[i] ELSE 0
      /\ \A i \in Downloads : y[i] = IF i \in A \ {j} THEN b[i] ELSE 0
      /\ \A i \in Downloads : b[i] \in Nat
  BY SharesType DEF Sized
<1> HIDE DEF x, y, k
<1>3. \A i \in 1 .. k : x[i] \in Nat /\ y[i] \in Nat /\ (i # j => x[i] = y[i])
  BY <1>1, <1>2
<1>4. SumOf(x) + y[j] = SumOf(y) + x[j]
  BY <1>1, <1>3, SumChanged
<1>5. y[j] = 0 /\ x[j] = b[j] /\ b[j] \in Nat
  BY <1>2
<1>6. SumOf(x) \in Nat /\ SumOf(y) \in Nat
  BY WeightType DEF Weight, x, y
<1>7. SumOf(x) = SumOf(y) + b[j]
  BY <1>4, <1>5, <1>6
<1> QED
  BY <1>7 DEF Weight, x, y

------------------------------------------------------------------------------
(* One sweep *)

Gone(w) == ToSet(w.removed)
\* What is counted and was never to be removed.
Rest(w) == w.counted \ (Gone(w) \cup w.failed \cup ToSet(w.todo))

\* A sweep has removed, failed to remove, and is to remove different jobs of
\* those it counted; it knows what is left of them, and removed none too many.
Balanced(b, w) ==
  /\ Gone(w) \subseteq w.counted /\ w.failed \subseteq w.counted
  /\ ToSet(w.todo) \subseteq w.counted
  /\ Injective(w.todo) /\ ToSet(w.todo) \cap (Gone(w) \cup w.failed) = {}
  /\ w.left = Weight(b, w.counted \ Gone(w))
  /\ w.removed # <<>> => w.left + b[Last(w.removed)] > w.max

\* A worker goes through all it counted, until that is no more than the limit.
AsWorker(max, w) ==
  /\ w.pc # "delete" /\ w.max = max /\ Rest(w) = {}
  /\ w.pc \in {"retain", "over"} => w.todo = <<>> \/ w.left <= w.max
  /\ w.pc = "snapshot" => w = Begun("worker", "snapshot", max)

\* A request spares what its limit has room for, but no room for the last job
\* of its plan as well.
AsRequest(b, w) ==
  /\ w.pc \in {"delete", "over"} /\ (w.pc = "over" => w.todo = <<>>)
  /\ w.max # NoMaximum =>
       /\ w.max \in Nat /\ Weight(b, Rest(w)) <= w.max
       /\ w.todo # <<>> => Weight(b, Rest(w) \cup {Last(w.todo)}) > w.max
  /\ w.max = NoMaximum => w.todo = <<>> /\ w.removed = <<>>

SweepOK(b, max, w) ==
  /\ w \in Sweep
  /\ w.kind = "preview" => w.pc = "over"
  /\ w.kind # "preview" => Balanced(b, w)
  /\ w.kind = "worker" => AsWorker(max, w)
  /\ w.kind = "request" => AsRequest(b, w)

\* What a sweep is after one candidate: Tried, of one sweeper.
After1(b, w, gone) ==
  [w EXCEPT !.todo = Tail(@),
            !.left = IF gone THEN @ - b[Head(w.todo)] ELSE @,
            !.removed = IF gone THEN Append(@, Head(w.todo)) ELSE @,
            !.failed = IF gone THEN @ ELSE @ \cup {Head(w.todo)}]

\* The next candidate keeps a sweep in order, if more than its limit is left.
LEMMA OneMore ==
  ASSUME NEW b \in Sized, NEW max, NEW w, SweepOK(b, max, w), w.kind # "preview",
         w.todo # <<>>, w.pc \in {"remove", "delete"}, w.max \in Nat, w.left > w.max,
         NEW gone \in BOOLEAN, NEW v, v = After1(b, w, gone)
  PROVE  /\ SweepOK(b, max, v)
         /\ gone => Gone(v) = Gone(w) \cup {Head(w.todo)}
         /\ ~gone => Gone(v) = Gone(w)
<1> DEFINE j == Head(w.todo)
           t == Tail(w.todo)
<1>1. /\ w \in Sweep /\ Balanced(b, w) /\ (w.kind = "worker" => AsWorker(max, w))
      /\ (w.kind = "request" => AsRequest(b, w))
  BY DEF SweepOK
<1>2. /\ w.todo \in Seq(Downloads) /\ w.removed \in Seq(Downloads) /\ w.left \in Nat
      /\ w.counted \subseteq Downloads /\ w.failed \subseteq Downloads /\ Injective(w.todo)
  BY <1>1 DEF Sweep, Balanced
<1>3. /\ j \in ToSet(w.todo) /\ Last(w.todo) \in ToSet(w.todo)
      /\ t \in Seq(Downloads) /\ Injective(t) /\ ToSet(t) = ToSet(w.todo) \ {j}
      /\ t # <<>> => Last(t) = Last(w.todo)
      /\ t = <<>> => Last(w.todo) = j
  BY <1>2, HeadAndTail
<1>4. j \in Downloads /\ b[j] \in Nat /\ j \in w.counted /\ j \notin Gone(w) /\ j \notin w.failed
  BY <1>1, <1>2, <1>3 DEF Balanced, Sized
<1>5. /\ v.todo = t /\ v.kind = w.kind /\ v.pc = w.pc /\ v.max = w.max /\ v.counted = w.counted
      /\ v.current = w.current
      /\ v.left = IF gone THEN w.left - b[j] ELSE w.left
      /\ v.removed = IF gone THEN Append(w.removed, j) ELSE w.removed
      /\ v.failed = IF gone THEN w.failed ELSE w.failed \cup {j}
  BY <1>1 DEF After1, Sweep
<1>6. w.left = Weight(b, w.counted \ Gone(w))
  BY <1>1 DEF Balanced
<1>7. /\ gone => /\ v.left = Weight(b, (w.counted \ Gone(w)) \ {j}) /\ v.left \in Nat
                 /\ v.left + b[j] > w.max
      /\ ~gone => v.left = w.left
  <2> DEFINE A == w.counted \ Gone(w)
  <2>1. Weight(b, A) = Weight(b, A \ {j}) + b[j]
    BY <1>4, WeightWithout
  <2>2. Weight(b, A \ {j}) \in Nat
    BY WeightType
  <2> DEFINE x == Weight(b, A \ {j})
             y == b[j]
             z == w.left
  <2>3. z = x + y /\ x \in Nat /\ y \in Nat /\ z > w.max
    BY <2>1, <2>2, <1>4, <1>6
  <2>4. gone => v.left = z - y
    BY <1>5
  <2>5. ~gone => v.left = z
    BY <1>5
  <2> HIDE DEF x, y, z
  <2>6. z - y = x /\ x + y > w.max
    BY <2>3
  <2>7. ASSUME gone
        PROVE  v.left = x /\ v.left \in Nat /\ v.left + y > w.max
    <3>1. v.left = x
      BY <2>4, <2>6, <2>7
    <3> QED
      BY <3>1, <2>3, <2>6
  <2> QED
    BY <2>5, <2>7 DEF x, y, z
<1>8. /\ v.removed \in Seq(Downloads)
      /\ gone => Gone(v) = Gone(w) \cup {j} /\ Last(v.removed) = j
      /\ ~gone => Gone(v) = Gone(w) /\ v.removed = w.removed
  BY <1>2, <1>4, <1>5, AppendedList DEF Gone
<1>9. v.left \in Nat
  BY <1>2, <1>7
<1>10. v.failed \subseteq Downloads
  BY <1>2, <1>4, <1>5
<1>11. v \in Sweep
  <2>1. v = [kind |-> w.kind, pc |-> w.pc, max |-> w.max, todo |-> v.todo,
             counted |-> w.counted, current |-> w.current, left |-> v.left,
             removed |-> v.removed, failed |-> v.failed]
    BY <1>1 DEF After1, Sweep
  <2> QED
    BY <2>1, <1>1, <1>3, <1>5, <1>8, <1>9, <1>10 DEF Sweep
<1> HIDE DEF j, t
<1>12. Rest(v) = Rest(w)
  BY <1>3, <1>4, <1>5, <1>8 DEF Rest
<1>13. Balanced(b, v)
  <2>1. /\ Gone(v) \subseteq v.counted /\ v.failed \subseteq v.counted
        /\ ToSet(v.todo) \subseteq v.counted /\ Injective(v.todo)
        /\ ToSet(v.todo) \cap (Gone(v) \cup v.failed) = {}
    BY <1>1, <1>3, <1>4, <1>5, <1>8 DEF Balanced
  <2>2. v.left = Weight(b, v.counted \ Gone(v))
    <3>1. CASE gone
      <4>1. v.counted \ Gone(v) = (w.counted \ Gone(w)) \ {j}
        BY <1>5, <1>8, <3>1
      <4> QED
        BY <4>1, <1>7, <3>1
    <3>2. CASE ~gone
      <4>1. v.counted \ Gone(v) = w.counted \ Gone(w)
        BY <1>5, <1>8, <3>2
      <4> QED
        BY <4>1, <1>6, <1>7, <3>2
    <3> QED
      BY <3>1, <3>2
  <2>3. v.removed # <<>> => v.left + b[Last(v.removed)] > v.max
    <3>1. CASE gone
      <4>1. Last(v.removed) = j /\ v.max = w.max /\ v.left + b[j] > w.max
        BY <1>5, <1>7, <1>8, <3>1
      <4> QED
        BY <4>1
    <3>2. CASE ~gone
      BY <1>1, <1>5, <1>7, <1>8, <3>2 DEF Balanced
    <3> QED
      BY <3>1, <3>2
  <2> QED
    BY <2>1, <2>2, <2>3 DEF Balanced
<1>14. v.kind = "worker" => AsWorker(max, v)
  BY <1>1, <1>5, <1>12 DEF AsWorker
<1>15. v.kind = "request" => AsRequest(b, v)
  <2> SUFFICES ASSUME w.kind = "request" PROVE AsRequest(b, v)
    BY <1>5
  <2>1. AsRequest(b, w)
    BY <1>1
  <2>2. w.max # NoMaximum
    BY <2>1 DEF AsRequest
  <2>3. v.todo # <<>> => Last(v.todo) = Last(w.todo)
    BY <1>3, <1>5
  <2> QED
    BY <2>1, <2>2, <2>3, <1>5, <1>12 DEF AsRequest
<1> QED
  BY <1>5, <1>8, <1>11, <1>13, <1>14, <1>15 DEF SweepOK, j

\* A request has more than its limit left as long as its plan goes on.
LEMMA PlanIsNeeded ==
  ASSUME NEW b \in Sized, NEW max, NEW w, SweepOK(b, max, w), w.kind = "request", w.todo # <<>>
  PROVE  w.max \in Nat /\ w.left > w.max
<1>1. w \in Sweep /\ Balanced(b, w) /\ AsRequest(b, w)
  BY DEF SweepOK
<1> DEFINE A == w.counted \ Gone(w)
           B == Rest(w) \cup {Last(w.todo)}
<1>2. w.max \in Nat /\ Weight(b, B) > w.max
  BY <1>1 DEF AsRequest
<1>3. Last(w.todo) \in ToSet(w.todo)
  BY <1>1, HeadAndTail DEF Balanced, Sweep
<1>4. B \subseteq A
  BY <1>1, <1>3 DEF Balanced, Rest
<1> HIDE DEF A, B
<1>5. Weight(b, B) <= Weight(b, A) /\ Weight(b, A) \in Nat /\ Weight(b, B) \in Nat
  BY <1>4, WeightMonotone, WeightType
<1>6. w.left = Weight(b, A)
  BY <1>1 DEF Balanced, A
<1> QED
  BY <1>2, <1>5, <1>6

\* The plan of a request is as short as can be.
LEMMA PlanIsShort ==
  ASSUME NEW b \in Sized, NEW c \in Seq(Downloads), Injective(c), NEW max \in Nat,
         NEW m, m = Min({n \in 0 .. Len(c) : Weight(b, ToSet(SubSeq(c, n + 1, Len(c)))) <= max})
  PROVE  /\ m \in 0 .. Len(c) /\ Weight(b, ToSet(SubSeq(c, m + 1, Len(c)))) <= max
         /\ m # 0 => Weight(b, ToSet(SubSeq(c, m, Len(c)))) > max
<1> DEFINE W(n) == Weight(b, ToSet(SubSeq(c, n + 1, Len(c))))
           T == {n \in 0 .. Len(c) : W(n) <= max}
<1>1. Len(c) \in T
  <2>1. Len(c) \in Nat /\ Len(c) \in 0 .. Len(c)
    OBVIOUS
  <2>2. ToSet(SubSeq(c, Len(c) + 1, Len(c))) = {}
    BY DEF ToSet
  <2>3. W(Len(c)) = 0
    BY <2>2, WeightEmpty
  <2> QED
    BY <2>1, <2>3
<1>2. T \subseteq Nat /\ T # {}
  BY <1>1
<1>3. \E n \in T : \A k \in T : n <= k
  <2> HIDE DEF T
  <2> QED
    BY <1>2, LeastNumber
<1>4. m = Min(T)
  OBVIOUS
<1>5. m \in T /\ \A k \in T : m <= k
  <2> HIDE DEF T
  <2> QED
    BY <1>3, <1>4 DEF Min
<1>6. m \in 0 .. Len(c) /\ W(m) <= max
  BY <1>5
<1>7. m # 0 => W(m - 1) > max
  <2> SUFFICES ASSUME m # 0 PROVE W(m - 1) > max
    OBVIOUS
  <2>1. m - 1 \in 0 .. Len(c) /\ ~(m <= m - 1)
    BY <1>6
  <2>2. ~(W(m - 1) <= max)
    BY <2>1, <1>5
  <2>3. W(m - 1) \in Nat
    BY WeightType
  <2> HIDE DEF W
  <2> QED
    BY <2>2, <2>3
<1>8. m # 0 => (m - 1) + 1 = m
  BY <1>6
<1> QED
  BY <1>6, <1>7, <1>8

------------------------------------------------------------------------------
(* The invariant *)

\* What the jobs are like: the map lists a job once, and no job that is still to come.
JobsOK ==
  /\ maximum \in Maxima /\ stuck \in Stuck /\ dirs \subseteq Downloads
  /\ state \in [Downloads -> {"none", "succeeded", "deleted", "evicted"}]
  /\ bytes \in [Downloads -> MediaBytes]
  /\ order \in Seq(Downloads) /\ Injective(order)
  /\ \A j \in ToSet(order) : state[j] # "none"

\* A job that was removed does not come back.
Finished(w) == \A j \in Gone(w) : state[j] \notin {"none", "succeeded"}

SweepsOK ==
  /\ sweep \in [Sweepers -> Sweep \cup {NoSweep}]
  /\ \A s \in Sweepers :
       sweep[s] # NoSweep => SweepOK(bytes, maximum, sweep[s]) /\ Finished(sweep[s])

StorageInv == JobsOK /\ SweepsOK

\* The sizes of the media are natural numbers.
LEMMA BytesSized ==
  ASSUME JobsOK
  PROVE  bytes \in Sized
BY StorageAssumption DEF JobsOK, Sized

\* What the module sums up is the weight for the current sizes.
LEMMA TotalIsWeight ==
  ASSUME NEW jobs
  PROVE  Total(jobs) = Weight(bytes, jobs)
BY DEF Total, Weight, Shares

\* What a sweep that has ended did, from what it counted.
LEMMA SweepFrees ==
  ASSUME JobsOK, NEW w, SweepOK(bytes, maximum, w), Finished(w), w.pc = "over",
         w.kind # "preview",
         NEW remaining, remaining = {j \in w.counted : Succeeded(j)}
  PROVE  /\ w.kind = "worker" /\ Total(remaining) > w.max => remaining \subseteq w.failed
         /\ w.kind = "request" =>
              /\ w.left >= Total(remaining)
              /\ w.failed = {} /\ w.max # NoMaximum => Total(remaining) <= w.max
         /\ w.removed # <<>> => w.left + bytes[Last(w.removed)] > w.max
<1> DEFINE b == bytes
           A == w.counted \ Gone(w)
<1>1. w \in Sweep /\ Balanced(b, w) /\ b \in Sized
  BY BytesSized DEF SweepOK
<1>2. remaining \subseteq A
  BY DEF Finished, Succeeded
<1>3. Total(remaining) = Weight(b, remaining)
  BY TotalIsWeight
<1>4. w.left = Weight(b, A)
  BY <1>1 DEF Balanced
<1>5. maximum \in Nat
  BY StorageAssumption DEF JobsOK
<1> HIDE DEF A, b
<1>6. Weight(b, remaining) <= Weight(b, A) /\ Weight(b, A) \in Nat /\ Weight(b, remaining) \in Nat
  BY <1>1, <1>2, WeightMonotone, WeightType
<1>7. ASSUME w.kind = "worker", Total(remaining) > w.max
      PROVE  remaining \subseteq w.failed
  <2>1. AsWorker(maximum, w)
    BY <1>7 DEF SweepOK
  <2>2. w.max \in Nat /\ (w.todo = <<>> \/ w.left <= w.max) /\ Rest(w) = {}
    BY <2>1, <1>5 DEF AsWorker
  <2>3. ~(w.left <= w.max)
    BY <2>2, <1>3, <1>4, <1>6, <1>7
  <2>4. ToSet(w.todo) = {}
    BY <2>2, <2>3 DEF ToSet
  <2> QED
    BY <2>2, <2>4, <1>2 DEF Rest, A
<1>8. ASSUME w.kind = "request"
      PROVE  /\ w.left >= Total(remaining)
             /\ w.failed = {} /\ w.max # NoMaximum => Total(remaining) <= w.max
  <2>1. w.left >= Total(remaining)
    BY <1>3, <1>4, <1>6
  <2>2. ASSUME w.failed = {}, w.max # NoMaximum
        PROVE  Total(remaining) <= w.max
    <3>1. AsRequest(b, w) /\ w.pc = "over"
      BY <1>8 DEF SweepOK, b
    <3>2. w.todo = <<>> /\ w.max \in Nat /\ Weight(b, Rest(w)) <= w.max
      BY <3>1, <2>2 DEF AsRequest
    <3>3. ToSet(w.todo) = {}
      BY <3>2 DEF ToSet
    <3>4. Rest(w) = A
      BY <3>3, <2>2 DEF Rest, A
    <3>5. Weight(b, A) <= w.max
      BY <3>2, <3>4, Zenon
    <3> QED
      BY <3>2, <3>5, <1>3, <1>6
  <2> QED
    BY <2>1, <2>2
<1> QED
  BY <1>1, <1>7, <1>8 DEF Balanced, b

\* The invariant implies what is checked.
LEMMA FreesFromInv ==
  ASSUME StorageInv
  PROVE  CleanupFrees
<1> SUFFICES ASSUME NEW s \in Sweepers, sweep[s] # NoSweep, sweep[s].pc = "over",
                    sweep[s].kind # "preview"
             PROVE  LET w == sweep[s]
                        remaining == {j \in w.counted : Succeeded(j)}
                    IN  /\ w.kind = "worker" /\ Total(remaining) > w.max =>
                             remaining \subseteq w.failed
                        /\ w.kind = "request" =>
                             /\ w.left >= Total(remaining)
                             /\ w.failed = {} /\ w.max # NoMaximum => Total(remaining) <= w.max
                        /\ w.removed # <<>> => w.left + bytes[Last(w.removed)] > w.max
  BY DEF CleanupFrees
<1>1. JobsOK /\ SweepOK(bytes, maximum, sweep[s]) /\ Finished(sweep[s])
  BY DEF StorageInv, SweepsOK
<1>2. PICK w : w = sweep[s]
  OBVIOUS
<1>3. PICK remaining : remaining = {j \in w.counted : Succeeded(j)}
  OBVIOUS
<1>4. /\ w.kind = "worker" /\ Total(remaining) > w.max => remaining \subseteq w.failed
      /\ w.kind = "request" =>
           /\ w.left >= Total(remaining)
           /\ w.failed = {} /\ w.max # NoMaximum => Total(remaining) <= w.max
      /\ w.removed # <<>> => w.left + bytes[Last(w.removed)] > w.max
  BY <1>1, <1>2, <1>3, SweepFrees
<1> QED
  BY <1>2, <1>3, <1>4, Zenon

------------------------------------------------------------------------------
(* The steps *)

\* The map keeps a job once when its record is written.
LEMMA TouchedOnce ==
  ASSUME JobsOK, NEW j \in Downloads
  PROVE  /\ Touched(j) \in Seq(Downloads) /\ Injective(Touched(j))
         /\ ToSet(Touched(j)) \subseteq ToSet(order) \cup {j}
<1> DEFINE f == Filter(order, Downloads \ {j})
<1>1. /\ f \in Seq(Downloads) /\ Injective(f)
      /\ ToSet(f) = ToSet(order) \cap (Downloads \ {j})
  BY FilteredList DEF JobsOK
<1> HIDE DEF f
<1>2. j \notin ToSet(f)
  BY <1>1
<1>3. Append(f, j) \in Seq(Downloads) /\ ToSet(Append(f, j)) = ToSet(f) \cup {j}
  BY <1>1, AppendedList
<1>4. Injective(Append(f, j))
  <2>1. f \in Seq(Downloads) /\ Injective(f)
    BY <1>1
  <2> QED
    BY <2>1, <1>2, AppendedInjective, Zenon
<1> QED
  BY <1>1, <1>3, <1>4 DEF Touched, f

\* A job that is over stays over.
StateGrows ==
  \A j \in Downloads :
    state[j] \notin {"none", "succeeded"} => state'[j] \notin {"none", "succeeded"}

\* What is left of the other sweeps when one moves.
LEMMA OneSweepMoves ==
  ASSUME StorageInv, UNCHANGED <<maximum, bytes>>, StateGrows,
         NEW s \in Sweepers, NEW v, sweep' = [sweep EXCEPT ![s] = v],
         v = NoSweep \/ (SweepOK(bytes, maximum, v)
                         /\ \A j \in Gone(v) : state'[j] \notin {"none", "succeeded"})
  PROVE  SweepsOK'
<1>1. v \in Sweep \cup {NoSweep}
  BY DEF SweepOK
<1>2. sweep' \in [Sweepers -> Sweep \cup {NoSweep}]
  BY <1>1 DEF StorageInv, SweepsOK
<1>3. ASSUME NEW t \in Sweepers, sweep'[t] # NoSweep
      PROVE  /\ SweepOK(bytes', maximum', sweep'[t])
             /\ \A j \in Gone(sweep'[t]) : state'[j] \notin {"none", "succeeded"}
  <2>1. CASE t = s
    <3>1. sweep'[t] = v
      BY <2>1 DEF StorageInv, SweepsOK
    <3> QED
      BY <3>1, <1>3
  <2>2. CASE t # s
    <3>1. sweep'[t] = sweep[t]
      BY <2>2 DEF StorageInv, SweepsOK
    <3>2. SweepOK(bytes, maximum, sweep[t]) /\ Finished(sweep[t])
      BY <3>1, <1>3 DEF StorageInv, SweepsOK
    <3>3. Gone(sweep[t]) \subseteq Downloads
      BY <3>2 DEF SweepOK, Sweep, Gone, ToSet
    <3> QED
      BY <3>1, <3>2, <3>3 DEF Finished, StateGrows
  <2> QED
    BY <2>1, <2>2
<1> QED
  BY <1>2, <1>3 DEF SweepsOK, Finished

\* A sweep that begins is in order: as the one of a worker.
LEMMA BegunOK ==
  ASSUME JobsOK
  PROVE  SweepOK(bytes, maximum, Begun("worker", "snapshot", maximum))
         /\ Gone(Begun("worker", "snapshot", maximum)) = {}
<1> DEFINE w == Begun("worker", "snapshot", maximum)
<1>1. /\ w.kind = "worker" /\ w.pc = "snapshot" /\ w.max = maximum /\ w.todo = <<>>
      /\ w.counted = {} /\ w.current = 0 /\ w.left = 0 /\ w.removed = <<>> /\ w.failed = {}
  BY DEF Begun
<1>2. w \in Sweep
  BY DEF Begun, Sweep, JobsOK
<1>3. ToSet(<<>>) = {}
  BY DEF ToSet
<1>4. Weight(bytes, {}) = 0
  BY BytesSized, WeightEmpty
<1>5. Injective(<<>>)
  BY DEF Injective
<1> HIDE DEF w
<1>6. Gone(w) = {} /\ Rest(w) = {}
  BY <1>1, <1>3 DEF Gone, Rest
<1>7. w.counted \ Gone(w) = {}
  BY <1>1, <1>6
<1>8. Balanced(bytes, w)
  BY <1>1, <1>3, <1>4, <1>5, <1>6, <1>7 DEF Balanced
<1>9. AsWorker(maximum, w)
  BY <1>1, <1>6 DEF AsWorker, w
<1> QED
  BY <1>1, <1>2, <1>6, <1>8, <1>9 DEF SweepOK, w

\* A sweep goes to a later phase.
LEMMA NextPhase ==
  ASSUME NEW b, NEW max, NEW w, SweepOK(b, max, w), NEW pc \in {"retain", "over"},
         \/ w.kind = "worker" /\ (w.todo = <<>> \/ w.left <= w.max)
         \/ w.kind = "request" /\ w.todo = <<>> /\ pc = "over",
         NEW v, v = [w EXCEPT !.pc = pc]
  PROVE  SweepOK(b, max, v) /\ Gone(v) = Gone(w)
<1>1. w \in Sweep
  BY DEF SweepOK
<1>2. /\ v.todo = w.todo /\ v.kind = w.kind /\ v.pc = pc /\ v.max = w.max
      /\ v.counted = w.counted /\ v.current = w.current
      /\ v.left = w.left /\ v.removed = w.removed /\ v.failed = w.failed
  BY <1>1 DEF Sweep
<1>3. v \in Sweep
  BY <1>1 DEF Sweep
<1>4. Gone(v) = Gone(w)
  BY <1>2 DEF Gone
<1>5. Rest(v) = Rest(w)
  BY <1>2, <1>4 DEF Rest
<1>6. v.kind # "preview" => Balanced(b, v)
  BY <1>2, <1>4 DEF SweepOK, Balanced
<1>7. v.kind = "worker" => AsWorker(max, v)
  BY <1>2, <1>5 DEF SweepOK, AsWorker
<1>8. v.kind = "request" => AsRequest(b, v)
  BY <1>2, <1>5 DEF SweepOK, AsRequest
<1> QED
  BY <1>2, <1>3, <1>4, <1>6, <1>7, <1>8 DEF SweepOK


\* Writing the record of a job that was removed keeps the job map in order.
LEMMA JobRemoved ==
  ASSUME JobsOK, NEW j \in Downloads, UNCHANGED <<maximum, stuck, bytes>>, dirs' = dirs \ {j},
         state' = [state EXCEPT ![j] = "deleted"], order' = Touched(j)
  PROVE  JobsOK' /\ StateGrows
<1>1. /\ order' \in Seq(Downloads) /\ Injective(order')
      /\ ToSet(order') \subseteq ToSet(order) \cup {j}
  BY TouchedOnce
<1>2. state' \in [Downloads -> {"none", "succeeded", "deleted", "evicted"}]
  BY DEF JobsOK
<1>3. ToSet(order') \subseteq Downloads
  BY <1>1 DEF ToSet
<1>4. \A k \in ToSet(order') : state'[k] # "none"
  BY <1>1, <1>3 DEF JobsOK
<1>5. StateGrows
  BY DEF JobsOK, StateGrows
<1> QED
  BY <1>1, <1>2, <1>4, <1>5 DEF JobsOK

\* A step that leaves the jobs alone.
LEMMA JobsKept ==
  ASSUME JobsOK, UNCHANGED <<maximum, stuck, bytes, dirs, state, order>>
  PROVE  JobsOK' /\ StateGrows
BY DEF JobsOK, StateGrows

\* A sweep that does not move stays in order.
LEMMA SweepsKept ==
  ASSUME StorageInv, UNCHANGED <<maximum, bytes, sweep>>, StateGrows
  PROVE  SweepsOK'
<1>1. ASSUME NEW t \in Sweepers, sweep[t] # NoSweep
      PROVE  /\ SweepOK(bytes, maximum, sweep[t])
             /\ \A j \in Gone(sweep[t]) : state'[j] \notin {"none", "succeeded"}
  <2>1. SweepOK(bytes, maximum, sweep[t]) /\ Finished(sweep[t])
    BY <1>1 DEF StorageInv, SweepsOK
  <2>2. Gone(sweep[t]) \subseteq Downloads
    BY <2>1 DEF SweepOK, Sweep, Gone, ToSet
  <2> QED
    BY <2>1, <2>2 DEF Finished, StateGrows
<1> QED
  BY <1>1 DEF StorageInv, SweepsOK, Finished

\* The jobs a sweep may remove, each once.
LEMMA CandidatesOnce ==
  ASSUME JobsOK
  PROVE  StorageCandidates \in Seq(Downloads) /\ Injective(StorageCandidates)
<1> DEFINE set == {j \in Downloads : Succeeded(j)}
<1>1. order \in Seq(Downloads) /\ Injective(order)
  BY DEF JobsOK
<1> HIDE DEF set
<1>2. Filter(order, set) \in Seq(Downloads) /\ Injective(Filter(order, set))
  BY <1>1, FilteredList
<1> QED
  BY <1>2 DEF StorageCandidates, set

\* Tried is After1 of the sweeper that tries.
LEMMA TriedOne ==
  ASSUME SweepsOK, NEW s \in Sweepers, sweep[s] # NoSweep, NEW gone \in BOOLEAN
  PROVE  Tried(s, Head(sweep[s].todo), gone) = [sweep EXCEPT ![s] = After1(bytes, sweep[s], gone)]
<1>1. sweep \in [Sweepers -> Sweep \cup {NoSweep}] /\ sweep[s] \in Sweep
  BY DEF SweepsOK
<1> QED
  BY <1>1 DEF Tried, LeftAfter, After1

\* The finished jobs stay so.
LEMMA GoneStays ==
  ASSUME StorageInv, StateGrows, NEW s \in Sweepers, sweep[s] # NoSweep
  PROVE  \A j \in Gone(sweep[s]) : state'[j] \notin {"none", "succeeded"}
<1>1. SweepOK(bytes, maximum, sweep[s]) /\ Finished(sweep[s])
  BY DEF StorageInv, SweepsOK
<1>2. Gone(sweep[s]) \subseteq Downloads
  BY <1>1 DEF SweepOK, Sweep, Gone, ToSet
<1> QED
  BY <1>1, <1>2 DEF Finished, StateGrows

\* A worker finishes a download and begins a sweep.
LEMMA StepFinish ==
  ASSUME StorageInv, NEW s \in Sweepers, NEW j \in Downloads, FinishDownload(s, j)
  PROVE  StorageInv'
<1> DEFINE v == Begun("worker", "snapshot", maximum)
<1>1. JobsOK
  BY DEF StorageInv
<1>2. j \notin ToSet(order)
  BY <1>1 DEF JobsOK, FinishDownload
<1>3. order \in Seq(Downloads) /\ Injective(order)
  BY <1>1 DEF JobsOK
<1>4. Injective(Append(order, j))
  BY <1>2, <1>3, AppendedInjective
<1>5. Append(order, j) \in Seq(Downloads) /\ ToSet(Append(order, j)) = ToSet(order) \cup {j}
  BY <1>3, AppendedList
<1>6. state' = [state EXCEPT ![j] = "succeeded"] /\ order' = Append(order, j)
  BY DEF FinishDownload
<1>7. state' \in [Downloads -> {"none", "succeeded", "deleted", "evicted"}]
  BY <1>1, <1>6 DEF JobsOK
<1>8. \A k \in ToSet(order') : state'[k] # "none"
  <2>1. ToSet(order) \subseteq Downloads
    BY <1>3 DEF ToSet
  <2> QED
    BY <2>1, <1>1, <1>5, <1>6 DEF JobsOK
<1>9. JobsOK'
  BY <1>1, <1>4, <1>5, <1>6, <1>7, <1>8 DEF JobsOK, FinishDownload
<1>10. StateGrows
  BY <1>1, <1>6 DEF JobsOK, StateGrows, FinishDownload
<1>11. SweepOK(bytes, maximum, v) /\ Gone(v) = {}
  BY <1>1, BegunOK
<1>12. sweep' = [sweep EXCEPT ![s] = v] /\ UNCHANGED <<maximum, bytes>>
  BY DEF FinishDownload
<1> HIDE DEF v
<1>13. SweepsOK'
  BY <1>10, <1>11, <1>12, OneSweepMoves
<1> QED
  BY <1>9, <1>13 DEF StorageInv

\* A worker takes its snapshot of the map.
LEMMA StepSnapshot ==
  ASSUME StorageInv, NEW s \in Sweepers, Snapshot(s)
  PROVE  StorageInv'
<1> DEFINE w == sweep[s]
           c == StorageCandidates
           total == Total(ToSet(c))
           x == [w EXCEPT !.pc = "retain"]
           y == [w EXCEPT !.pc = "remove", !.todo = c, !.current = total,
                          !.left = total, !.counted = ToSet(c)]
<1>1. JobsOK' /\ StateGrows /\ JobsOK /\ SweepsOK
  BY JobsKept DEF Snapshot, StorageInv
<1>2. w.pc = "snapshot" /\ w # NoSweep
  BY DEF Snapshot
<1>3. SweepOK(bytes, maximum, w) /\ Gone(w) = Gone(w)
  BY <1>1, <1>2 DEF SweepsOK
<1>4. w \in Sweep /\ w.kind = "worker" /\ w = Begun("worker", "snapshot", maximum)
  BY <1>2, <1>3 DEF SweepOK, AsRequest, AsWorker, Sweep
<1>5. sweep' = [sweep EXCEPT ![s] = IF maximum = 0 \/ total <= maximum THEN x ELSE y]
  BY DEF Snapshot
<1>6. UNCHANGED <<maximum, bytes>>
  BY DEF Snapshot
<1>7. \A j \in Gone(w) : state'[j] \notin {"none", "succeeded"}
  BY <1>1, <1>2, GoneStays
<1>8. SweepOK(bytes, maximum, x) /\ Gone(x) = Gone(w)
  <2>1. w.todo = <<>>
    BY <1>4 DEF Begun
  <2> HIDE DEF w
  <2> QED
    BY <2>1, <1>3, <1>4, NextPhase
<1>9. c \in Seq(Downloads) /\ Injective(c)
  BY <1>1, CandidatesOnce
<1>10. total = Weight(bytes, ToSet(c)) /\ total \in Nat /\ ToSet(c) \subseteq Downloads
  <2>1. total = Weight(bytes, ToSet(c))
    BY TotalIsWeight
  <2>2. Weight(bytes, ToSet(c)) \in Nat
    BY <1>1, BytesSized, WeightType
  <2> QED
    BY <2>1, <2>2, <1>9 DEF ToSet
<1>11. /\ w.max = maximum /\ w.removed = <<>> /\ w.failed = {}
       /\ maximum \in Maxima
  BY <1>1, <1>4 DEF Begun, JobsOK
<1> HIDE DEF c, total
<1>12. y \in Sweep
  BY <1>4, <1>9, <1>10 DEF Sweep
<1>13. /\ y.kind = "worker" /\ y.pc = "remove" /\ y.max = maximum /\ y.todo = c
       /\ y.counted = ToSet(c) /\ y.left = total /\ y.removed = <<>> /\ y.failed = {}
  BY <1>4, <1>11 DEF Sweep
<1> HIDE DEF w, x, y
<1>14. Gone(y) = {}
  BY <1>13 DEF Gone, ToSet
<1>15. Rest(y) = {}
  BY <1>13, <1>14 DEF Rest
<1>16. y.counted \ Gone(y) = ToSet(c)
  BY <1>13, <1>14
<1>17. Balanced(bytes, y)
  BY <1>9, <1>10, <1>13, <1>14, <1>16 DEF Balanced
<1>18. AsWorker(maximum, y)
  BY <1>13, <1>15 DEF AsWorker
<1>19. SweepOK(bytes, maximum, y)
  BY <1>12, <1>13, <1>17, <1>18 DEF SweepOK
<1>20. PICK v : v = IF maximum = 0 \/ total <= maximum THEN x ELSE y
  OBVIOUS
<1>21. SweepOK(bytes, maximum, v) /\ \A j \in Gone(v) : state'[j] \notin {"none", "succeeded"}
  BY <1>7, <1>8, <1>14, <1>19, <1>20
<1>22. SweepsOK'
  BY <1>1, <1>5, <1>6, <1>20, <1>21, OneSweepMoves
<1> QED
  BY <1>1, <1>22 DEF StorageInv

\* A worker tries to remove the next job of its list.
LEMMA StepRemove ==
  ASSUME StorageInv, NEW s \in Sweepers, RemoveNext(s)
  PROVE  StorageInv'
<1> DEFINE w == sweep[s]
           j == Head(w.todo)
           gone == ~(j \in stuck \cap dirs)
<1>1. JobsOK /\ SweepsOK /\ UNCHANGED <<maximum, stuck, bytes>>
  BY DEF RemoveNext, StorageInv
<1>2. w.pc = "remove" /\ w # NoSweep
  BY DEF RemoveNext
<1>3. SweepOK(bytes, maximum, w)
  BY <1>1, <1>2 DEF SweepsOK
<1>4. w \in Sweep /\ w.kind = "worker" /\ w.max = maximum /\ w.left \in Nat
  BY <1>2, <1>3 DEF SweepOK, AsRequest, AsWorker, Sweep
<1>5. maximum \in Nat /\ bytes \in Sized
  BY <1>1, StorageAssumption, BytesSized DEF JobsOK
<1>6. CASE w.todo = <<>> \/ w.left <= maximum
  <2> DEFINE v == [w EXCEPT !.pc = "retain"]
  <2>1. sweep' = [sweep EXCEPT ![s] = v] /\ UNCHANGED <<state, dirs, order>>
    BY <1>6 DEF RemoveNext
  <2>2. JobsOK' /\ StateGrows
    BY <2>1, <1>1, JobsKept
  <2>3. \A i \in Gone(w) : state'[i] \notin {"none", "succeeded"}
    BY <2>2, <1>2, GoneStays
  <2>4. SweepOK(bytes, maximum, v) /\ Gone(v) = Gone(w)
    <3> HIDE DEF w
    <3> QED
      BY <1>3, <1>4, <1>6, NextPhase
  <2> HIDE DEF v
  <2>5. SweepsOK'
    BY <2>1, <2>2, <2>3, <2>4, <1>1, OneSweepMoves
  <2> QED
    BY <2>2, <2>5 DEF StorageInv
<1>7. CASE ~(w.todo = <<>> \/ w.left <= maximum)
  <2> DEFINE v == After1(bytes, w, gone)
  <2>1. w.todo # <<>> /\ w.left > w.max /\ w.max \in Nat
    BY <1>4, <1>5, <1>7
  <2>2. SweepOK(bytes, maximum, v) /\ (gone => Gone(v) = Gone(w) \cup {j})
        /\ (~gone => Gone(v) = Gone(w))
    <3> HIDE DEF w, gone
    <3>1. gone \in BOOLEAN /\ w.kind # "preview"
      BY <1>4 DEF gone
    <3> QED
      BY <2>1, <3>1, <1>2, <1>3, <1>5, OneMore
  <2>3. Tried(s, j, gone) = [sweep EXCEPT ![s] = v]
    BY <1>1, <1>2, TriedOne
  <2>4. j \in Downloads
    <3>1. w.todo \in Seq(Downloads) /\ Injective(w.todo)
      BY <1>3, <1>4 DEF SweepOK, Balanced, Sweep
    <3> QED
      BY <3>1, <2>1
  <2>5. JobsOK' /\ StateGrows /\ sweep' = Tried(s, j, gone)
        /\ (gone => state'[j] \notin {"none", "succeeded"})
    <3>1. CASE ~gone
      <4>1. sweep' = Tried(s, j, gone) /\ UNCHANGED <<state, dirs, order>>
        BY <1>7, <3>1 DEF RemoveNext
      <4> QED
        BY <4>1, <3>1, <1>1, JobsKept
    <3>2. CASE gone /\ state[j] = "evicted"
      <4>1. sweep' = Tried(s, j, TRUE) /\ UNCHANGED <<state, order>> /\ dirs' = dirs \ {j}
        BY <1>7, <3>2 DEF RemoveNext
      <4>2. JobsOK' /\ StateGrows
        BY <4>1, <1>1 DEF JobsOK, StateGrows
      <4>3. gone = TRUE
        BY <3>2
      <4> QED
        BY <4>1, <4>2, <4>3, <3>2
    <3>3. CASE gone /\ state[j] # "evicted"
      <4>1. /\ sweep' = Tried(s, j, TRUE) /\ dirs' = dirs \ {j}
            /\ state' = [state EXCEPT ![j] = "deleted"] /\ order' = Touched(j)
        BY <1>7, <3>3 DEF RemoveNext
      <4>2. JobsOK' /\ StateGrows
        BY <4>1, <2>4, <1>1, JobRemoved
      <4>3. gone = TRUE
        BY <3>3
      <4>4. state'[j] = "deleted"
        BY <4>1, <2>4, <1>1 DEF JobsOK
      <4> QED
        BY <4>1, <4>2, <4>3, <4>4
    <3> QED
      BY <3>1, <3>2, <3>3
  <2>6. \A i \in Gone(w) : state'[i] \notin {"none", "succeeded"}
    BY <2>5, <1>2, GoneStays
  <2>7. \A i \in Gone(v) : state'[i] \notin {"none", "succeeded"}
    <3> HIDE DEF v, w, j, gone
    <3> QED
      BY <2>2, <2>5, <2>6
  <2>8. sweep' = [sweep EXCEPT ![s] = v]
    BY <2>3, <2>5
  <2> HIDE DEF v
  <2>9. SweepsOK'
    BY <2>2, <2>5, <2>7, <2>8, <1>1, OneSweepMoves
  <2> QED
    BY <2>5, <2>9 DEF StorageInv
<1> QED
  BY <1>6, <1>7


\* A worker writes back the map without what is retained too long.
LEMMA StepRetain ==
  ASSUME StorageInv, NEW s \in Sweepers, RetainRecent(s)
  PROVE  StorageInv'
<1> DEFINE w == sweep[s]
           v == [w EXCEPT !.pc = "over"]
           extra == IF Len(order) > Kept THEN Len(order) - Kept ELSE 0
           old == ToSet(SubSeq(order, 1, extra))
<1>1. JobsOK /\ SweepsOK
  BY DEF StorageInv
<1>2. w.pc = "retain" /\ w # NoSweep
  BY DEF RetainRecent
<1>3. SweepOK(bytes, maximum, w)
  BY <1>1, <1>2 DEF SweepsOK
<1>4. w.kind = "worker" /\ w.max = maximum /\ (w.todo = <<>> \/ w.left <= w.max)
  BY <1>2, <1>3 DEF SweepOK, AsRequest, AsWorker, Sweep
<1>5. /\ UNCHANGED <<maximum, stuck, bytes, dirs>>
      /\ order' = SubSeq(order, extra + 1, Len(order))
      /\ state' = [j \in Downloads |-> IF j \in old THEN "evicted" ELSE state[j]]
      /\ sweep' = [sweep EXCEPT ![s] = v]
  <2>1. sweep' = [sweep EXCEPT ![s].pc = "over"]
    BY DEF RetainRecent
  <2>2. sweep' = [sweep EXCEPT ![s] = v]
    BY <2>1, <1>1 DEF SweepsOK
  <2> QED
    BY <2>2 DEF RetainRecent
<1>6. order \in Seq(Downloads) /\ Injective(order) /\ extra \in 0 .. Len(order)
  <2>1. order \in Seq(Downloads) /\ Injective(order)
    BY <1>1 DEF JobsOK
  <2>2. Len(order) \in Nat /\ Kept \in Nat
    BY <2>1, StorageAssumption
  <2> QED
    BY <2>1, <2>2
<1> HIDE DEF extra
<1>7. /\ order' \in Seq(Downloads) /\ Injective(order')
      /\ ToSet(order') = ToSet(order) \ old
  BY <1>5, <1>6, CutInTwo
<1> HIDE DEF old
<1>8. JobsOK'
  <2>1. state' \in [Downloads -> {"none", "succeeded", "deleted", "evicted"}]
    BY <1>1, <1>5 DEF JobsOK
  <2>2. ToSet(order) \subseteq Downloads
    BY <1>6 DEF ToSet
  <2>3. \A j \in ToSet(order') : state'[j] # "none"
    BY <2>2, <1>1, <1>5, <1>7 DEF JobsOK
  <2> QED
    BY <2>1, <2>3, <1>1, <1>5, <1>7 DEF JobsOK
<1>9. StateGrows
  BY <1>1, <1>5 DEF JobsOK, StateGrows
<1>10. SweepOK(bytes, maximum, v) /\ Gone(v) = Gone(w)
  <2> HIDE DEF w
  <2> QED
    BY <1>3, <1>4, NextPhase
<1>11. \A i \in Gone(w) : state'[i] \notin {"none", "succeeded"}
  BY <1>9, <1>2, GoneStays
<1> HIDE DEF v
<1>12. SweepsOK'
  BY <1>5, <1>9, <1>10, <1>11, OneSweepMoves
<1> QED
  BY <1>8, <1>12 DEF StorageInv

\* A request of a user deletes a job between the steps of the sweeps.
LEMMA StepUserDeletes ==
  ASSUME StorageInv, NEW j \in Downloads, UserDeletes(j)
  PROVE  StorageInv'
<1>1. JobsOK
  BY DEF StorageInv
<1>2. /\ UNCHANGED <<maximum, stuck, bytes, sweep>> /\ dirs' = dirs \ {j}
      /\ state' = [state EXCEPT ![j] = "deleted"] /\ order' = Touched(j)
  BY DEF UserDeletes, DeleteDownload
<1>3. JobsOK' /\ StateGrows
  BY <1>1, <1>2, JobRemoved
<1>4. SweepsOK'
  BY <1>2, <1>3, SweepsKept
<1> QED
  BY <1>3, <1>4 DEF StorageInv

\* A sweep ends.
LEMMA StepEnd ==
  ASSUME StorageInv, NEW s \in Sweepers, EndSweep(s)
  PROVE  StorageInv'
<1>1. JobsOK' /\ StateGrows
  BY JobsKept DEF StorageInv, EndSweep
<1>2. SweepsOK'
  BY <1>1, OneSweepMoves DEF EndSweep
<1> QED
  BY <1>1, <1>2 DEF StorageInv

\* A cleanup request deletes the next job of its plan.
LEMMA StepDelete ==
  ASSUME StorageInv, NEW s \in Sweepers, DeleteNext(s)
  PROVE  StorageInv'
<1> DEFINE w == sweep[s]
           j == Head(w.todo)
           gone == Deletable(j)
<1>1. JobsOK /\ SweepsOK /\ UNCHANGED <<maximum, stuck, bytes>>
  BY DEF DeleteNext, StorageInv
<1>2. w.pc = "delete" /\ w # NoSweep
  BY DEF DeleteNext
<1>3. SweepOK(bytes, maximum, w)
  BY <1>1, <1>2 DEF SweepsOK
<1>4. w \in Sweep /\ w.kind = "request" /\ w.left \in Nat
  BY <1>2, <1>3 DEF SweepOK, AsRequest, AsWorker, Sweep
<1>5. bytes \in Sized
  BY <1>1, BytesSized
<1>6. CASE w.todo = <<>>
  <2> DEFINE v == [w EXCEPT !.pc = "over"]
  <2>1. sweep' = [sweep EXCEPT ![s] = v] /\ UNCHANGED <<state, dirs, order>>
    BY <1>6 DEF DeleteNext
  <2>2. JobsOK' /\ StateGrows
    BY <2>1, <1>1, JobsKept
  <2>3. \A i \in Gone(w) : state'[i] \notin {"none", "succeeded"}
    BY <2>2, <1>2, GoneStays
  <2>4. SweepOK(bytes, maximum, v) /\ Gone(v) = Gone(w)
    <3> HIDE DEF w
    <3> QED
      BY <1>3, <1>4, <1>6, NextPhase
  <2> HIDE DEF v
  <2>5. SweepsOK'
    BY <2>1, <2>2, <2>3, <2>4, <1>1, OneSweepMoves
  <2> QED
    BY <2>2, <2>5 DEF StorageInv
<1>7. CASE w.todo # <<>>
  <2> DEFINE v == After1(bytes, w, gone)
  <2>1. w.left > w.max /\ w.max \in Nat
    <3> HIDE DEF w
    <3> QED
      BY <1>3, <1>4, <1>5, <1>7, PlanIsNeeded
  <2>2. SweepOK(bytes, maximum, v) /\ (gone => Gone(v) = Gone(w) \cup {j})
        /\ (~gone => Gone(v) = Gone(w))
    <3>1. gone \in BOOLEAN /\ w.kind # "preview"
      BY <1>4 DEF Deletable
    <3> HIDE DEF w, gone
    <3> QED
      BY <2>1, <3>1, <1>2, <1>3, <1>5, <1>7, OneMore
  <2>3. Tried(s, j, gone) = [sweep EXCEPT ![s] = v]
    <3>1. gone \in BOOLEAN
      BY DEF Deletable
    <3> HIDE DEF gone
    <3> QED
      BY <3>1, <1>1, <1>2, TriedOne
  <2>4. j \in Downloads
    <3>1. w.todo \in Seq(Downloads) /\ Injective(w.todo)
      BY <1>3, <1>4 DEF SweepOK, Balanced, Sweep
    <3> QED
      BY <3>1, <1>7
  <2>5. JobsOK' /\ StateGrows /\ sweep' = Tried(s, j, gone)
        /\ (gone => state'[j] \notin {"none", "succeeded"})
    <3>1. CASE ~gone
      <4>1. sweep' = Tried(s, j, gone) /\ UNCHANGED <<state, dirs, order>>
        BY <1>7, <3>1 DEF DeleteNext
      <4> QED
        BY <4>1, <3>1, <1>1, JobsKept
    <3>2. CASE gone
      <4>1. /\ sweep' = Tried(s, j, gone) /\ dirs' = dirs \ {j}
            /\ state' = [state EXCEPT ![j] = "deleted"] /\ order' = Touched(j)
        BY <1>7, <3>2 DEF DeleteNext, DeleteDownload
      <4>2. JobsOK' /\ StateGrows
        BY <4>1, <2>4, <1>1, JobRemoved
      <4>3. state'[j] = "deleted"
        BY <4>1, <2>4, <1>1 DEF JobsOK
      <4> QED
        BY <4>1, <4>2, <4>3
    <3> QED
      BY <3>1, <3>2
  <2>6. \A i \in Gone(w) : state'[i] \notin {"none", "succeeded"}
    BY <2>5, <1>2, GoneStays
  <2>7. \A i \in Gone(v) : state'[i] \notin {"none", "succeeded"}
    <3> HIDE DEF v, w, j, gone
    <3> QED
      BY <2>2, <2>5, <2>6
  <2>8. sweep' = [sweep EXCEPT ![s] = v]
    BY <2>3, <2>5
  <2> HIDE DEF v
  <2>9. SweepsOK'
    BY <2>2, <2>5, <2>7, <2>8, <1>1, OneSweepMoves
  <2> QED
    BY <2>5, <2>9 DEF StorageInv
<1> QED
  BY <1>6, <1>7

\* The plan of a request, from the jobs it may remove.
LEMMA PlanOK ==
  ASSUME JobsOK, NEW max \in Maxima \cup Overrides \cup {NoMaximum},
         NEW c, c = StorageCandidates, NEW plan, plan = Planned(max)
  PROVE  /\ plan \in Seq(Downloads) /\ Injective(plan) /\ ToSet(plan) \subseteq ToSet(c)
         /\ max = NoMaximum => plan = <<>>
         /\ max # NoMaximum =>
              /\ max \in Nat /\ Weight(bytes, ToSet(c) \ ToSet(plan)) <= max
              /\ plan # <<>> =>
                   Weight(bytes, (ToSet(c) \ ToSet(plan)) \cup {Last(plan)}) > max
<1>1. c \in Seq(Downloads) /\ Injective(c)
  BY CandidatesOnce
<1>2. CASE max = NoMaximum
  <2>1. plan = <<>>
    BY <1>2 DEF Planned
  <2> QED
    BY <2>1, <1>2 DEF Injective, ToSet
<1>3. CASE max # NoMaximum
  <2> DEFINE m == Min({n \in 0 .. Len(c) : Weight(bytes, ToSet(SubSeq(c, n + 1, Len(c)))) <= max})
  <2>1. plan = SubSeq(c, 1, m)
    BY <1>3, TotalIsWeight DEF Planned, After
  <2>2. max \in Nat
    BY <1>3, StorageAssumption
  <2>3. /\ m \in 0 .. Len(c) /\ Weight(bytes, ToSet(SubSeq(c, m + 1, Len(c)))) <= max
        /\ m # 0 => Weight(bytes, ToSet(SubSeq(c, m, Len(c)))) > max
    BY <2>2, <1>1, BytesSized, PlanIsShort
  <2> HIDE DEF m
  <2>4. /\ plan \in Seq(Downloads) /\ Injective(plan)
        /\ ToSet(SubSeq(c, m + 1, Len(c))) = ToSet(c) \ ToSet(plan)
        /\ ToSet(plan) \subseteq ToSet(c)
        /\ plan # <<>> => m # 0 /\ Last(plan) = c[m]
        /\ m # 0 => ToSet(SubSeq(c, m, Len(c))) = ToSet(SubSeq(c, m + 1, Len(c))) \cup {c[m]}
    <3>1. ASSUME NEW n \in 0 .. Len(c)
          PROVE  /\ SubSeq(c, 1, n) \in Seq(Downloads) /\ Injective(SubSeq(c, 1, n))
                 /\ ToSet(SubSeq(c, n + 1, Len(c))) = ToSet(c) \ ToSet(SubSeq(c, 1, n))
                 /\ ToSet(SubSeq(c, 1, n)) \subseteq ToSet(c)
                 /\ SubSeq(c, 1, n) # <<>> => n # 0 /\ Last(SubSeq(c, 1, n)) = c[n]
                 /\ n # 0 =>
                      ToSet(SubSeq(c, n, Len(c)))
                        = ToSet(SubSeq(c, n + 1, Len(c))) \cup {c[n]}
                 /\ SubSeq(c, n + 1, Len(c)) \in Seq(Downloads)
                 /\ Injective(SubSeq(c, n + 1, Len(c)))
      BY <1>1, CutInTwo
    <3>2. m \in 0 .. Len(c)
      BY <2>3
    <3> QED
      BY <2>1, <3>1, <3>2, Zenon
  <2>5. Weight(bytes, ToSet(c) \ ToSet(plan)) <= max
    BY <2>3, <2>4
  <2>6. ASSUME plan # <<>>
        PROVE  Weight(bytes, (ToSet(c) \ ToSet(plan)) \cup {Last(plan)}) > max
    <3>1. (ToSet(c) \ ToSet(plan)) \cup {Last(plan)} = ToSet(SubSeq(c, m, Len(c)))
      BY <2>4, <2>6
    <3> QED
      BY <3>1, <2>3, <2>4, <2>6
  <2> QED
    BY <2>2, <2>4, <2>5, <2>6, <1>3
<1> QED
  BY <1>2, <1>3

\* A cleanup request, or its preview, makes its plan.
LEMMA StepRequest ==
  ASSUME StorageInv, NEW s \in Sweepers, NEW override \in Overrides \cup {NoMaximum},
         NEW preview \in BOOLEAN, RequestCleanup(s, override, preview)
  PROVE  StorageInv'
<1> DEFINE max == IF override # NoMaximum THEN override
                  ELSE IF maximum > 0 THEN maximum ELSE NoMaximum
           c == StorageCandidates
           current == Total(ToSet(c))
           plan == Planned(max)
           rest == After(Len(plan))
           x == [Begun("request", "delete", max) EXCEPT !.todo = plan, !.current = current,
                   !.left = current, !.counted = ToSet(c)]
           y == [x EXCEPT !.kind = "preview", !.pc = "over", !.left = rest]
<1>1. JobsOK' /\ StateGrows /\ JobsOK
  BY JobsKept DEF RequestCleanup, StorageInv
<1>2. max \in Maxima \cup Overrides \cup {NoMaximum}
  BY <1>1 DEF JobsOK
<1>3. sweep' = [sweep EXCEPT ![s] = IF preview THEN y ELSE x]
  BY DEF RequestCleanup
<1>4. UNCHANGED <<maximum, bytes>>
  BY DEF RequestCleanup
<1>5. c \in Seq(Downloads) /\ Injective(c)
  BY <1>1, CandidatesOnce
<1> HIDE DEF max
<1>6. /\ plan \in Seq(Downloads) /\ Injective(plan) /\ ToSet(plan) \subseteq ToSet(c)
      /\ max = NoMaximum => plan = <<>>
      /\ max # NoMaximum =>
           /\ max \in Nat /\ Weight(bytes, ToSet(c) \ ToSet(plan)) <= max
           /\ plan # <<>> => Weight(bytes, (ToSet(c) \ ToSet(plan)) \cup {Last(plan)}) > max
  BY <1>1, <1>2, PlanOK
<1>7. current = Weight(bytes, ToSet(c)) /\ current \in Nat /\ rest \in Nat
      /\ ToSet(c) \subseteq Downloads
  <2>1. \A jobs : Total(jobs) = Weight(bytes, jobs) /\ Total(jobs) \in Nat
    BY <1>1, TotalIsWeight, BytesSized, WeightType
  <2> QED
    BY <2>1, <1>5 DEF ToSet, After
<1> HIDE DEF c, current, plan, rest
<1>8. /\ x.kind = "request" /\ x.pc = "delete" /\ x.max = max /\ x.todo = plan
      /\ x.counted = ToSet(c) /\ x.left = current /\ x.removed = <<>> /\ x.failed = {}
      /\ y.kind = "preview" /\ y.pc = "over" /\ y.removed = <<>>
  BY DEF Begun
<1>9. x \in Sweep /\ y \in Sweep
  <2>1. PICK begun : begun = Begun("request", "delete", max)
    OBVIOUS
  <2>2. begun \in Sweep
    BY <2>1, <1>2 DEF Begun, Sweep
  <2>3. x = [begun EXCEPT !.todo = plan, !.current = current, !.left = current,
               !.counted = ToSet(c)]
    BY <2>1
  <2>4. x \in Sweep
    <3> HIDE DEF x
    <3> QED
      BY <2>2, <2>3, <1>6, <1>7 DEF Sweep
  <2>5. y \in Sweep
    <3> HIDE DEF x
    <3> QED
      BY <2>4, <1>7 DEF Sweep
  <2> QED
    BY <2>4, <2>5
<1> HIDE DEF x, y
<1>10. Gone(x) = {} /\ Gone(y) = {}
  BY <1>8 DEF Gone, ToSet
<1>11. SweepOK(bytes, maximum, y)
  BY <1>8, <1>9 DEF SweepOK
<1>12. Rest(x) = ToSet(c) \ ToSet(plan)
  BY <1>8, <1>10 DEF Rest
<1>13. x.counted \ Gone(x) = ToSet(c)
  BY <1>8, <1>10
<1>14. Balanced(bytes, x)
  BY <1>6, <1>7, <1>8, <1>10, <1>13 DEF Balanced
<1>15. AsRequest(bytes, x)
  BY <1>6, <1>8, <1>12 DEF AsRequest
<1>16. SweepOK(bytes, maximum, x)
  BY <1>8, <1>9, <1>14, <1>15 DEF SweepOK
<1>17. PICK v : v = IF preview THEN y ELSE x
  OBVIOUS
<1>18. SweepOK(bytes, maximum, v) /\ \A j \in Gone(v) : state'[j] \notin {"none", "succeeded"}
  BY <1>10, <1>11, <1>16, <1>17
<1>19. SweepsOK'
  <2>1. sweep' = [sweep EXCEPT ![s] = v]
    BY <1>3, <1>17
  <2> QED
    BY <2>1, <1>1, <1>4, <1>18, OneSweepMoves
<1> QED
  BY <1>1, <1>19 DEF StorageInv

\* Before the first download no sweep is under way.
THEOREM StorageInitially == StorageInit => StorageInv
<1> SUFFICES ASSUME StorageInit PROVE StorageInv
  OBVIOUS
<1>1. order \in Seq(Downloads) /\ Injective(order) /\ ToSet(order) = {}
  BY DEF StorageInit, Injective, ToSet
<1>2. JobsOK
  BY <1>1 DEF StorageInit, JobsOK
<1>3. SweepsOK
  BY DEF StorageInit, SweepsOK
<1> QED
  BY <1>2, <1>3 DEF StorageInv

\* Every step keeps the invariant, however the sweeps interleave.
THEOREM StorageStep == StorageInv /\ [StorageNext]_storage => StorageInv'
<1> SUFFICES ASSUME StorageInv, [StorageNext]_storage PROVE StorageInv'
  OBVIOUS
<1>1. ASSUME NEW s \in Sweepers, NEW j \in Downloads, FinishDownload(s, j)
      PROVE  StorageInv'
  BY <1>1, StepFinish
<1>2. ASSUME NEW s \in Sweepers, Snapshot(s)
      PROVE  StorageInv'
  BY <1>2, StepSnapshot
<1>3. ASSUME NEW s \in Sweepers, RemoveNext(s)
      PROVE  StorageInv'
  BY <1>3, StepRemove
<1>4. ASSUME NEW s \in Sweepers, RetainRecent(s)
      PROVE  StorageInv'
  BY <1>4, StepRetain
<1>5. ASSUME NEW s \in Sweepers, DeleteNext(s)
      PROVE  StorageInv'
  BY <1>5, StepDelete
<1>6. ASSUME NEW s \in Sweepers, EndSweep(s)
      PROVE  StorageInv'
  BY <1>6, StepEnd
<1>7. ASSUME NEW s \in Sweepers, NEW override \in Overrides \cup {NoMaximum},
             NEW preview \in BOOLEAN, RequestCleanup(s, override, preview)
      PROVE  StorageInv'
  BY <1>7, StepRequest
<1>8. ASSUME NEW j \in Downloads, UserDeletes(j)
      PROVE  StorageInv'
  BY <1>8, StepUserDeletes
<1>9. ASSUME UNCHANGED storage
      PROVE  StorageInv'
  <2>1. JobsOK' /\ StateGrows
    BY <1>9, JobsKept DEF StorageInv, storage
  <2>2. SweepsOK'
    BY <2>1, <1>9, SweepsKept DEF storage
  <2> QED
    BY <2>1, <2>2 DEF StorageInv
<1> QED
  BY <1>1, <1>2, <1>3, <1>4, <1>5, <1>6, <1>7, <1>8, <1>9 DEF StorageNext

\* In every reachable state each sweep of a worker and each cleanup request knows what
\* is left of what it counted, and has removed no more than it had to, whatever the
\* other sweeps, the downloads and the users do meanwhile (enforce_max_storage,
\* cleanup_storage).
THEOREM StorageInvariant == StorageSpec => []StorageInv
<1>1. StorageInit => StorageInv
  BY StorageInitially
<1>2. StorageInv /\ [StorageNext]_storage => StorageInv'
  BY StorageStep
<1> QED
  BY <1>1, <1>2, PTL DEF StorageSpec

\* The invariant gives the types.
LEMMA StorageTypesHold == StorageInv => StorageTypeOK
BY DEF StorageInv, JobsOK, SweepsOK, SweepOK, StorageTypeOK

\* The variables keep their types, for any limits, sizes and numbers of sweepers.
THEOREM StorageTypes == StorageSpec => []StorageTypeOK
BY StorageInvariant, StorageTypesHold, PTL

\* When the sweep of a worker is over, no more than the limit is left of what it counted,
\* or nothing is left but directories it failed to remove; when a request is over, it left
\* no more than it reports, and no more than its limit if nothing failed; the last removal
\* was needed.  So for any number of sweepers and jobs, any limit and any order of their
\* steps (enforce_max_storage, cleanup_storage): see CleanupFrees.
THEOREM CleanupFreesJobs == StorageSpec => []CleanupFrees
<1>1. StorageInv => CleanupFrees
  BY FreesFromInv
<1> QED
  BY <1>1, StorageInvariant, PTL
==============================================================================
