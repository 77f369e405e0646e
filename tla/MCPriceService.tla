--------------------------- MODULE MCPriceService ---------------------------
EXTENDS PriceService

Line(k, v) == [key |-> k, value |-> v]

\* The file as shipped.
Shipped == <<Line("ManagerIP", "address"), Line("ManagerLogin", "1000"),
             Line("ManagerPassword", "secret"), Line("FixSetting", "path"),
             Line("MonitorPort", "7502"), Line("ManagerLibInclude", "path")>>

\* Shipped, and with FileLogRequired in front, at the end, twice or wrong; with
\* the unknown keys before the password, or before everything.
MCFiles ==
    {Shipped,
     <<Line("FileLogRequired", "N"), Line("FileLogRequired", "Y")>> \o Shipped,
     <<Line("FileLogRequired", "yes")>> \o Shipped,
     Append(Shipped, Line("FileLogRequired", "yes")),
     <<Shipped[1], Shipped[2], Shipped[4], Shipped[5], Shipped[3]>>,
     <<Shipped[5]>> \o Shipped}
=============================================================================
