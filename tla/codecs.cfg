SPECIFICATION Spec
CONSTANTS
  ArrayCases <- MCArrayCases
  StoredCases <- MCStoredCases
  ParamCases <- MCParamCases
  BatchCases <- MCBatchCases
  RowCases <- MCRowCases
  Years = {1, 1600, 1858, 1859, 1900, 2000, 2020, 2023, 9999}
  Days <- MCDays
  Seconds = {0, 1, 3599, 43200, 86399}
  TimeZones <- MCTimeZones
  Todays = {1, 7}
  Exponents <- MCExponents
  Orders <- MCOrders
  Streams <- MCStreams
  StatusCases <- MCStatusCases
  Tables <- MCTables
  ColumnCases <- MCColumnCases
  Catalogs <- MCCatalogs
  CatalogDomains <- MCCatalogDomains
  UpperNames <- MCUpperNames
  BufferLength = 1024
  Dsns <- MCDsns
  ZoneIds <- MCZoneIds
  Encodings <- MCEncodings
  Versions <- MCVersions
INVARIANTS ArraysSurvive MessagesParse ValuesSurvive SpbMeans StreamsParse StatusParses DescribeComplete NamesResolve
