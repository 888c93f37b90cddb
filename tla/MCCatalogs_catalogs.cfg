\* Up to seven calls on a registry, a policy set with two ids and a template.
SPECIFICATION CatalogSpec
CONSTANTS
  ConfigIds = {c1}
  Settings = {"s", "r", "bad"}
  ValidSettings = {"s", "r"}
  RuleIds = {1, 2}
  RuleTenants = {"t1", "t2"}
  RuleChannels = {"email"}
  Attributes = {"a", "b"}
  Drafts <- SomeInvalid
  ValidDrafts <- TwoDrafts
  TemplateIds = {d1}
  Texts = {"x", "y", ""}
  ValidTexts = {"x", "y"}
  Uploads <- TwoUploads
  NoConfig = NoConfig
  NoRule = NoRule
  NoTemplate = NoTemplate
  MaxConfigVersion = 3
  MaxRuleVersion = 3
  MaxVersions = 3
  MaxCalls = 7
CHECK_DEADLOCK FALSE
INVARIANTS
  CatalogTypeOK
  ConfigVersionNamesContent
  RuleVersionNamesContent
  CurrentIsPublished
PROPERTIES
  VersionsAreImmutable
  OnlyFailureWithdraws
